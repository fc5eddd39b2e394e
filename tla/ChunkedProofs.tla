---------------------------- MODULE ChunkedProofs ----------------------------
(***************************************************************************)
(* Proofs about Chunked, for every size of the buffer, base and body: what *)
(* is read of a body is what the client has sent, and what is sent of it   *)
(* is in its order.                                                        *)
(***************************************************************************)
EXTENDS Chunked, NaturalsInduction, SequenceTheorems, WellFoundedInduction,
        TLAPS

\* Induction, as the provers can use it: a set of numbers has a least one.
LEMMA Least ==
    ASSUME NEW S \in SUBSET Nat, S # {}
    PROVE  \E n \in S : \A m \in S : n <= m
<1>1. \E n \in S : \A m \in S : ~ (<<m, n>> \in OpToRel(<, Nat))
  BY WFMin, NatLessThanWellFounded
<1>2. PICK n \in S : \A m \in S : ~ (m < n)
  BY <1>1 DEF OpToRel
<1> QED
  BY <1>2

-----------------------------------------------------------------------------
(* The digits of a number (dectohex): the recursion has a solution.         *)

DigitBytes == [kind : {"digit"}, n : 0 .. (Base - 1)]

NextDigits(f, n) ==
    IF n < Base THEN <<Byte("digit", n)>>
    ELSE Append(f[n \div Base], Byte("digit", n % Base))

\* A solution up to a number.
Solves(f, k) ==
    /\ f \in [0 .. k -> Seq(DigitBytes)]
    /\ \A n \in 0 .. k : f[n] = NextDigits(f, n)

LEMMA Division ==
    ASSUME NEW n \in Nat
    PROVE  /\ n % Base \in 0 .. (Base - 1)
           /\ n < Base => Byte("digit", n) \in DigitBytes
           /\ Byte("digit", n % Base) \in DigitBytes
           /\ n >= Base => n \div Base \in 0 .. (n - 1)
<1>1. Base \in Nat /\ Base > 1
  BY ChunkedAssumption
<1>2. n % Base \in 0 .. (Base - 1)
  BY <1>1
<1>3. n >= Base => n \div Base \in Nat /\ n \div Base < n
  BY <1>1
<1> QED
  BY <1>1, <1>2, <1>3 DEF Byte, DigitBytes

LEMMA SolutionGrows ==
    ASSUME NEW k \in Nat, NEW f, Solves(f, k)
    PROVE  \E g : Solves(g, k + 1)
<1> DEFINE top == NextDigits(f, k + 1)
           g == [n \in 0 .. (k + 1) |-> IF n = k + 1 THEN top ELSE f[n]]
<1>1. top \in Seq(DigitBytes)
  <2>1. CASE k + 1 < Base
    BY <2>1, Division DEF NextDigits
  <2>2. CASE k + 1 >= Base
    <3>1. (k + 1) \div Base \in 0 .. k
      BY <2>2, Division
    <3>2. f[(k + 1) \div Base] \in Seq(DigitBytes)
      BY <3>1 DEF Solves
    <3>3. top = Append(f[(k + 1) \div Base], Byte("digit", (k + 1) % Base))
      BY <2>2, ChunkedAssumption DEF NextDigits
    <3> HIDE DEF top
    <3> QED
      BY <3>2, <3>3, Division
  <2> QED
    BY <2>1, <2>2, ChunkedAssumption
<1>2. g \in [0 .. (k + 1) -> Seq(DigitBytes)]
  <2> HIDE DEF top
  <2> QED
    BY <1>1 DEF Solves
<1>3. ASSUME NEW n \in 0 .. (k + 1)
      PROVE  g[n] = NextDigits(g, n)
  <2>1. g[n] = NextDigits(f, n)
    BY DEF Solves
  <2>2. n >= Base => g[n \div Base] = f[n \div Base]
    <3>1. n >= Base => n \div Base \in 0 .. k
      BY Division
    <3> HIDE DEF top
    <3> QED
      BY <3>1
  <2> HIDE DEF g
  <2> QED
    BY <2>1, <2>2, ChunkedAssumption DEF NextDigits
<1> QED
  BY <1>2, <1>3 DEF Solves

LEMMA SolutionExists == \A k \in Nat : \E f : Solves(f, k)
<1> DEFINE S == {k \in Nat : ~ \E f : Solves(f, k)}
<1> SUFFICES ASSUME S # {} PROVE FALSE
  OBVIOUS
<1>1. PICK k \in S : \A m \in S : k <= m
  <2> HIDE DEF S
  <2>1. S \in SUBSET Nat
    BY DEF S
  <2> QED
    BY <2>1, Least
<1>2. CASE k = 0
  <2> DEFINE zero == <<Byte("digit", 0)>>
             f == [n \in 0 .. 0 |-> zero]
  <2>1. zero \in Seq(DigitBytes)
    BY Division, ChunkedAssumption
  <2>2. \A n \in 0 .. 0 : n = 0 /\ NextDigits(f, n) = zero
    BY ChunkedAssumption DEF NextDigits
  <2> HIDE DEF zero
  <2>3. Solves(f, 0)
    BY <2>1, <2>2 DEF Solves
  <2> HIDE DEF f
  <2> QED
    BY <1>2, <2>3
<1>3. CASE k # 0
  <2>1. k - 1 \in Nat /\ k - 1 \notin S
    BY <1>1, <1>3
  <2>2. PICK f : Solves(f, k - 1)
    BY <2>1
  <2>3. \E g : Solves(g, (k - 1) + 1)
    BY <2>1, <2>2, SolutionGrows
  <2>4. (k - 1) + 1 = k
    OBVIOUS
  <2> QED
    BY <2>3, <2>4
<1> QED
  BY <1>2, <1>3

LEMMA SolutionUnique ==
    ASSUME NEW k \in Nat, NEW l \in Nat, NEW f, NEW g,
           Solves(f, k), Solves(g, l), NEW n \in Nat, n <= k, n <= l
    PROVE  f[n] = g[n]
<1> DEFINE S == {m \in Nat : m <= k /\ m <= l /\ f[m] # g[m]}
<1> SUFFICES ASSUME S # {} PROVE FALSE
  OBVIOUS
<1>1. PICK m \in S : \A i \in S : m <= i
  <2> HIDE DEF S
  <2>1. S \in SUBSET Nat
    BY DEF S
  <2> QED
    BY <2>1, Least
<1>2. f[m] = NextDigits(f, m) /\ g[m] = NextDigits(g, m)
  BY <1>1 DEF Solves
<1>3. m >= Base => f[m \div Base] = g[m \div Base]
  <2> SUFFICES ASSUME m >= Base PROVE f[m \div Base] = g[m \div Base]
    OBVIOUS
  <2>1. m \div Base \in Nat /\ m \div Base < m
    BY <1>1, Division
  <2> QED
    BY <1>1, <2>1
<1> QED
  BY <1>1, <1>2, <1>3, ChunkedAssumption DEF NextDigits

LEMMA DigitsIs == \A n \in Nat : Digits[n] = NextDigits(Digits, n)
<1> DEFINE Upto(n) == CHOOSE f : Solves(f, n)
           G == [n \in Nat |-> Upto(n)[n]]
<1>1. \A n \in Nat : Solves(Upto(n), n)
  BY SolutionExists
<1> HIDE DEF Upto
<1>2. ASSUME NEW n \in Nat
      PROVE  G[n] = NextDigits(G, n)
  <2>1. G[n] = NextDigits(Upto(n), n)
    BY <1>1 DEF Solves
  <2>2. ASSUME n >= Base
        PROVE  G[n \div Base] = Upto(n)[n \div Base]
    <3>1. n \div Base \in Nat /\ n \div Base <= n
      BY <2>2, Division
    <3>2. G[n \div Base] = Upto(n \div Base)[n \div Base]
      BY <3>1
    <3> QED
      BY <1>1, <3>1, <3>2, SolutionUnique
  <2> HIDE DEF G
  <2> QED
    BY <2>1, <2>2, ChunkedAssumption DEF NextDigits
<1>3. G = [n \in Nat |-> NextDigits(G, n)]
  BY <1>2
<1> HIDE DEF G
<1>4. Digits = CHOOSE f : f = [n \in Nat |-> NextDigits(f, n)]
  BY DEF Digits, NextDigits
<1>5. Digits = [n \in Nat |-> NextDigits(Digits, n)]
  BY <1>3, <1>4
<1> QED
  BY <1>5

LEMMA OneDigit ==
    ASSUME NEW n \in Nat, n < Base
    PROVE  Digits[n] = <<Byte("digit", n)>>
  BY DigitsIs DEF NextDigits

LEMMA MoreDigits ==
    ASSUME NEW n \in Nat, n >= Base
    PROVE  Digits[n] = Append(Digits[n \div Base], Byte("digit", n % Base))
<1>1. ~(n < Base)
  BY ChunkedAssumption
<1> QED
  BY <1>1, DigitsIs, Zenon DEF NextDigits

\* Digits, one at least, and nothing else.
LEMMA DigitsType ==
    \A n \in Nat : Digits[n] \in Seq(DigitBytes) /\ Len(Digits[n]) >= 1
<1> DEFINE Good(m) == Digits[m] \in Seq(DigitBytes) /\ Len(Digits[m]) >= 1
           S == {m \in Nat : ~Good(m)}
<1> SUFFICES ASSUME S # {} PROVE FALSE
  OBVIOUS
<1>1. PICK m \in S : \A i \in S : m <= i
  <2> HIDE DEF S
  <2>1. S \in SUBSET Nat
    BY DEF S
  <2> QED
    BY <2>1, Least
<1>2. m \in Nat /\ ~Good(m)
  BY <1>1
<1>3. CASE m < Base
  <2>1. Digits[m] = <<Byte("digit", m)>>
    BY <1>2, <1>3, OneDigit
  <2> QED
    BY <1>2, <1>3, <2>1, Division
<1>4. CASE m >= Base
  <2> DEFINE shorter == Digits[m \div Base]
             digit == Byte("digit", m % Base)
  <2>1. m \div Base \in Nat /\ m \div Base < m
    BY <1>2, <1>4, Division
  <2>2. shorter \in Seq(DigitBytes)
    BY <1>1, <2>1
  <2>3. Digits[m] = Append(shorter, digit)
    BY <1>2, <1>4, MoreDigits
  <2>4. digit \in DigitBytes
    BY <1>2, Division
  <2> HIDE DEF shorter, digit
  <2> QED
    BY <1>2, <2>2, <2>3, <2>4
<1> QED
  BY <1>2, <1>3, <1>4, ChunkedAssumption

LEMMA LastDigit ==
    ASSUME NEW n \in Nat, n >= Base
    PROVE  /\ n \div Base \in Nat /\ n \div Base < n
           /\ Len(Digits[n \div Base]) \in Nat \ {0}
           /\ Len(Digits[n]) = Len(Digits[n \div Base]) + 1
           /\ SubSeq(Digits[n], 1, Len(Digits[n]) - 1) = Digits[n \div Base]
           /\ Digits[n][Len(Digits[n])].n = n % Base
<1> DEFINE shorter == Digits[n \div Base]
           digit == Byte("digit", n % Base)
<1>1. n \div Base \in Nat /\ n \div Base < n
  BY Division
<1>2. shorter \in Seq(DigitBytes) /\ Len(shorter) >= 1
  BY <1>1, DigitsType
<1>3. Digits[n] = Append(shorter, digit)
  BY MoreDigits
<1>4. digit \in DigitBytes /\ digit.n = n % Base
  BY Division DEF Byte
<1> HIDE DEF shorter, digit
<1>5. /\ Len(Digits[n]) = Len(shorter) + 1 /\ Len(shorter) \in Nat \ {0}
      /\ SubSeq(Digits[n], 1, Len(Digits[n]) - 1) = shorter
      /\ Digits[n][Len(Digits[n])] = digit
  BY <1>2, <1>3, <1>4
<1> QED
  BY <1>1, <1>4, <1>5 DEF shorter

LEMMA FirstDigit ==
    ASSUME NEW n \in Nat, n < Base
    PROVE  Len(Digits[n]) = 1 /\ Digits[n][Len(Digits[n])].n = n
<1> DEFINE digit == Byte("digit", n)
<1>1. digit.n = n
  BY DEF Byte
<1>2. Digits[n] = <<digit>>
  BY OneDigit
<1> HIDE DEF digit
<1> QED
  BY <1>1, <1>2

\* Two numbers do not have the same digits.
LEMMA DigitsDiffer ==
    ASSUME NEW n \in Nat, NEW m \in Nat, Digits[n] = Digits[m]
    PROVE  n = m
<1> DEFINE S == {i \in Nat : \E j \in Nat : Digits[i] = Digits[j] /\ i # j}
<1> SUFFICES ASSUME S # {} PROVE FALSE
  OBVIOUS
<1>1. PICK i \in S : \A k \in S : i <= k
  <2> HIDE DEF S
  <2>1. S \in SUBSET Nat
    BY DEF S
  <2> QED
    BY <2>1, Least
<1>2. i \in Nat
  BY <1>1
<1>3. PICK j \in Nat : Digits[i] = Digits[j] /\ i # j
  BY <1>1
<1>4. \A a, b \in Nat : Digits[a] = Digits[b] /\ a # b => a \in S
  OBVIOUS
<1> HIDE DEF S
<1>5. Base \in Nat /\ Base > 1
  BY ChunkedAssumption
<1>6. CASE i < Base
  <2>1. Len(Digits[j]) = 1 /\ Digits[j][Len(Digits[j])].n = i
    BY <1>2, <1>3, <1>6, FirstDigit
  <2>2. CASE j < Base
    BY <1>3, <2>1, <2>2, FirstDigit
  <2>3. CASE j >= Base
    BY <2>1, <2>3, LastDigit
  <2> QED
    BY <1>5, <2>2, <2>3
<1>7. CASE i >= Base
  <2>1. /\ i \div Base \in Nat /\ i \div Base < i
        /\ Len(Digits[j]) > 1
        /\ SubSeq(Digits[j], 1, Len(Digits[j]) - 1) = Digits[i \div Base]
        /\ Digits[j][Len(Digits[j])].n = i % Base
    <3>1. /\ i \div Base \in Nat /\ i \div Base < i
          /\ Len(Digits[i \div Base]) \in Nat \ {0}
          /\ Len(Digits[i]) = Len(Digits[i \div Base]) + 1
          /\ SubSeq(Digits[i], 1, Len(Digits[i]) - 1) = Digits[i \div Base]
          /\ Digits[i][Len(Digits[i])].n = i % Base
      BY <1>2, <1>7, LastDigit
    <3>2. Len(Digits[i]) > 1
      BY <3>1
    <3> QED
      BY <1>3, <3>1, <3>2
  <2>2. CASE j < Base
    BY <2>1, <2>2, FirstDigit
  <2>3. CASE j >= Base
    <3>1. /\ j \div Base \in Nat
          /\ SubSeq(Digits[j], 1, Len(Digits[j]) - 1) = Digits[j \div Base]
          /\ Digits[j][Len(Digits[j])].n = j % Base
      BY <2>3, LastDigit
    <3>2. Digits[i \div Base] = Digits[j \div Base] /\ i % Base = j % Base
      BY <2>1, <3>1
    <3>3. i \div Base \notin S
      BY <1>1, <1>2, <2>1
    <3>4. i \div Base = j \div Base
      BY <1>4, <2>1, <3>1, <3>2, <3>3
    <3> QED
      BY <1>2, <1>3, <1>5, <3>2, <3>4
  <2> QED
    BY <1>5, <2>2, <2>3
<1> QED
  BY <1>2, <1>5, <1>6, <1>7

-----------------------------------------------------------------------------
(* The number at the beginning of a line (hextodec).                        *)

LEMMA BytesAre ==
    /\ DigitBytes \subseteq Bytes
    /\ {CR, LF, Semicolon, Ieof, OtherExtension} \subseteq Bytes
    /\ CRLF \in Seq(Bytes) /\ Len(CRLF) = 2 /\ CRLF[1] = CR /\ CRLF[2] = LF
    /\ \A b \in DigitBytes : b.kind = "digit" /\ b # CR
    /\ Semicolon.kind # "digit"
    /\ Semicolon # CR /\ Ieof # CR /\ OtherExtension # CR
    /\ Semicolon # Ieof /\ OtherExtension # Ieof
    /\ \A b \in DigitBytes : b # Ieof
  BY DEF DigitBytes, Bytes, CR, LF, Semicolon, Ieof, OtherExtension, CRLF, Byte

LEMMA Associative ==
    \A r, s, t \in Seq(Bytes) : (r \o s) \o t = r \o (s \o t)
  BY ConcatAssociative

\* What follows the digits in a line does not begin with one.
LEMMA DigitsEnd ==
    ASSUME NEW d \in Seq(DigitBytes), NEW e \in Seq(DigitBytes),
           NEW rest \in Seq(Bytes), rest # <<>> => rest[1].kind # "digit",
           NEW line, line = d \o rest, IsPrefix(e, line),
           Len(e) + 1 \in DOMAIN line => line[Len(e) + 1].kind # "digit"
    PROVE  e = d
<1>1. /\ Len(d) \in Nat /\ Len(e) \in Nat /\ Len(rest) \in Nat
      /\ Len(line) = Len(d) + Len(rest)
      /\ DOMAIN line = 1 .. Len(line)
      /\ \A i \in 1 .. Len(d) : line[i] = d[i]
      /\ Len(rest) > 0 => line[Len(d) + 1] = rest[1]
  OBVIOUS
<1>2. /\ Len(e) <= Len(line)
      /\ \A i \in 1 .. Len(e) : e[i] = line[i]
  <2>1. /\ Len(e) <= Len(line)
        /\ SubSeq(e, 1, Len(e)) = SubSeq(line, 1, Len(e))
    BY DEF IsPrefix
  <2>2. \A i \in 1 .. Len(e) : SubSeq(e, 1, Len(e))[i] = e[i]
    OBVIOUS
  <2>3. \A i \in 1 .. Len(e) : SubSeq(line, 1, Len(e))[i] = line[i]
    <3>1. line \in Seq(Bytes)
      BY BytesAre
    <3> QED
      BY <1>1, <2>1, <3>1
  <2> QED
    BY <2>1, <2>2, <2>3
<1>3. \A i \in 1 .. Len(d) : d[i].kind = "digit"
  BY BytesAre
<1>4. \A i \in 1 .. Len(e) : e[i].kind = "digit"
  BY BytesAre
<1>5. ~(Len(e) < Len(d))
  <2> SUFFICES ASSUME Len(e) < Len(d) PROVE FALSE
    OBVIOUS
  <2>1. Len(e) + 1 \in 1 .. Len(d) /\ Len(e) + 1 \in DOMAIN line
    BY <1>1
  <2> QED
    BY <1>1, <1>3, <2>1
<1>6. ~(Len(e) > Len(d))
  <2> SUFFICES ASSUME Len(e) > Len(d) PROVE FALSE
    OBVIOUS
  <2>1. Len(rest) > 0 /\ Len(d) + 1 \in 1 .. Len(e)
    BY <1>1, <1>2
  <2>2. rest # <<>>
    BY <2>1
  <2> QED
    BY <1>1, <1>2, <1>4, <2>1, <2>2
<1>7. Len(e) = Len(d) /\ \A i \in 1 .. Len(e) : e[i] = d[i]
  BY <1>1, <1>2, <1>5, <1>6
<1> QED
  BY <1>7, SeqEqual

\* The number is read that was written.
LEMMA ValueOf ==
    ASSUME NEW n \in 0 .. MaxData, NEW rest \in Seq(Bytes),
           rest # <<>> => rest[1].kind # "digit"
    PROVE  Value(Digits[n] \o rest) = n
<1> DEFINE d == Digits[n]
           line == d \o rest
<1>1. n \in Nat /\ d \in Seq(DigitBytes)
  BY DigitsType, ChunkedAssumption
<1> HIDE DEF d
<1>2. d \in Seq(Bytes) /\ line \in Seq(Bytes)
  BY <1>1, BytesAre
<1>3. IsPrefix(d, line)
  BY <1>2 DEF IsPrefix
<1>4. Len(d) + 1 \in DOMAIN line => line[Len(d) + 1].kind # "digit"
  <2> SUFFICES ASSUME Len(d) + 1 \in DOMAIN line
               PROVE  line[Len(d) + 1].kind # "digit"
    OBVIOUS
  <2>1. Len(rest) > 0 /\ line[Len(d) + 1] = rest[1]
    BY <1>2
  <2>2. rest # <<>>
    BY <2>1
  <2> QED
    BY <2>1, <2>2
<1> HIDE DEF line
<1>5. Begins(line, n)
  BY <1>3, <1>4 DEF Begins, d
<1>6. ASSUME NEW m \in 0 .. MaxData, Begins(line, m)
      PROVE  m = n
  <2>1. m \in Nat /\ Digits[m] \in Seq(DigitBytes)
    BY DigitsType, ChunkedAssumption
  <2>2. /\ IsPrefix(Digits[m], line)
        /\ Len(Digits[m]) + 1 \in DOMAIN line =>
              line[Len(Digits[m]) + 1].kind # "digit"
    BY <1>6 DEF Begins
  <2>3. Digits[m] = d
    BY <1>1, <2>1, <2>2, DigitsEnd DEF line
  <2> QED
    BY <1>1, <2>1, <2>3, DigitsDiffer DEF d
<1>7. Value(line) = n
  BY <1>5, <1>6 DEF Value
<1> QED
  BY <1>7 DEF line, d

LEMMA ValueType == \A line : Value(line) \in Nat
  BY ChunkedAssumption DEF Value

-----------------------------------------------------------------------------
(* Types.                                                                   *)

LEMMA NumberType == \A n \in Nat : Digits[n] \in Seq(Bytes)
<1>1. ASSUME NEW n \in Nat
      PROVE  Digits[n] \in Seq(Bytes)
  <2>1. Digits[n] \in Seq(DigitBytes)
    BY DigitsType
  <2> QED
    BY <2>1, BytesAre
<1> QED
  BY <1>1

LEMMA ExtensionType ==
    ASSUME NEW x \in Extensions
    PROVE  /\ x \in Seq(Bytes)
           /\ \A i \in DOMAIN x : x[i] # CR /\ x[i] # Ieof
           /\ x # <<>> => x[1].kind # "digit"
<1>1. CASE x = <<>>
  BY <1>1
<1>2. CASE x = <<Semicolon, OtherExtension>>
  BY <1>2, BytesAre
<1> QED
  BY <1>1, <1>2 DEF Extensions

EndMark(l) == IF l THEN <<Semicolon, Ieof>> ELSE <<>>
EndOf(l) == Digits[0] \o EndMark(l) \o CRLF \o CRLF

LEMMA EndMarkType ==
    ASSUME NEW l \in BOOLEAN
    PROVE  /\ EndMark(l) \in Seq(Bytes)
           /\ \A i \in DOMAIN EndMark(l) : EndMark(l)[i] # CR
           /\ EndMark(l) # <<>> => EndMark(l)[1].kind # "digit"
           /\ l <=> \E i \in DOMAIN EndMark(l) : EndMark(l)[i] = Ieof
<1>1. CASE l
  <2>1. EndMark(l) = <<Semicolon, Ieof>>
    BY <1>1 DEF EndMark
  <2>2. /\ EndMark(l)[1] = Semicolon /\ EndMark(l)[2] = Ieof
        /\ DOMAIN EndMark(l) = 1 .. 2
    BY <2>1
  <2>3. EndMark(l) \in Seq(Bytes) /\ EndMark(l) # <<>>
    BY <2>1, BytesAre
  <2>4. \A i \in DOMAIN EndMark(l) : EndMark(l)[i] # CR
    BY <2>2, BytesAre
  <2>5. \E i \in DOMAIN EndMark(l) : EndMark(l)[i] = Ieof
    BY <2>2
  <2>6. EndMark(l)[1].kind # "digit"
    BY <2>2, BytesAre
  <2> QED
    BY <1>1, <2>3, <2>4, <2>5, <2>6, Zenon
<1>2. CASE ~l
  <2>1. EndMark(l) = <<>>
    BY <1>2 DEF EndMark
  <2> QED
    BY <1>2, <2>1
<1> QED
  BY <1>1, <1>2

\* What the client sends.
LEMMA ClientBytes ==
    ASSUME TypeOK
    PROVE  /\ ClientEnd \in Seq(Bytes)
           /\ \A n \in Unsent, x \in Extensions :
                 ClientChunk(n, x) \in Seq(Bytes)
<1>1. ASSUME NEW n \in Unsent, NEW x \in Extensions
      PROVE  ClientChunk(n, x) \in Seq(Bytes)
  <2>1. x \in Seq(Bytes) /\ CRLF \in Seq(Bytes)
    BY ExtensionType, BytesAre
  <2>2. n \in Nat /\ SubSeq(data, sent + 1, sent + n) \in Seq(Bytes)
    BY DEF Unsent, TypeOK
  <2>3. Digits[n] \in Seq(Bytes)
    BY <2>2, NumberType
  <2> QED
    BY <2>1, <2>2, <2>3, ConcatProperties DEF ClientChunk
<1>2. ClientEnd \in Seq(Bytes)
  <2>1. /\ EndMark(last) \in Seq(Bytes)
        /\ CRLF \in Seq(Bytes) /\ Digits[0] \in Seq(Bytes)
    BY EndMarkType, BytesAre, NumberType DEF TypeOK
  <2>2. ClientEnd = Digits[0] \o EndMark(last) \o CRLF \o CRLF
    BY DEF ClientEnd, EndMark
  <2> QED
    BY <2>1, <2>2, ConcatProperties
<1> QED
  BY <1>1, <1>2

\* What send_chunked writes.
LEMMA CodingType ==
    /\ \A bytes \in Seq(Bytes) : SizeAndData(bytes) \in Seq(Bytes)
    /\ CRLF \o ZeroChunk \in Seq(Bytes)
<1>1. CRLF \in Seq(Bytes) /\ Digits[0] \in Seq(Bytes)
  BY BytesAre, NumberType
<1>2. ASSUME NEW bytes \in Seq(Bytes)
      PROVE  SizeAndData(bytes) \in Seq(Bytes)
  <2>1. Digits[Len(bytes)] \in Seq(Bytes)
    BY NumberType
  <2> QED
    BY <1>1, <2>1, ConcatProperties DEF SizeAndData
<1>3. CRLF \o ZeroChunk \in Seq(Bytes)
  BY <1>1, ConcatProperties DEF ZeroChunk
<1> QED
  BY <1>2, <1>3

\* What is left of a sequence once its beginning has been read.
LEMMA RestType ==
    ASSUME NEW s \in Seq(Bytes), NEW m \in Int, m > 0
    PROVE  SubSeq(s, m, Len(s)) \in Seq(Bytes)
<1>1. \A i \in m .. Len(s) : s[i] \in Bytes
  OBVIOUS
<1>2. Len(s) \in Int
  OBVIOUS
<1> QED
  BY <1>1, <1>2, SubSeqProperties

\* What is sent in one round.
Piece == SubSeq(payload, offset + 1, Lower(offset + Buffer, Len(payload)))

LEMMA PieceType ==
    ASSUME TypeOK
    PROVE  /\ Piece \in Seq(Bytes)
           /\ Len(Piece) = Lower(offset + Buffer, Len(payload)) - offset
           /\ offset + Len(Piece) \in 0 .. Len(payload)
<1>1. /\ payload \in Seq(Bytes) /\ Len(payload) \in Nat
      /\ offset \in Nat /\ offset <= Len(payload)
  BY DEF TypeOK
<1>2. /\ Lower(offset + Buffer, Len(payload)) \in Nat
      /\ Lower(offset + Buffer, Len(payload)) >= offset
      /\ Lower(offset + Buffer, Len(payload)) <= Len(payload)
  BY <1>1, ChunkedAssumption DEF Lower
<1> DEFINE m == Lower(offset + Buffer, Len(payload))
<1> HIDE DEF m
<1>3. /\ SubSeq(payload, offset + 1, m) \in Seq(Bytes)
      /\ Len(SubSeq(payload, offset + 1, m)) = m - offset
  BY <1>1, <1>2 DEF m
<1> QED
  BY <1>1, <1>2, <1>3 DEF Piece, m

LEMMA TypeInit == Init => TypeOK
<1> SUFFICES ASSUME Init PROVE TypeOK
  OBVIOUS
<1>1. PICK n \in 0 .. MaxData : data = Data(n)
  BY DEF Init
<1>2. \A i \in 1 .. n : Byte("data", i) \in Bytes
  BY ChunkedAssumption DEF Byte, Bytes
<1>3. data \in Seq(Bytes)
  BY <1>1, <1>2, ChunkedAssumption DEF Data
<1>4. <<>> \in Seq(Bytes) /\ Len(<<>>) = 0
  OBVIOUS
<1>5. /\ sent = 0 /\ input = <<>> /\ size = 0 /\ chunk = <<>>
      /\ payload = <<>> /\ offset = 0 /\ output = <<>>
  BY DEF Init
<1>6. sent \in 0 .. Len(data)
  BY <1>3, <1>5
<1>7. /\ input \in Seq(Bytes) /\ output \in Seq(Bytes)
      /\ payload \in Seq(Bytes) /\ offset \in 0 .. Len(payload)
  BY <1>4, <1>5
<1>8. chunk \in Seq(Bytes) /\ Len(chunk) <= size /\ size \in Nat
  BY <1>4, <1>5
<1>9. /\ last \in BOOLEAN /\ broken \in BOOLEAN
      /\ mark \in BOOLEAN /\ ieof \in BOOLEAN
      /\ client = "sending" /\ at = "header" /\ chunks = 0
  BY DEF Init
<1> QED
  BY <1>3, <1>6, <1>7, <1>8, <1>9 DEF TypeOK

LEMMA TypeStep == TypeOK /\ [Next]_vars => TypeOK'
<1> SUFFICES ASSUME TypeOK, [Next]_vars PROVE TypeOK'
  OBVIOUS
<1> USE DEF clientVars, readVars, sendVars
<1>1. CASE ClientSendsChunk
  <2>1. PICK n \in Unsent, x \in Extensions :
           input' = input \o ClientChunk(n, x) /\ sent' = sent + n
    BY <1>1 DEF ClientSendsChunk
  <2>2. input' \in Seq(Bytes) /\ sent' \in 0 .. Len(data)
    BY <2>1, ClientBytes DEF TypeOK, Unsent
  <2> QED
    BY <1>1, <2>2 DEF ClientSendsChunk, TypeOK
<1>2. CASE ClientEnds
  <2>1. input' \in Seq(Bytes)
    BY <1>2, ClientBytes DEF ClientEnds, TypeOK
  <2> QED
    BY <1>2, <2>1 DEF ClientEnds, TypeOK
<1>3. CASE ClientGoes
  <2>1. ASSUME NEW bytes \in Seq(Bytes), SendsPartOf(bytes)
        PROVE  input' \in Seq(Bytes)
    BY <2>1 DEF SendsPartOf, TypeOK
  <2>2. input' \in Seq(Bytes)
    BY <1>3, <2>1, ClientBytes DEF ClientGoes
  <2> QED
    BY <1>3, <2>2 DEF ClientGoes, TypeOK
<1>4. CASE ReadHeader
  <2>1. ASSUME NEW line, Header(line)
        PROVE  /\ size' \in Nat /\ mark' \in BOOLEAN /\ chunk' = <<>>
               /\ at' \in {"data", "end"}
    BY <2>1, ValueType DEF Header
  <2>2. /\ size' \in Nat /\ mark' \in BOOLEAN /\ chunk' = <<>>
        /\ at' \in {"data", "end"}
    BY <1>4, <2>1 DEF ReadHeader
  <2>3. input' \in Seq(Bytes) /\ broken' \in BOOLEAN
    <3>1. ASSUME NEW i \in DOMAIN input
          PROVE  SubSeq(input, i + 2, Len(input)) \in Seq(Bytes)
      BY RestType DEF TypeOK
    <3>2. \/ input' = <<>> /\ broken' = TRUE
          \/ /\ \E i \in DOMAIN input :
                   input' = SubSeq(input, i + 2, Len(input))
             /\ UNCHANGED broken
      BY <1>4 DEF ReadHeader
    <3>3. <<>> \in Seq(Bytes)
      OBVIOUS
    <3> QED
      BY <3>1, <3>2, <3>3 DEF TypeOK
  <2> QED
    BY <1>4, <2>2, <2>3 DEF ReadHeader, TypeOK
<1>5. CASE ReadData
  <2>1. /\ Wanted \in Nat /\ Wanted <= size - Len(chunk)
        /\ Len(chunk) \in Nat /\ Len(input) \in Nat
    BY ChunkedAssumption DEF Wanted, Lower, TypeOK
  <2>2. CASE /\ ~broken /\ Len(input) >= Wanted
             /\ chunk' = chunk \o SubSeq(input, 1, Wanted)
             /\ input' = SubSeq(input, Wanted + 1, Len(input))
             /\ at' = (IF IsRead(chunk') THEN "end" ELSE "data")
             /\ UNCHANGED broken
    <3>1. /\ SubSeq(input, 1, Wanted) \in Seq(Bytes)
          /\ Len(SubSeq(input, 1, Wanted)) = Wanted
      BY <2>1, <2>2 DEF TypeOK
    <3>2. chunk' \in Seq(Bytes) /\ Len(chunk') <= size
      BY <2>1, <2>2, <3>1 DEF TypeOK
    <3>3. input' \in Seq(Bytes)
      BY <2>1, <2>2, RestType DEF TypeOK
    <3> QED
      BY <1>5, <2>2, <3>2, <3>3 DEF ReadData, TypeOK
  <2>3. CASE input' = <<>> /\ broken' = TRUE /\ at' = "end" /\ UNCHANGED chunk
    BY <1>5, <2>3 DEF ReadData, TypeOK
  <2> QED
    BY <1>5, <2>2, <2>3 DEF ReadData
<1>6. CASE ReadEnd
  <2>1. input' \in Seq(Bytes) /\ broken' \in BOOLEAN
    <3>1. SubSeq(input, 3, Len(input)) \in Seq(Bytes) /\ <<>> \in Seq(Bytes)
      BY RestType DEF TypeOK
    <3>2. \/ input' = SubSeq(input, 3, Len(input)) /\ UNCHANGED broken
          \/ input' = <<>> /\ broken' = TRUE
      BY <1>6 DEF ReadEnd
    <3> QED
      BY <3>1, <3>2 DEF TypeOK
  <2>2. payload' \in Seq(Bytes) /\ offset' \in 0 .. Len(payload')
    BY <1>6 DEF ReadEnd, Gathered, TypeOK
  <2> QED
    BY <1>6, <2>1, <2>2 DEF ReadEnd, TypeOK
<1>7. CASE StartSending
  BY <1>7, ChunkedAssumption DEF StartSending, TypeOK
<1>8. CASE SendChunk
  <2>1. /\ at = "send" /\ Write(SizeAndData(Piece))
        /\ offset' = offset + Len(Piece) /\ chunks' = chunks - 1
        /\ at' \in {"send", "finish"}
        /\ UNCHANGED <<clientVars, input, broken, readVars>>
    BY <1>8 DEF SendChunk, Piece
  <2>2. output' \in Seq(Bytes)
    BY <2>1, PieceType, CodingType DEF Write, TypeOK
  <2> QED
    BY <2>1, <2>2, PieceType DEF TypeOK
<1>9. CASE SendEnd
  <2>1. output' \in Seq(Bytes)
    BY <1>9, CodingType DEF SendEnd, Write, TypeOK
  <2> QED
    BY <1>9, <2>1 DEF SendEnd, TypeOK
<1>10. CASE UNCHANGED vars
  BY <1>10 DEF vars, TypeOK
<1> QED
  BY <1>1, <1>2, <1>3, <1>4, <1>5, <1>6, <1>7, <1>8, <1>9, <1>10
     DEF Next, Client, Read, Send

-----------------------------------------------------------------------------
(* The data among bytes: the recursion has one solution, and what is        *)
(* appended adds its own data.                                              *)

NextKept(f, s, n) ==
    IF n = 0 THEN <<>>
    ELSE IF s[n].kind = "data" THEN Append(f[n - 1], s[n])
    ELSE f[n - 1]

Keeps(f, s, k) ==
    /\ f \in [0 .. k -> Seq(Bytes)]
    /\ \A n \in 0 .. k : f[n] = NextKept(f, s, n)

LEMMA KeepsMore ==
    ASSUME NEW s \in Seq(Bytes), NEW k \in 0 .. (Len(s) - 1), NEW f,
           Keeps(f, s, k)
    PROVE  \E g : Keeps(g, s, k + 1)
<1> DEFINE top == NextKept(f, s, k + 1)
           g == [n \in 0 .. (k + 1) |-> IF n = k + 1 THEN top ELSE f[n]]
<1>1. k + 1 \in 1 .. Len(s) /\ f[k] \in Seq(Bytes)
  BY DEF Keeps
<1>2. top \in Seq(Bytes)
  <2>1. s[k + 1] \in Bytes
    BY <1>1
  <2>2. top = IF s[k + 1].kind = "data" THEN Append(f[k], s[k + 1]) ELSE f[k]
    BY <1>1 DEF NextKept
  <2> HIDE DEF top
  <2> QED
    BY <1>1, <2>1, <2>2
<1>3. g \in [0 .. (k + 1) -> Seq(Bytes)]
  <2> HIDE DEF top
  <2> QED
    BY <1>2 DEF Keeps
<1>4. ASSUME NEW n \in 0 .. (k + 1)
      PROVE  g[n] = NextKept(g, s, n)
  <2>1. g[n] = NextKept(f, s, n)
    BY DEF Keeps
  <2>2. n # 0 => g[n - 1] = f[n - 1]
    <3>1. n # 0 => n - 1 \in 0 .. k
      OBVIOUS
    <3> HIDE DEF top
    <3> QED
      BY <3>1
  <2> HIDE DEF g
  <2> QED
    BY <2>1, <2>2 DEF NextKept
<1> QED
  BY <1>3, <1>4 DEF Keeps

LEMMA KeepsExists ==
    ASSUME NEW s \in Seq(Bytes)
    PROVE  \E f : Keeps(f, s, Len(s))
<1> DEFINE S == {k \in 0 .. Len(s) : ~ \E f : Keeps(f, s, k)}
<1> SUFFICES ASSUME S # {} PROVE FALSE
  <2>1. Len(s) \in 0 .. Len(s)
    OBVIOUS
  <2> QED
    BY <2>1
<1>1. PICK k \in S : \A m \in S : k <= m
  <2>1. S \in SUBSET Nat
    OBVIOUS
  <2> HIDE DEF S
  <2> QED
    BY <2>1, Least
<1>2. CASE k = 0
  <2> DEFINE none == <<>>
             f == [n \in 0 .. 0 |-> none]
  <2>1. none \in Seq(Bytes)
    OBVIOUS
  <2>2. \A n \in 0 .. 0 : n = 0 /\ NextKept(f, s, n) = none
    BY DEF NextKept
  <2> HIDE DEF none
  <2>3. Keeps(f, s, 0)
    BY <2>1, <2>2 DEF Keeps
  <2> HIDE DEF f
  <2> QED
    BY <1>1, <1>2, <2>3
<1>3. CASE k # 0
  <2>1. k - 1 \in 0 .. (Len(s) - 1) /\ k - 1 \notin S /\ k - 1 \in 0 .. Len(s)
    BY <1>1, <1>3
  <2>2. PICK f : Keeps(f, s, k - 1)
    BY <2>1
  <2>3. \E g : Keeps(g, s, (k - 1) + 1)
    BY <2>1, <2>2, KeepsMore
  <2>4. (k - 1) + 1 = k
    BY <1>1
  <2> QED
    BY <1>1, <2>3, <2>4
<1> QED
  BY <1>2, <1>3

\* Whatever keeps the data of a sequence gives its data.
LEMMA DataIs ==
    ASSUME NEW s \in Seq(Bytes), NEW f, Keeps(f, s, Len(s))
    PROVE  DataOf(s) = f[Len(s)]
<1> DEFINE Upto == CHOOSE g : g = [n \in 0 .. Len(s) |-> NextKept(g, s, n)]
<1>1. DataOf(s) = Upto[Len(s)]
  BY DEF DataOf, NextKept
<1>2. f = [n \in 0 .. Len(s) |-> NextKept(f, s, n)]
  BY DEF Keeps
<1>3. Upto = [n \in 0 .. Len(s) |-> NextKept(Upto, s, n)]
  BY <1>2
<1> HIDE DEF Upto
<1>4. \A n \in 0 .. Len(s) : Upto[n] = f[n]
  <2> DEFINE S == {n \in 0 .. Len(s) : Upto[n] # f[n]}
  <2> SUFFICES ASSUME S # {} PROVE FALSE
    OBVIOUS
  <2>1. PICK n \in S : \A m \in S : n <= m
    <3>1. S \in SUBSET Nat
      OBVIOUS
    <3> HIDE DEF S
    <3> QED
      BY <3>1, Least
  <2>2. n \in 0 .. Len(s) /\ Upto[n] # f[n]
    BY <2>1
  <2>3. n # 0 => Upto[n - 1] = f[n - 1]
    <3> SUFFICES ASSUME n # 0 PROVE Upto[n - 1] = f[n - 1]
      OBVIOUS
    <3>1. n - 1 \in 0 .. Len(s) /\ n - 1 \notin S
      BY <2>1, <2>2
    <3> QED
      BY <3>1
  <2>4. Upto[n] = NextKept(Upto, s, n) /\ f[n] = NextKept(f, s, n)
    BY <1>2, <1>3, <2>2
  <2> HIDE DEF S
  <2> QED
    BY <2>2, <2>3, <2>4 DEF NextKept
<1> QED
  BY <1>1, <1>4

LEMMA AppendMoves ==
    ASSUME NEW s \in Seq(Bytes), NEW t \in Seq(Bytes), NEW b \in Bytes
    PROVE  s \o Append(t, b) = Append(s \o t, b)
<1> DEFINE one == <<b>>
<1>1. one \in Seq(Bytes) /\ s \o t \in Seq(Bytes)
  BY ConcatProperties
<1>2. Append(t, b) = t \o one /\ Append(s \o t, b) = (s \o t) \o one
  BY <1>1, AppendIsConcat
<1> HIDE DEF one
<1>3. (s \o t) \o one = s \o (t \o one)
  BY <1>1, ConcatAssociative
<1> QED
  BY <1>2, <1>3

\* Nothing but data adds itself, and what has none adds nothing.
LEMMA DataAdded ==
    ASSUME NEW s \in Seq(Bytes), NEW t \in Seq(Bytes),
           \A i \in DOMAIN t : t[i].kind = "data"
    PROVE  DataOf(s \o t) = DataOf(s) \o t
<1> DEFINE whole == s \o t
<1>1. PICK f : Keeps(f, s, Len(s))
  BY KeepsExists
<1>2. DataOf(s) = f[Len(s)] /\ f[Len(s)] \in Seq(Bytes)
  BY <1>1, DataIs DEF Keeps
<1> DEFINE kept == f[Len(s)]
           g == [n \in 0 .. Len(whole) |->
                    IF n <= Len(s) THEN f[n]
                    ELSE kept \o SubSeq(t, 1, n - Len(s))]
<1>3. /\ whole \in Seq(Bytes) /\ Len(whole) = Len(s) + Len(t)
      /\ \A i \in 1 .. Len(s) : whole[i] = s[i]
      /\ \A i \in 1 .. Len(t) : whole[Len(s) + i] = t[i]
      /\ Len(s) \in Nat /\ Len(t) \in Nat
  OBVIOUS
<1> HIDE DEF whole, kept
<1>4. kept \in Seq(Bytes) /\ kept = f[Len(s)]
  BY <1>2 DEF kept
<1>5. \A j \in 1 .. Len(t) : kept \o SubSeq(t, 1, j) \in Seq(Bytes)
  BY <1>4
<1>6. g \in [0 .. Len(whole) -> Seq(Bytes)]
  <2>1. \A n \in 0 .. Len(s) : f[n] \in Seq(Bytes)
    BY <1>1 DEF Keeps
  <2>2. \A n \in 0 .. Len(whole) : n <= Len(s) \/ n - Len(s) \in 1 .. Len(t)
    BY <1>3
  <2> QED
    BY <1>3, <1>5, <2>1, <2>2
<1>7. ASSUME NEW n \in 0 .. Len(whole)
      PROVE  g[n] = NextKept(g, whole, n)
  <2>1. CASE n <= Len(s)
    <3>1. n \in 0 .. Len(s) /\ g[n] = f[n]
      BY <1>3, <2>1
    <3>2. f[n] = NextKept(f, s, n)
      BY <1>1, <3>1 DEF Keeps
    <3>3. n # 0 => g[n - 1] = f[n - 1] /\ whole[n] = s[n]
      BY <1>3, <2>1
    <3> HIDE DEF g
    <3> QED
      BY <3>1, <3>2, <3>3 DEF NextKept
  <2>2. CASE n > Len(s)
    <3> DEFINE j == n - Len(s)
    <3>1. j \in 1 .. Len(t) /\ whole[n] = t[j] /\ t[j].kind = "data" /\ n # 0
      <4>1. j \in 1 .. Len(t) /\ n = Len(s) + j
        BY <1>3, <2>2
      <4> QED
        BY <1>3, <4>1
    <3>2. g[n] = kept \o SubSeq(t, 1, j)
      <4>1. ~(n <= Len(s))
        BY <1>3, <2>2
      <4> QED
        BY <4>1
    <3>3. g[n - 1] = kept \o SubSeq(t, 1, j - 1)
      <4>1. CASE j = 1
        <5>1. n - 1 = Len(s) /\ g[n - 1] = kept
          BY <1>3, <1>4, <4>1
        <5>2. SubSeq(t, 1, j - 1) = <<>>
          <6>1. j - 1 = 0
            BY <4>1
          <6>2. SubSeq(t, 1, 0) = <<>>
            OBVIOUS
          <6> HIDE DEF j
          <6> QED
            BY <6>1, <6>2
        <5>3. kept \o <<>> = kept
          BY <1>4, ConcatEmptySeq
        <5> HIDE DEF j, g
        <5> QED
          BY <5>1, <5>2, <5>3
      <4>2. CASE j > 1
        <5>1. /\ n - 1 \in 0 .. Len(whole) /\ ~(n - 1 <= Len(s))
              /\ (n - 1) - Len(s) = j - 1
          BY <1>3, <4>2
        <5> QED
          BY <5>1
      <4>3. j = 1 \/ j > 1
        BY <3>1
      <4> QED
        BY <4>1, <4>2, <4>3
    <3>4. SubSeq(t, 1, j) = Append(SubSeq(t, 1, j - 1), t[j])
      BY <3>1
    <3>5. kept \o Append(SubSeq(t, 1, j - 1), t[j])
            = Append(kept \o SubSeq(t, 1, j - 1), t[j])
      <4> DEFINE u == SubSeq(t, 1, j - 1)
      <4>1. u \in Seq(Bytes) /\ t[j] \in Bytes
        BY <3>1
      <4> HIDE DEF u, j
      <4>2. kept \o Append(u, t[j]) = Append(kept \o u, t[j])
        BY <1>4, <4>1, AppendMoves
      <4> QED
        BY <4>2 DEF u
    <3> HIDE DEF g, j
    <3> QED
      BY <3>1, <3>2, <3>3, <3>4, <3>5 DEF NextKept
  <2> QED
    BY <1>3, <2>1, <2>2
<1>8. Keeps(g, whole, Len(whole))
  <2> HIDE DEF g
  <2> QED
    BY <1>6, <1>7 DEF Keeps
<1>9. g[Len(whole)] = kept \o t
  <2>1. CASE Len(t) = 0
    <3>1. t = <<>> /\ Len(whole) = Len(s)
      BY <1>3, <2>1
    <3>2. g[Len(whole)] = kept
      BY <1>3, <1>4, <3>1
    <3> QED
      BY <1>4, <3>1, <3>2
  <2>2. CASE Len(t) # 0
    <3>1. SubSeq(t, 1, Len(t)) = t /\ Len(whole) - Len(s) = Len(t)
      BY <1>3
    <3> QED
      BY <1>3, <2>2, <3>1
  <2> QED
    BY <2>1, <2>2
<1> HIDE DEF g
<1>10. DataOf(whole) = kept \o t
  BY <1>3, <1>8, <1>9, DataIs
<1> QED
  BY <1>2, <1>4, <1>10 DEF whole

LEMMA NothingAdded ==
    ASSUME NEW s \in Seq(Bytes), NEW t \in Seq(Bytes),
           \A i \in DOMAIN t : t[i].kind # "data"
    PROVE  DataOf(s \o t) = DataOf(s)
<1> DEFINE whole == s \o t
<1>1. PICK f : Keeps(f, s, Len(s))
  BY KeepsExists
<1> DEFINE kept == f[Len(s)]
           g == [n \in 0 .. Len(whole) |-> IF n <= Len(s) THEN f[n] ELSE kept]
<1>2. /\ whole \in Seq(Bytes) /\ Len(whole) = Len(s) + Len(t)
      /\ \A i \in 1 .. Len(s) : whole[i] = s[i]
      /\ \A i \in 1 .. Len(t) : whole[Len(s) + i] = t[i]
      /\ Len(s) \in Nat /\ Len(t) \in Nat
  OBVIOUS
<1> HIDE DEF whole
<1>3. g \in [0 .. Len(whole) -> Seq(Bytes)]
  <2>1. \A n \in 0 .. Len(s) : f[n] \in Seq(Bytes)
    BY <1>1 DEF Keeps
  <2>2. kept \in Seq(Bytes)
    BY <1>2, <2>1
  <2> HIDE DEF kept
  <2> QED
    BY <1>2, <2>1, <2>2
<1>4. ASSUME NEW n \in 0 .. Len(whole)
      PROVE  g[n] = NextKept(g, whole, n)
  <2>1. CASE n <= Len(s)
    <3>1. n \in 0 .. Len(s) /\ g[n] = f[n]
      BY <1>2, <2>1
    <3>2. f[n] = NextKept(f, s, n)
      BY <1>1, <3>1 DEF Keeps
    <3>3. n # 0 => g[n - 1] = f[n - 1] /\ whole[n] = s[n]
      BY <1>2, <2>1
    <3> HIDE DEF g
    <3> QED
      BY <3>1, <3>2, <3>3 DEF NextKept
  <2>2. CASE n > Len(s)
    <3>1. n - Len(s) \in 1 .. Len(t) /\ n = Len(s) + (n - Len(s))
      BY <1>2, <2>2
    <3>2. whole[n].kind # "data" /\ n # 0
      <4> DEFINE j == n - Len(s)
      <4>1. j \in 1 .. Len(t) /\ n = Len(s) + j
        BY <3>1
      <4> HIDE DEF j
      <4> QED
        BY <1>2, <4>1
    <3>3. g[n] = kept /\ g[n - 1] = kept
      <4>1. ~(n <= Len(s)) /\ n - 1 \in 0 .. Len(whole)
            /\ (n - 1 <= Len(s) => n - 1 = Len(s))
        BY <1>2, <2>2
      <4>2. g[n - 1] = kept
        <5>1. CASE n - 1 <= Len(s)
          BY <4>1, <5>1
        <5>2. CASE ~(n - 1 <= Len(s))
          <6> HIDE DEF kept
          <6> QED
            BY <4>1, <5>2
        <5> QED
          BY <5>1, <5>2
      <4> HIDE DEF kept
      <4> QED
        BY <4>1, <4>2
    <3> HIDE DEF g
    <3> QED
      BY <3>2, <3>3 DEF NextKept
  <2> QED
    BY <1>2, <2>1, <2>2
<1>5. g[Len(whole)] = kept
  BY <1>2
<1>6. DataOf(whole) = kept
  <2> HIDE DEF g, kept
  <2>1. Keeps(g, whole, Len(whole))
    BY <1>3, <1>4 DEF Keeps
  <2> QED
    BY <1>2, <1>5, <2>1, DataIs
<1> QED
  BY <1>1, <1>6, DataIs DEF whole

LEMMA NoData == DataOf(<<>>) = <<>>
<1>1. <<>> \in Seq(Bytes) /\ Len(<<>>) = 0
  OBVIOUS
<1>2. PICK f : Keeps(f, <<>>, Len(<<>>))
  BY <1>1, KeepsExists
<1>3. f[0] = <<>>
  BY <1>1, <1>2 DEF Keeps, NextKept
<1> QED
  BY <1>1, <1>2, <1>3, DataIs

-----------------------------------------------------------------------------
(* Sending.                                                                 *)

Fits == Len(payload) \in 1 .. Buffer

AllData == \A i \in DOMAIN payload : payload[i].kind = "data"

\* Before the last chunk that is counted, less than a buffer is beyond what
\* the chunks will hold. A body that fits has no chunk counted, and is sent in
\* the one round that the loop makes anyway.
Counted ==
    /\ at = "send" =>
          \/ Fits /\ offset = 0 /\ chunks = 0
          \/ /\ Len(payload) > Buffer /\ chunks > 0
             /\ offset + chunks * Buffer <= Len(payload)
             /\ Len(payload) < offset + chunks * Buffer + Buffer
    /\ at \in {"finish", "done"} => Len(payload) - offset < Buffer

\* What has been sent is the payload up to the offset, and a body that fits is
\* sent in the coding that a client expects.
Sent ==
    /\ at \in {"header", "data", "end", "modify"} => output = <<>>
    /\ ~broken /\ at \in {"send", "finish", "done"} =>
          DataOf(output) = SubSeq(payload, 1, offset)
    /\ ~broken /\ Fits =>
          /\ at = "send" => output = <<>>
          /\ at = "finish" => output = SizeAndData(payload)
          /\ at = "done" =>
                output = SizeAndData(payload) \o (CRLF \o ZeroChunk)

SendInv == Counted /\ Sent

LEMMA CountedStep ==
    ASSUME TypeOK, Counted, [Next]_vars
    PROVE  Counted'
<1> USE DEF clientVars, readVars, sendVars
<1>1. /\ Len(payload) \in Nat /\ offset \in Nat /\ chunks \in Int
      /\ Buffer \in Nat /\ Buffer > 0
  BY ChunkedAssumption DEF TypeOK
<1>2. CASE StartSending
  <2>1. /\ payload' = payload /\ offset' = 0
        /\ payload = <<>> => at' = "done"
        /\ payload # <<>> => at' = "send"
        /\ chunks' = IF Len(payload) > Buffer THEN Len(payload) \div Buffer ELSE 0
    BY <1>2 DEF StartSending
  <2>2. CASE payload = <<>>
    BY <1>1, <2>1, <2>2 DEF Counted
  <2>3. CASE payload # <<>> /\ Len(payload) <= Buffer
    <3>1. Len(payload) > 0 /\ chunks' = 0
      BY <1>1, <2>1, <2>3 DEF TypeOK
    <3> QED
      BY <1>1, <2>1, <2>3, <3>1 DEF Counted, Fits
  <2>4. CASE payload # <<>> /\ Len(payload) > Buffer
    <3> DEFINE n == Len(payload)
               q == n \div Buffer
    <3>1. n \in Nat /\ n > Buffer /\ chunks' = q
      BY <1>1, <2>1, <2>4
    <3> HIDE DEF n
    <3>2. q \in Nat /\ q > 0 /\ q * Buffer <= n /\ n < q * Buffer + Buffer
      BY <1>1, <3>1
    <3> HIDE DEF q
    <3> QED
      BY <1>1, <2>1, <2>4, <3>1, <3>2 DEF Counted, n
  <2> QED
    BY <1>1, <2>2, <2>3, <2>4
<1>3. CASE SendChunk
  <2>1. /\ at = "send" /\ offset' = offset + Len(Piece) /\ chunks' = chunks - 1
        /\ at' = (IF chunks' > 0 THEN "send" ELSE "finish")
        /\ payload' = payload
    BY <1>3 DEF SendChunk, Piece
  <2>2. Len(Piece) = Lower(offset + Buffer, Len(payload)) - offset
    BY PieceType
  <2>3. CASE Fits /\ offset = 0 /\ chunks = 0
    <3>1. Len(Piece) = Len(payload)
      BY <1>1, <2>2, <2>3 DEF Lower, Fits
    <3> QED
      BY <1>1, <2>1, <2>3, <3>1 DEF Counted
  <2>4. CASE /\ Len(payload) > Buffer /\ chunks > 0
             /\ offset + chunks * Buffer <= Len(payload)
             /\ Len(payload) < offset + chunks * Buffer + Buffer
    <3> DEFINE rest == (chunks - 1) * Buffer
    <3>1. rest \in Nat /\ chunks * Buffer = rest + Buffer
      BY <1>1, <2>4
    <3>2. chunks' = 0 => rest = 0
      BY <1>1, <2>1
    <3>3. chunks' * Buffer = rest
      BY <2>1
    <3> HIDE DEF rest
    <3>4. Len(Piece) = Buffer
      BY <1>1, <2>2, <2>4, <3>1 DEF Lower
    <3>5. /\ offset' + rest <= Len(payload)
          /\ Len(payload) < offset' + rest + Buffer
      BY <1>1, <2>1, <2>4, <3>1, <3>4
    <3>6. CASE chunks' > 0
      BY <1>1, <2>1, <2>4, <3>3, <3>5, <3>6 DEF Counted
    <3>7. CASE ~(chunks' > 0)
      <4>1. chunks' = 0
        BY <1>1, <2>1, <2>4, <3>7
      <4> QED
        BY <1>1, <2>1, <3>1, <3>2, <3>5, <3>7, <4>1 DEF Counted
    <3> QED
      BY <3>6, <3>7
  <2> QED
    BY <2>1, <2>3, <2>4 DEF Counted
<1>4. CASE SendEnd
  BY <1>4 DEF SendEnd, Counted
<1>5. CASE Client
  BY <1>5 DEF Client, ClientSendsChunk, ClientEnds, ClientGoes, Counted, Fits
<1>6. CASE Read
  <2>1. at' \in {"header", "data", "end", "modify"}
    BY <1>6 DEF Read, ReadHeader, Header, ReadData, ReadEnd
  <2> QED
    BY <2>1 DEF Counted
<1>7. CASE UNCHANGED vars
  BY <1>7 DEF vars, Counted, Fits
<1> QED
  BY <1>2, <1>3, <1>4, <1>5, <1>6, <1>7 DEF Next, Send

LEMMA SentStep ==
    ASSUME TypeOK, AllData, Counted, Sent, [Next]_vars
    PROVE  Sent'
<1> USE DEF clientVars, readVars, sendVars
<1>1. /\ payload \in Seq(Bytes) /\ output \in Seq(Bytes)
      /\ Len(payload) \in Nat /\ offset \in 0 .. Len(payload)
  BY DEF TypeOK
<1>2. CASE StartSending
  <2>1. /\ payload' = payload /\ output' = output /\ offset' = 0
        /\ broken' = broken /\ at' \in {"send", "done"}
        /\ at' = "done" => payload = <<>>
        /\ output = <<>>
    BY <1>2 DEF StartSending, Sent
  <2>2. DataOf(output) = SubSeq(payload, 1, 0)
    <3>1. SubSeq(payload, 1, 0) = <<>>
      BY <1>1
    <3> QED
      BY <2>1, <3>1, NoData
  <2>3. payload = <<>> => ~Fits
    BY DEF Fits
  <2> QED
    BY <2>1, <2>2, <2>3 DEF Sent, Fits
<1>3. CASE SendChunk
  <2>1. /\ at = "send" /\ offset' = offset + Len(Piece)
        /\ at' = (IF chunks' > 0 THEN "send" ELSE "finish")
        /\ chunks' = chunks - 1
        /\ Write(SizeAndData(Piece))
        /\ payload' = payload /\ broken' = broken
    BY <1>3 DEF SendChunk, Piece
  <2>2. CASE broken
    BY <2>1, <2>2 DEF Sent
  <2>3. CASE ~broken
    <3>1. output' = output \o SizeAndData(Piece)
      BY <2>1, <2>3 DEF Write
    <3>2. /\ Piece \in Seq(Bytes) /\ offset + Len(Piece) \in 0 .. Len(payload)
          /\ Len(Piece) \in Nat
      BY PieceType
    <3>3. Piece = SubSeq(payload, offset + 1, offset + Len(Piece))
      <4>1. Lower(offset + Buffer, Len(payload)) = offset + Len(Piece)
        BY <1>1, PieceType, ChunkedAssumption DEF Lower
      <4> QED
        BY <4>1 DEF Piece
    <3>4. \A i \in DOMAIN Piece : Piece[i].kind = "data"
      <4>1. ASSUME NEW i \in 1 .. Len(Piece)
            PROVE  Piece[i] = payload[offset + i] /\ offset + i \in DOMAIN payload
        <5> DEFINE k == offset + Len(Piece)
        <5>1. k \in Nat /\ k <= Len(payload) /\ i \in 1 .. (k - offset)
          BY <1>1, <3>2
        <5>2. Piece = SubSeq(payload, offset + 1, k)
          BY <3>3
        <5> HIDE DEF k
        <5>3. SubSeq(payload, offset + 1, k)[i] = payload[offset + i]
          BY <1>1, <5>1
        <5> QED
          BY <1>1, <5>1, <5>2, <5>3
      <4>2. DOMAIN Piece = 1 .. Len(Piece)
        BY <3>2
      <4> QED
        BY <4>1, <4>2 DEF AllData
    <3> DEFINE size1 == Digits[Len(Piece)] \o CRLF
    <3>5. /\ size1 \in Seq(Bytes)
          /\ \A i \in DOMAIN size1 : size1[i].kind # "data"
          /\ SizeAndData(Piece) = size1 \o Piece
      <4> DEFINE d == Digits[Len(Piece)]
      <4>1. d \in Seq(DigitBytes) /\ d \in Seq(Bytes)
        BY <3>2, DigitsType, NumberType
      <4>2. \A b \in DigitBytes : b.kind # "data"
        BY DEF DigitBytes
      <4>3. CRLF \in Seq(Bytes) /\ \A i \in DOMAIN CRLF : CRLF[i].kind # "data"
        BY BytesAre DEF CRLF, CR, LF, Byte
      <4> HIDE DEF d
      <4>4. /\ d \o CRLF \in Seq(Bytes)
            /\ \A i \in DOMAIN (d \o CRLF) : (d \o CRLF)[i].kind # "data"
        BY <4>1, <4>2, <4>3
      <4> QED
        BY <4>4 DEF SizeAndData, d
    <3> HIDE DEF size1
    <3>6. DataOf(output') = DataOf(output) \o Piece
      <4>1. output \o (size1 \o Piece) = (output \o size1) \o Piece
        BY <1>1, <3>2, <3>5, Associative
      <4>2. output \o size1 \in Seq(Bytes)
        BY <1>1, <3>5
      <4>3. DataOf((output \o size1) \o Piece) = DataOf(output \o size1) \o Piece
        BY <3>2, <3>4, <4>2, DataAdded
      <4>4. DataOf(output \o size1) = DataOf(output)
        BY <1>1, <3>5, NothingAdded
      <4> QED
        BY <3>1, <3>5, <4>1, <4>3, <4>4
    <3>7. DataOf(output) = SubSeq(payload, 1, offset)
      BY <2>1, <2>3 DEF Sent
    <3>8. SubSeq(payload, 1, offset) \o Piece
            = SubSeq(payload, 1, offset + Len(Piece))
      <4> DEFINE k == offset + Len(Piece)
      <4>1. k \in offset .. Len(payload) /\ Piece = SubSeq(payload, offset + 1, k)
        BY <1>1, <3>2, <3>3
      <4> HIDE DEF k
      <4>2. SubSeq(payload, 1, offset) \o SubSeq(payload, offset + 1, k)
              = SubSeq(payload, 1, k)
        BY <1>1, <4>1, ConcatAdjacentSubSeq
      <4> QED
        BY <4>1, <4>2 DEF k
    <3>9. Fits => at' = "finish" /\ output' = SizeAndData(payload)
      <4> SUFFICES ASSUME Fits
                   PROVE  at' = "finish" /\ output' = SizeAndData(payload)
        OBVIOUS
      <4>1. offset = 0 /\ chunks = 0
        BY <2>1, ChunkedAssumption DEF Counted, Fits
      <4>2. Piece = payload
        BY <1>1, <4>1, ChunkedAssumption DEF Piece, Lower, Fits
      <4>3. output = <<>>
        BY <2>1, <2>3 DEF Sent
      <4>4. <<>> \o SizeAndData(payload) = SizeAndData(payload)
        BY <1>1, CodingType, ConcatEmptySeq
      <4> QED
        BY <2>1, <3>1, <4>1, <4>2, <4>3, <4>4
    <3>10. at' \in {"send", "finish"}
      BY <2>1
    <3>11. Fits' <=> Fits
      BY <2>1 DEF Fits
    <3> QED
      BY <2>1, <3>6, <3>7, <3>8, <3>9, <3>10, <3>11 DEF Sent
  <2> QED
    BY <2>2, <2>3
<1>4. CASE SendEnd
  <2> DEFINE end == CRLF \o ZeroChunk
  <2>1. /\ at = "finish" /\ at' = "done" /\ Write(end)
        /\ payload' = payload /\ broken' = broken /\ offset' = offset
    BY <1>4 DEF SendEnd
  <2>2. \A i \in DOMAIN end : end[i].kind # "data"
    <3> DEFINE d == Digits[0]
    <3>1. d \in Seq(DigitBytes) /\ d \in Seq(Bytes)
      BY DigitsType, NumberType
    <3>2. \A b \in DigitBytes : b.kind # "data"
      BY DEF DigitBytes
    <3>3. CRLF \in Seq(Bytes) /\ \A i \in DOMAIN CRLF : CRLF[i].kind # "data"
      BY BytesAre DEF CRLF, CR, LF, Byte
    <3> HIDE DEF d
    <3>4. /\ d \o CRLF \in Seq(Bytes)
          /\ \A i \in DOMAIN (d \o CRLF) : (d \o CRLF)[i].kind # "data"
      BY <3>1, <3>2, <3>3
    <3> DEFINE z == d \o CRLF \o CRLF
    <3>5. z \in Seq(Bytes) /\ \A i \in DOMAIN z : z[i].kind # "data"
      BY <3>3, <3>4
    <3>6. ZeroChunk = z
      BY DEF ZeroChunk, d
    <3> HIDE DEF z
    <3>7. \A i \in DOMAIN (CRLF \o z) : (CRLF \o z)[i].kind # "data"
      BY <3>3, <3>5
    <3> QED
      BY <3>6, <3>7
  <2>3. end \in Seq(Bytes)
    BY CodingType
  <2> HIDE DEF end
  <2>4. ~broken => DataOf(output') = DataOf(output)
    BY <1>1, <2>1, <2>2, <2>3, NothingAdded DEF Write
  <2>5. ~broken /\ Fits => output' = SizeAndData(payload) \o end
    BY <2>1 DEF Write, Sent
  <2> QED
    BY <2>1, <2>4, <2>5 DEF Sent, Fits, end
<1>5. CASE Client
  BY <1>5 DEF Client, ClientSendsChunk, ClientEnds, ClientGoes, Sent, Fits
<1>6. CASE Read
  <2>1. /\ at' \in {"header", "data", "end", "modify"} /\ output' = output
        /\ at \in {"header", "data", "end"}
    BY <1>6 DEF Read, ReadHeader, Header, ReadData, ReadEnd
  <2> QED
    BY <2>1 DEF Sent
<1>7. CASE UNCHANGED vars
  BY <1>7 DEF vars, Sent, Fits
<1> QED
  BY <1>2, <1>3, <1>4, <1>5, <1>6, <1>7 DEF Next, Send

LEMMA SendIsPrefix ==
    ASSUME TypeOK, SendInv
    PROVE  SmallIsSentWhole /\ SentInOrder
<1>1. SmallIsSentWhole
  BY DEF SendInv, Sent, Fits, SmallIsSentWhole
<1>2. ASSUME at = "done", ~broken
      PROVE  /\ IsPrefix(DataOf(output), payload)
             /\ Len(payload) - Len(DataOf(output)) < Buffer
  <2>1. payload \in Seq(Bytes) /\ offset \in 0 .. Len(payload)
    BY DEF TypeOK
  <2>2. DataOf(output) = SubSeq(payload, 1, offset)
    BY <1>2 DEF SendInv, Sent
  <2>3. Len(payload) - offset < Buffer
    BY <1>2 DEF SendInv, Counted
  <2> DEFINE d == DataOf(output)
  <2>4. d \in Seq(Bytes) /\ Len(d) = offset /\ d = SubSeq(payload, 1, Len(d))
    BY <2>1, <2>2
  <2> HIDE DEF d
  <2>5. SubSeq(d, 1, Len(d)) = d
    BY <2>4
  <2> QED
    BY <2>1, <2>3, <2>4, <2>5 DEF IsPrefix, d
<1> QED
  BY <1>1, <1>2 DEF SentInOrder

-----------------------------------------------------------------------------
(* Chunks on the connection.                                                *)

Between(d, from, to) == SubSeq(d, from + 1, to)

\* The chunk with the n bytes of data that come after the first ones.
ChunkAt(d, from, n, x) ==
    Digits[n] \o x \o CRLF \o SubSeq(d, from + 1, from + n) \o CRLF

Triples == Seq(Bytes) \X Nat \X Nat

Extended(d, P) ==
    /\ \A from \in 0 .. Len(d) : <<<<>>, from, from>> \in P
    /\ \A s \in Seq(Bytes), from, to \in Nat, x \in Extensions :
          \A n \in 1 .. (Len(d) - to) :
             <<s, from, to>> \in P =>
                <<s \o ChunkAt(d, to, n, x), from, to + n>> \in P

\* The bytes are chunks, one after the other, which hold the data between two
\* places: the least relation to which a chunk can always be added.
Chunks(d, s, from, to) ==
    \A P \in SUBSET Triples : Extended(d, P) => <<s, from, to>> \in P

LEMMA ChunkType ==
    ASSUME NEW d \in Seq(Bytes), NEW from \in Nat,
           NEW n \in 1 .. (Len(d) - from), NEW x \in Extensions
    PROVE  /\ Between(d, from, from + n) \in Seq(Bytes)
           /\ Len(Between(d, from, from + n)) = n
           /\ Digits[n] \o x \in Seq(Bytes)
           /\ \A i \in DOMAIN (Digits[n] \o x) :
                 (Digits[n] \o x)[i] \notin {CR, Ieof}
           /\ ChunkAt(d, from, n, x) \in Seq(Bytes)
<1> DEFINE h == Digits[n]
           b == Between(d, from, from + n)
<1>1. n \in Nat /\ from + n <= Len(d) /\ Len(d) \in Nat
  OBVIOUS
<1>2. b \in Seq(Bytes) /\ Len(b) = n
  <2> DEFINE k == from + n
  <2>1. k \in Nat /\ k <= Len(d) /\ k - from = n /\ from <= k
    BY <1>1
  <2> HIDE DEF k
  <2>2. SubSeq(d, from + 1, k) \in Seq(Bytes) /\ Len(SubSeq(d, from + 1, k)) = n
    BY <1>1, <2>1
  <2> QED
    BY <2>2 DEF Between, k
<1>3. h \in Seq(DigitBytes) /\ h \in Seq(Bytes)
  BY <1>1, DigitsType, NumberType
<1>4. x \in Seq(Bytes) /\ \A i \in DOMAIN x : x[i] \notin {CR, Ieof}
  BY ExtensionType
<1>5. CRLF \in Seq(Bytes) /\ \A c \in DigitBytes : c \notin {CR, Ieof}
  BY BytesAre
<1> HIDE DEF h, b
<1>6. h \o x \in Seq(Bytes)
  BY <1>3, <1>4
<1>7. \A i \in DOMAIN (h \o x) : (h \o x)[i] \notin {CR, Ieof}
  BY <1>3, <1>4, <1>5
<1>8. h \o x \o CRLF \in Seq(Bytes)
  BY <1>5, <1>6
<1>9. ChunkAt(d, from, n, x) = h \o x \o CRLF \o b \o CRLF
  BY DEF ChunkAt, Between, h, b
<1>10. ChunkAt(d, from, n, x) \in Seq(Bytes)
  BY <1>2, <1>5, <1>8, <1>9, ConcatProperties
<1> QED
  BY <1>2, <1>6, <1>7, <1>10 DEF h, b

\* A chunk is a line and what follows it.
LEMMA ChunkParts ==
    \A d \in Seq(Bytes), from \in Nat, x \in Extensions :
       \A n \in 1 .. (Len(d) - from) :
          ChunkAt(d, from, n, x) =
             (Digits[n] \o x \o CRLF) \o (Between(d, from, from + n) \o CRLF)
<1> SUFFICES ASSUME NEW d \in Seq(Bytes), NEW from \in Nat,
                    NEW x \in Extensions, NEW n \in 1 .. (Len(d) - from)
             PROVE  ChunkAt(d, from, n, x) =
                       (Digits[n] \o x \o CRLF)
                          \o (Between(d, from, from + n) \o CRLF)
  OBVIOUS
<1> DEFINE h == Digits[n] \o x
           k == h \o CRLF
           b == Between(d, from, from + n)
<1>1. h \in Seq(Bytes) /\ b \in Seq(Bytes) /\ CRLF \in Seq(Bytes)
  BY ChunkType, BytesAre
<1>2. ChunkAt(d, from, n, x) = (k \o b) \o CRLF
  BY DEF ChunkAt, Between
<1> HIDE DEF h, b
<1>3. k \in Seq(Bytes)
  BY <1>1
<1> HIDE DEF k
<1>4. ChunkAt(d, from, n, x) = k \o (b \o CRLF)
  BY <1>1, <1>2, <1>3, Associative
<1> QED
  BY <1>4 DEF h, b, k

LEMMA NoChunks ==
    ASSUME NEW d \in Seq(Bytes), NEW from \in 0 .. Len(d)
    PROVE  Chunks(d, <<>>, from, from)
  BY DEF Chunks, Extended

LEMMA OneMoreChunk ==
    ASSUME NEW d \in Seq(Bytes),
           NEW s \in Seq(Bytes), NEW from \in Nat, NEW to \in Nat,
           Chunks(d, s, from, to),
           NEW n \in 1 .. (Len(d) - to), NEW x \in Extensions
    PROVE  Chunks(d, s \o ChunkAt(d, to, n, x), from, to + n)
  BY DEF Chunks, Extended

\* Chunks begin with a chunk, and more chunks follow.
Begun(d, s, from, to) ==
    /\ Chunks(d, s, from, to) /\ from <= to /\ to <= Len(d)
    /\ \/ s = <<>> /\ from = to
       \/ \E x \in Extensions, r \in Seq(Bytes) :
             \E n \in 1 .. (Len(d) - from) :
                s = ChunkAt(d, from, n, x) \o r /\ Chunks(d, r, from + n, to)

LEMMA FirstChunk ==
    ASSUME NEW d \in Seq(Bytes), NEW s, NEW from, NEW to, Chunks(d, s, from, to)
    PROVE  s \in Seq(Bytes) /\ from \in Nat /\ to \in Nat /\ Begun(d, s, from, to)
<1> DEFINE P == {p \in Triples : Begun(d, p[1], p[2], p[3])}
<1>1. \A f \in 0 .. Len(d) : <<<<>>, f, f>> \in P
  <2> TAKE f \in 0 .. Len(d)
  <2>1. Begun(d, <<>>, f, f)
    BY NoChunks DEF Begun
  <2>2. <<>> \in Seq(Bytes) /\ f \in Nat
    OBVIOUS
  <2>3. <<<<>>, f, f>> \in Triples
    BY <2>2 DEF Triples
  <2> QED
    BY <2>1, <2>3
<1>2. ASSUME NEW u \in Seq(Bytes), NEW f \in Nat, NEW t \in Nat,
             NEW x \in Extensions, NEW n \in 1 .. (Len(d) - t),
             <<u, f, t>> \in P
      PROVE  <<u \o ChunkAt(d, t, n, x), f, t + n>> \in P
  <2> DEFINE c == ChunkAt(d, t, n, x)
  <2>1. c \in Seq(Bytes)
    BY ChunkType
  <2>2. Begun(d, u, f, t)
    BY <1>2
  <2>3. Chunks(d, u \o c, f, t + n) /\ f <= t + n /\ t + n <= Len(d)
    BY <2>2, OneMoreChunk DEF Begun
  <2>4. u \o c \in Seq(Bytes) /\ t + n \in Nat
    BY <2>1
  <2>5. CASE u = <<>> /\ f = t
    <3>1. Chunks(d, <<>>, f + n, t + n) /\ <<>> \in Seq(Bytes)
      BY <2>3, <2>5, NoChunks
    <3>2. u \o c = c /\ c = c \o <<>>
      BY <2>1, <2>5, ConcatEmptySeq
    <3>3. n \in 1 .. (Len(d) - f) /\ c = ChunkAt(d, f, n, x)
      BY <2>5
    <3>4. Begun(d, u \o c, f, t + n)
      BY <2>3, <3>1, <3>2, <3>3 DEF Begun
    <3> QED
      BY <2>4, <3>4 DEF Triples
  <2>6. CASE \E y \in Extensions, r \in Seq(Bytes) :
                \E m \in 1 .. (Len(d) - f) :
                   u = ChunkAt(d, f, m, y) \o r /\ Chunks(d, r, f + m, t)
    <3>1. PICK y \in Extensions, r \in Seq(Bytes) :
             \E m \in 1 .. (Len(d) - f) :
                u = ChunkAt(d, f, m, y) \o r /\ Chunks(d, r, f + m, t)
      BY <2>6
    <3>2. PICK m \in 1 .. (Len(d) - f) :
             u = ChunkAt(d, f, m, y) \o r /\ Chunks(d, r, f + m, t)
      BY <3>1
    <3>3. f + m \in Nat
      OBVIOUS
    <3>4. Chunks(d, r \o c, f + m, t + n) /\ r \o c \in Seq(Bytes)
      BY <2>1, <3>2, <3>3, OneMoreChunk
    <3>5. ChunkAt(d, f, m, y) \in Seq(Bytes)
      BY ChunkType
    <3>6. u \o c = ChunkAt(d, f, m, y) \o (r \o c)
      BY <2>1, <3>2, <3>5, Associative
    <3>7. Begun(d, u \o c, f, t + n)
      BY <2>3, <3>4, <3>6 DEF Begun
    <3> QED
      BY <2>4, <3>7 DEF Triples
  <2> QED
    BY <2>2, <2>5, <2>6 DEF Begun
<1>3. P \in SUBSET Triples
  OBVIOUS
<1> HIDE DEF P
<1>4. Extended(d, P)
  BY <1>1, <1>2 DEF Extended
<1>5. <<s, from, to>> \in P
  BY <1>3, <1>4 DEF Chunks
<1> USE DEF P
<1> QED
  BY <1>5 DEF Triples

-----------------------------------------------------------------------------
(* What is on its way to the worker.                                        *)

\* A beginning of a sequence, and not all of it.
Cut(s, whole) == Len(s) < Len(whole) /\ \A i \in 1 .. Len(s) : s[i] = whole[i]

\* What the client has of the body and how far it is.
Sender == [data |-> data, last |-> last, sent |-> sent, client |-> client]

Senders ==
    [data : Seq(Bytes), last : BOOLEAN, sent : Nat,
     client : {"sending", "done", "gone"}]

\* What comes after the chunks: nothing yet, the end of the body, or a part of
\* what the client would have sent next.
Remains(c, e) ==
    \/ c.client = "sending" /\ e = <<>>
    \/ c.client = "done" /\ c.sent = Len(c.data) /\ e = EndOf(c.last)
    \/ /\ c.client = "gone"
       /\ \E n \in 1 .. (Len(c.data) - c.sent), x \in Extensions :
             Cut(e, ChunkAt(c.data, c.sent, n, x))
    \/ c.client = "gone" /\ c.sent = Len(c.data) /\ Cut(e, EndOf(c.last))

\* The rest of the body after its first bytes.
Arrives(c, s, from) ==
    \E r, e \in Seq(Bytes) :
        s = r \o e /\ Chunks(c.data, r, from, c.sent) /\ Remains(c, e)

\* Some bytes and the rest of the body, or a part of these bytes.
Coming(c, s, need, from) ==
    \/ \E r \in Seq(Bytes) : s = need \o r /\ Arrives(c, r, from)
    \/ c.client = "gone" /\ Cut(s, need)

\* Some bytes and nothing else, or a part of them.
Ending(c, s, need) ==
    \/ c.client = "done" /\ s = need
    \/ c.client = "gone" /\ Cut(s, need)

LEMMA Joined ==
    ASSUME NEW a \in Seq(Bytes), NEW b \in Seq(Bytes)
    PROVE  /\ a \o b \in Seq(Bytes) /\ Len(a \o b) = Len(a) + Len(b)
           /\ \A i \in 1 .. Len(a) : (a \o b)[i] = a[i]
           /\ \A i \in 1 .. Len(b) : (a \o b)[Len(a) + i] = b[i]
  OBVIOUS

LEMMA LineEndAdded ==
    ASSUME NEW line \in Seq(Bytes)
    PROVE  /\ line \o CRLF \in Seq(Bytes)
           /\ Len(line \o CRLF) = Len(line) + 2
           /\ \A k \in 1 .. Len(line) : (line \o CRLF)[k] = line[k]
           /\ (line \o CRLF)[Len(line) + 1] = CR
           /\ (line \o CRLF)[Len(line) + 2] = LF
<1> DEFINE e == CRLF
<1>1. e \in Seq(Bytes) /\ Len(e) = 2 /\ e[1] = CR /\ e[2] = LF
  BY BytesAre
<1> HIDE DEF e
<1>2. /\ line \o e \in Seq(Bytes)
      /\ Len(line \o e) = Len(line) + Len(e)
      /\ \A k \in 1 .. Len(line) : (line \o e)[k] = line[k]
      /\ \A k \in 1 .. Len(e) : (line \o e)[Len(line) + k] = e[k]
  BY <1>1, Joined
<1>3. 1 \in 1 .. Len(e) /\ 2 \in 1 .. Len(e)
  BY <1>1
<1>4. (line \o e)[Len(line) + 1] = CR /\ (line \o e)[Len(line) + 2] = LF
  BY <1>1, <1>2, <1>3
<1>5. Len(line \o e) = Len(line) + 2
  BY <1>1, <1>2
<1> QED
  BY <1>2, <1>4, <1>5 DEF e

LEMMA Apart ==
    ASSUME NEW a \in Seq(Bytes), NEW r \in Seq(Bytes), NEW s, s = a \o r
    PROVE  /\ s \in Seq(Bytes) /\ Len(s) = Len(a) + Len(r)
           /\ \A i \in 1 .. Len(a) : s[i] = a[i]
           /\ SubSeq(s, 1, Len(a)) = a
           /\ SubSeq(s, Len(a) + 1, Len(s)) = r
<1>1. /\ s \in Seq(Bytes) /\ Len(s) = Len(a) + Len(r)
      /\ \A i \in 1 .. Len(a) : s[i] = a[i]
      /\ \A i \in 1 .. Len(r) : s[Len(a) + i] = r[i]
      /\ Len(a) \in Nat /\ Len(r) \in Nat
  OBVIOUS
<1>2. SubSeq(s, 1, Len(a)) = a
  BY <1>1
<1>3. SubSeq(s, Len(a) + 1, Len(s)) = r
  BY <1>1
<1> QED
  BY <1>1, <1>2, <1>3

\* When a part of two sequences holds the first one, the rest of it is a part
\* of the second.
LEMMA CutApart ==
    ASSUME NEW a \in Seq(Bytes), NEW b \in Seq(Bytes), NEW s \in Seq(Bytes),
           Cut(s, a \o b), Len(s) >= Len(a)
    PROVE  /\ SubSeq(s, 1, Len(a)) = a
           /\ \A i \in 1 .. Len(a) : s[i] = a[i]
           /\ Cut(SubSeq(s, Len(a) + 1, Len(s)), b)
<1> DEFINE whole == a \o b
           rest == SubSeq(s, Len(a) + 1, Len(s))
<1>1. /\ whole \in Seq(Bytes) /\ Len(whole) = Len(a) + Len(b)
      /\ \A i \in 1 .. Len(a) : whole[i] = a[i]
      /\ \A i \in 1 .. Len(b) : whole[Len(a) + i] = b[i]
      /\ Len(a) \in Nat /\ Len(b) \in Nat /\ Len(s) \in Nat
  OBVIOUS
<1> HIDE DEF whole
<1>2. Len(s) < Len(whole) /\ \A i \in 1 .. Len(s) : s[i] = whole[i]
  BY DEF Cut, whole
<1>3. \A i \in 1 .. Len(a) : s[i] = a[i]
  BY <1>1, <1>2
<1>4. SubSeq(s, 1, Len(a)) = a
  BY <1>1, <1>3
<1>5. /\ rest \in Seq(Bytes) /\ Len(rest) = Len(s) - Len(a)
      /\ \A i \in 1 .. Len(rest) : rest[i] = s[Len(a) + i]
  BY <1>1
<1> HIDE DEF rest
<1>6. Cut(rest, b)
  <2>1. Len(rest) < Len(b)
    BY <1>1, <1>2, <1>5
  <2>2. ASSUME NEW i \in 1 .. Len(rest)
        PROVE  rest[i] = b[i]
    <3>1. /\ i \in 1 .. Len(b) /\ Len(a) + i \in 1 .. Len(s)
          /\ rest[i] = s[Len(a) + i]
      BY <1>1, <1>5, <2>1
    <3> QED
      BY <1>1, <1>2, <3>1
  <2> QED
    BY <2>1, <2>2 DEF Cut
<1> QED
  BY <1>3, <1>4, <1>6 DEF rest

\* What has come can be taken off.
LEMMA ComesOff ==
    ASSUME NEW c, NEW a \in Seq(Bytes), NEW b \in Seq(Bytes),
           NEW s \in Seq(Bytes), NEW from,
           Coming(c, s, a \o b, from), Len(s) >= Len(a)
    PROVE  /\ SubSeq(s, 1, Len(a)) = a
           /\ \A i \in 1 .. Len(a) : s[i] = a[i]
           /\ Coming(c, SubSeq(s, Len(a) + 1, Len(s)), b, from)
<1>1. CASE \E r \in Seq(Bytes) : s = (a \o b) \o r /\ Arrives(c, r, from)
  <2>1. PICK r \in Seq(Bytes) : s = (a \o b) \o r /\ Arrives(c, r, from)
    BY <1>1
  <2>2. s = a \o (b \o r) /\ b \o r \in Seq(Bytes)
    BY <2>1, Associative
  <2>3. /\ SubSeq(s, 1, Len(a)) = a
        /\ \A i \in 1 .. Len(a) : s[i] = a[i]
        /\ SubSeq(s, Len(a) + 1, Len(s)) = b \o r
    BY <2>2, Apart
  <2> QED
    BY <2>1, <2>3 DEF Coming
<1>2. CASE c.client = "gone" /\ Cut(s, a \o b)
  BY <1>2, CutApart DEF Coming
<1> QED
  BY <1>1, <1>2 DEF Coming

LEMMA EndsOff ==
    ASSUME NEW c, NEW a \in Seq(Bytes), NEW b \in Seq(Bytes),
           NEW s \in Seq(Bytes), Ending(c, s, a \o b), Len(s) >= Len(a)
    PROVE  /\ \A i \in 1 .. Len(a) : s[i] = a[i]
           /\ Ending(c, SubSeq(s, Len(a) + 1, Len(s)), b)
<1>1. CASE c.client = "done" /\ s = a \o b
  <2>1. /\ \A i \in 1 .. Len(a) : s[i] = a[i]
        /\ SubSeq(s, Len(a) + 1, Len(s)) = b
    BY <1>1, Apart
  <2> QED
    BY <1>1, <2>1 DEF Ending
<1>2. CASE c.client = "gone" /\ Cut(s, a \o b)
  BY <1>2, CutApart DEF Ending
<1> QED
  BY <1>1, <1>2 DEF Ending

\* What comes, as far as it has come, begins with what it begins with.
LEMMA Agrees ==
    ASSUME NEW c, NEW a \in Seq(Bytes), NEW b \in Seq(Bytes),
           NEW s \in Seq(Bytes), NEW from,
           Coming(c, s, a \o b, from) \/ Ending(c, s, a \o b)
    PROVE  /\ \A i \in 1 .. Len(a) : i <= Len(s) => s[i] = a[i]
           /\ c.client # "gone" => Len(s) >= Len(a) + Len(b)
<1> DEFINE whole == a \o b
<1>1. /\ whole \in Seq(Bytes) /\ Len(whole) = Len(a) + Len(b)
      /\ \A i \in 1 .. Len(a) : whole[i] = a[i]
      /\ Len(a) \in Nat /\ Len(b) \in Nat /\ Len(s) \in Nat
  OBVIOUS
<1> HIDE DEF whole
<1>2. CASE Cut(s, whole) /\ c.client = "gone"
  BY <1>1, <1>2 DEF Cut
<1>3. CASE \E r \in Seq(Bytes) : s = whole \o r
  <2>1. PICK r \in Seq(Bytes) : s = whole \o r
    BY <1>3
  <2>2. Len(s) = Len(whole) + Len(r) /\ \A i \in 1 .. Len(whole) : s[i] = whole[i]
    <3>1. whole \in Seq(Bytes)
      BY <1>1
    <3> QED
      BY <2>1, <3>1
  <2> QED
    BY <1>1, <2>2
<1>4. CASE s = whole
  BY <1>1, <1>4
<1> QED
  BY <1>2, <1>3, <1>4 DEF Coming, Ending, whole

-----------------------------------------------------------------------------
(* The line of a chunk.                                                     *)

\* The end of a line that holds no CR is where it should be.
LEMMA LineRead ==
    ASSUME input \in Seq(Bytes), NEW line \in Seq(Bytes),
           \A k \in DOMAIN line : line[k] # CR,
           \A k \in 1 .. Len(line \o CRLF) :
              k <= Len(input) => input[k] = (line \o CRLF)[k]
    PROVE  /\ Len(input) >= Len(line) + 2 => ~NoLine
           /\ \A i \in DOMAIN input :
                 FirstLineEnds(i) =>
                    /\ i = Len(line) + 1 /\ i + 1 <= Len(input)
                    /\ SubSeq(input, 1, i - 1) = line
<1> DEFINE head == line \o CRLF
<1>1. /\ head \in Seq(Bytes) /\ Len(head) = Len(line) + 2
      /\ \A k \in 1 .. Len(line) : head[k] = line[k]
      /\ head[Len(line) + 1] = CR /\ head[Len(line) + 2] = LF
      /\ Len(line) \in Nat /\ Len(input) \in Nat
      /\ DOMAIN input = 1 .. Len(input) /\ DOMAIN line = 1 .. Len(line)
  BY LineEndAdded
<1> HIDE DEF head
<1>2. \A k \in 1 .. Len(head) : k <= Len(input) => input[k] = head[k]
  BY DEF head
<1>3. \A k \in 1 .. Len(line) : k <= Len(input) => input[k] # CR
  BY <1>1, <1>2
<1>4. ASSUME Len(input) >= Len(line) + 2
      PROVE  LineEnds(Len(line) + 1) /\ Len(line) + 1 \in DOMAIN input
  BY <1>1, <1>2, <1>4 DEF LineEnds
<1>5. Len(input) >= Len(line) + 2 => ~NoLine
  BY <1>4 DEF NoLine
<1>6. ASSUME NEW i \in DOMAIN input, FirstLineEnds(i)
      PROVE  /\ i = Len(line) + 1 /\ i + 1 <= Len(input)
             /\ SubSeq(input, 1, i - 1) = line
  <2>1. /\ i \in 1 .. Len(input) /\ i + 1 <= Len(input) /\ input[i] = CR
        /\ \A j \in 1 .. (i - 1) : ~LineEnds(j)
    BY <1>1, <1>6 DEF FirstLineEnds, LineEnds
  <2>2. i > Len(line)
    BY <1>1, <1>3, <2>1
  <2>3. ~(i > Len(line) + 1)
    <3> SUFFICES ASSUME i > Len(line) + 1 PROVE FALSE
      OBVIOUS
    <3>1. Len(input) >= Len(line) + 2 /\ Len(line) + 1 \in 1 .. (i - 1)
      BY <1>1, <2>1
    <3> QED
      BY <1>4, <2>1, <3>1
  <2>4. i = Len(line) + 1
    BY <1>1, <2>1, <2>2, <2>3
  <2>5. \A k \in 1 .. Len(line) : input[k] = line[k]
    BY <1>1, <1>2, <2>1, <2>4
  <2>6. SubSeq(input, 1, Len(line)) = line
    BY <1>1, <2>1, <2>4, <2>5
  <2>7. i - 1 = Len(line)
    BY <1>1, <2>4
  <2> QED
    BY <2>1, <2>4, <2>6, <2>7
<1> QED
  BY <1>5, <1>6

\* The end of a body, divided into its line and the line end after it.
LEMMA EndType ==
    ASSUME NEW l \in BOOLEAN
    PROVE  /\ Digits[0] \o EndMark(l) \in Seq(Bytes)
           /\ \A i \in DOMAIN (Digits[0] \o EndMark(l)) :
                 (Digits[0] \o EndMark(l))[i] # CR
           /\ EndOf(l) = (Digits[0] \o EndMark(l) \o CRLF) \o CRLF
           /\ l <=> Ieof \in ToSet(Digits[0] \o EndMark(l))
           /\ Value(Digits[0] \o EndMark(l)) = 0
<1> DEFINE h == Digits[0]
           m == EndMark(l)
           line == h \o m
<1>1. h \in Seq(DigitBytes) /\ h \in Seq(Bytes)
  BY DigitsType, NumberType
<1>2. m \in Seq(Bytes) /\ \A i \in DOMAIN m : m[i] # CR
  BY EndMarkType
<1>3. \A i \in DOMAIN h : h[i] # CR /\ h[i] # Ieof
  BY <1>1, BytesAre
<1>4. Value(line) = 0
  <2>1. 0 \in 0 .. MaxData
    BY ChunkedAssumption
  <2>2. m # <<>> => m[1].kind # "digit"
    BY EndMarkType
  <2> HIDE DEF m
  <2> QED
    BY <1>2, <2>1, <2>2, ValueOf
<1>5. l <=> \E i \in DOMAIN m : m[i] = Ieof
  BY EndMarkType
<1> HIDE DEF h, m
<1>6. /\ line \in Seq(Bytes) /\ DOMAIN line = 1 .. (Len(h) + Len(m))
      /\ \A i \in 1 .. Len(h) : line[i] = h[i]
      /\ \A i \in 1 .. Len(m) : line[Len(h) + i] = m[i]
      /\ DOMAIN h = 1 .. Len(h) /\ DOMAIN m = 1 .. Len(m)
      /\ Len(h) \in Nat /\ Len(m) \in Nat
  BY <1>1, <1>2
<1> HIDE DEF line
<1>7. \A i \in DOMAIN line :
         i \in 1 .. Len(h) \/ (i - Len(h) \in 1 .. Len(m)
                               /\ line[i] = m[i - Len(h)])
  <2> TAKE i \in DOMAIN line
  <2>1. CASE i > Len(h)
    <3> DEFINE j == i - Len(h)
    <3>1. j \in 1 .. Len(m) /\ Len(h) + j = i
      BY <1>6, <2>1
    <3> HIDE DEF j
    <3>2. line[i] = m[j]
      BY <1>6, <3>1
    <3> QED
      BY <3>1, <3>2 DEF j
  <2>2. CASE i <= Len(h)
    BY <1>6, <2>2
  <2> QED
    BY <1>6, <2>1, <2>2
<1>8. \A i \in DOMAIN line : line[i] # CR
  BY <1>2, <1>3, <1>6, <1>7
<1>9. (\E i \in DOMAIN line : line[i] = Ieof)
         <=> \E i \in DOMAIN m : m[i] = Ieof
  <2>1. ASSUME NEW i \in DOMAIN m, m[i] = Ieof
        PROVE  \E j \in DOMAIN line : line[j] = Ieof
    <3>1. Len(h) + i \in DOMAIN line /\ line[Len(h) + i] = m[i]
      BY <1>6
    <3> QED
      BY <2>1, <3>1
  <2>2. ASSUME NEW i \in DOMAIN line, line[i] = Ieof
        PROVE  \E j \in DOMAIN m : m[j] = Ieof
    BY <1>3, <1>6, <1>7, <2>2
  <2> QED
    BY <2>1, <2>2
<1>10. Ieof \in ToSet(line) <=> \E i \in DOMAIN line : line[i] = Ieof
  BY DEF ToSet
<1>11. l <=> Ieof \in ToSet(line)
  BY <1>5, <1>9, <1>10, Zenon
<1>12. EndOf(l) = (line \o CRLF) \o CRLF
  BY DEF EndOf, line, h, m
<1> QED
  BY <1>4, <1>6, <1>8, <1>11, <1>12, Zenon DEF line, h, m

LEMMA WhatArrives ==
    ASSUME NEW c \in Senders, NEW s \in Seq(Bytes), NEW from,
           Arrives(c, s, from)
    PROVE  /\ from \in 0 .. Len(c.data)
           /\ \/ \E x \in Extensions :
                    \E n \in 1 .. (Len(c.data) - from) :
                       Coming(c, s, ChunkAt(c.data, from, n, x), from + n)
              \/ from = Len(c.data) /\ Ending(c, s, EndOf(c.last))
              \/ s = <<>> /\ c.client = "sending"
<1>1. PICK r \in Seq(Bytes), e \in Seq(Bytes) :
         s = r \o e /\ Chunks(c.data, r, from, c.sent) /\ Remains(c, e)
  BY DEF Arrives
<1> DEFINE d == c.data
<1>2. d \in Seq(Bytes) /\ c.last \in BOOLEAN
  BY DEF Senders
<1>3. from \in Nat /\ Begun(d, r, from, c.sent)
  BY <1>1, <1>2, FirstChunk
<1>4. from \in 0 .. Len(d) /\ c.sent \in Nat
  BY <1>2, <1>3 DEF Begun, Senders
<1>5. CASE r = <<>> /\ from = c.sent
  <2>1. s = e
    BY <1>1, <1>5, ConcatEmptySeq
  <2>2. CASE c.client = "sending" /\ e = <<>>
    BY <1>4, <2>1, <2>2
  <2>3. CASE c.client = "done" /\ c.sent = Len(c.data) /\ e = EndOf(c.last)
    BY <1>4, <1>5, <2>1, <2>3 DEF Ending
  <2>4. CASE /\ c.client = "gone"
             /\ \E n \in 1 .. (Len(c.data) - c.sent), x \in Extensions :
                   Cut(e, ChunkAt(c.data, c.sent, n, x))
    <3>1. PICK n \in 1 .. (Len(c.data) - c.sent), x \in Extensions :
             Cut(e, ChunkAt(c.data, c.sent, n, x))
      BY <2>4
    <3>2. n \in 1 .. (Len(c.data) - from)
      BY <1>5
    <3>3. Coming(c, s, ChunkAt(c.data, from, n, x), from + n)
      BY <1>5, <2>1, <2>4, <3>1 DEF Coming
    <3> QED
      BY <1>4, <3>2, <3>3
  <2>5. CASE /\ c.client = "gone" /\ c.sent = Len(c.data)
             /\ Cut(e, EndOf(c.last))
    BY <1>4, <1>5, <2>1, <2>5 DEF Ending
  <2> QED
    BY <1>1, <2>2, <2>3, <2>4, <2>5 DEF Remains
<1>6. CASE \E x \in Extensions, q \in Seq(Bytes) :
              \E n \in 1 .. (Len(d) - from) :
                 r = ChunkAt(d, from, n, x) \o q
                 /\ Chunks(d, q, from + n, c.sent)
  <2>1. PICK x \in Extensions, q \in Seq(Bytes) :
           \E n \in 1 .. (Len(d) - from) :
              r = ChunkAt(d, from, n, x) \o q /\ Chunks(d, q, from + n, c.sent)
    BY <1>6
  <2>2. PICK n \in 1 .. (Len(d) - from) :
           r = ChunkAt(d, from, n, x) \o q /\ Chunks(d, q, from + n, c.sent)
    BY <2>1
  <2>3. ChunkAt(d, from, n, x) \in Seq(Bytes)
    BY <1>2, <1>3, ChunkType
  <2>4. s = ChunkAt(d, from, n, x) \o (q \o e) /\ q \o e \in Seq(Bytes)
    <3> DEFINE k == ChunkAt(d, from, n, x)
    <3>1. k \in Seq(Bytes) /\ s = (k \o q) \o e
      BY <1>1, <2>2, <2>3
    <3> HIDE DEF k
    <3>2. s = k \o (q \o e) /\ q \o e \in Seq(Bytes)
      BY <3>1, Associative
    <3> QED
      BY <3>2 DEF k
  <2>5. Arrives(c, q \o e, from + n)
    BY <1>1, <2>2 DEF Arrives
  <2>6. Coming(c, s, ChunkAt(d, from, n, x), from + n)
    BY <2>4, <2>5 DEF Coming
  <2> QED
    BY <1>4, <2>6
<1> QED
  BY <1>3, <1>5, <1>6 DEF Begun

\* What a header that has been read says of what follows.
LEMMA HeaderOf ==
    ASSUME input \in Seq(Bytes), NEW c \in Senders, Len(c.data) <= MaxData,
           NEW from, Arrives(c, input, from),
           NEW i \in DOMAIN input, FirstLineEnds(i),
           NEW line, line = SubSeq(input, 1, i - 1),
           NEW rest, rest = SubSeq(input, i + 2, Len(input))
    PROVE  /\ from \in 0 .. Len(c.data)
           /\ \/ /\ Value(line) \in 1 .. (Len(c.data) - from)
                 /\ Coming(c, rest,
                           Between(c.data, from, from + Value(line)) \o CRLF,
                           from + Value(line))
              \/ /\ Value(line) = 0 /\ from = Len(c.data)
                 /\ c.last <=> Ieof \in ToSet(line)
                 /\ Ending(c, rest, CRLF)
<1>1. /\ from \in 0 .. Len(c.data) /\ Len(c.data) \in Nat
      /\ c.data \in Seq(Bytes) /\ c.last \in BOOLEAN
      /\ CRLF \in Seq(Bytes) /\ Len(CRLF) = 2
  BY WhatArrives, BytesAre DEF Senders
<1>2. ASSUME NEW x \in Extensions, NEW n \in 1 .. (Len(c.data) - from),
             Coming(c, input, ChunkAt(c.data, from, n, x), from + n)
      PROVE  /\ Value(line) = n
             /\ Coming(c, rest, Between(c.data, from, from + n) \o CRLF,
                       from + n)
  <2> DEFINE first == Digits[n] \o x
             head == first \o CRLF
             next == Between(c.data, from, from + n) \o CRLF
  <2>1. /\ first \in Seq(Bytes) /\ \A k \in DOMAIN first : first[k] # CR
        /\ ChunkAt(c.data, from, n, x) = head \o next
        /\ next \in Seq(Bytes)
    <3>1. /\ Between(c.data, from, from + n) \in Seq(Bytes)
          /\ first \in Seq(Bytes)
          /\ \A k \in DOMAIN first : first[k] \notin {CR, Ieof}
          /\ ChunkAt(c.data, from, n, x) = head \o next
      <4> DEFINE d == c.data
      <4>1. d \in Seq(Bytes) /\ from \in Nat /\ n \in 1 .. (Len(d) - from)
        BY <1>1
      <4> HIDE DEF d
      <4>2. Between(d, from, from + n) \in Seq(Bytes)
        BY <4>1, ChunkType
      <4>3. first \in Seq(Bytes)
        BY <4>1, ChunkType
      <4>4. \A k \in DOMAIN first : first[k] \notin {CR, Ieof}
        BY <4>1, ChunkType
      <4>5. ChunkAt(d, from, n, x) = head \o (Between(d, from, from + n) \o CRLF)
        BY <4>1, ChunkParts, Zenon
      <4> QED
        BY <4>2, <4>3, <4>4, <4>5 DEF d
    <3>2. next \in Seq(Bytes)
      BY <3>1, LineEndAdded
    <3> HIDE DEF first, next
    <3> QED
      BY <3>1, <3>2
  <2>2. Value(first) = n
    <3>1. n \in 0 .. MaxData /\ x \in Seq(Bytes)
          /\ (x # <<>> => x[1].kind # "digit")
      BY <1>1, ChunkedAssumption, ExtensionType
    <3> QED
      BY <3>1, ValueOf
  <2> HIDE DEF first, next
  <2>3. head \in Seq(Bytes) /\ Len(head) = Len(first) + 2
    BY <2>1, LineEndAdded
  <2>4. Coming(c, input, head \o next, from + n)
    BY <1>2, <2>1
  <2>5. \A k \in 1 .. Len(head) : k <= Len(input) => input[k] = head[k]
    <3> HIDE DEF head
    <3> QED
      BY <2>1, <2>3, <2>4, Agrees
  <2>6. i = Len(first) + 1 /\ i + 1 <= Len(input) /\ line = first
    BY <2>1, <2>5, LineRead
  <2>7. i + 2 = Len(head) + 1 /\ Len(input) >= Len(head)
    BY <2>1, <2>3, <2>6
  <2>8. rest = SubSeq(input, Len(head) + 1, Len(input))
    <3> HIDE DEF head
    <3> QED
      BY <2>7
  <2>9. Coming(c, rest, next, from + n)
    <3> HIDE DEF head
    <3> QED
      BY <2>1, <2>3, <2>4, <2>7, <2>8, ComesOff
  <2> QED
    BY <2>2, <2>6, <2>9 DEF next
<1>3. ASSUME from = Len(c.data), Ending(c, input, EndOf(c.last))
      PROVE  /\ Value(line) = 0 /\ Ending(c, rest, CRLF)
             /\ c.last <=> Ieof \in ToSet(line)
  <2> DEFINE first == Digits[0] \o EndMark(c.last)
             head == first \o CRLF
  <2>1. /\ first \in Seq(Bytes) /\ \A k \in DOMAIN first : first[k] # CR
        /\ EndOf(c.last) = head \o CRLF
        /\ Value(first) = 0
        /\ c.last <=> Ieof \in ToSet(first)
    BY <1>1, EndType, Zenon
  <2> HIDE DEF first
  <2>2. head \in Seq(Bytes) /\ Len(head) = Len(first) + 2
    BY <2>1, LineEndAdded
  <2>3. Ending(c, input, head \o CRLF)
    BY <1>3, <2>1
  <2>4. \A k \in 1 .. Len(head) : k <= Len(input) => input[k] = head[k]
    <3> HIDE DEF head
    <3> QED
      BY <1>1, <2>2, <2>3, Agrees
  <2>5. i = Len(first) + 1 /\ i + 1 <= Len(input) /\ line = first
    BY <2>1, <2>4, LineRead
  <2>6. i + 2 = Len(head) + 1 /\ Len(input) >= Len(head)
    BY <2>1, <2>2, <2>5
  <2>7. rest = SubSeq(input, Len(head) + 1, Len(input))
    <3> HIDE DEF head
    <3> QED
      BY <2>6
  <2>8. Ending(c, rest, CRLF)
    <3> HIDE DEF head
    <3> QED
      BY <1>1, <2>2, <2>3, <2>6, <2>7, EndsOff
  <2> QED
    BY <2>1, <2>5, <2>8
<1>4. input # <<>>
  OBVIOUS
<1>5. CASE \E x \in Extensions :
              \E n \in 1 .. (Len(c.data) - from) :
                 Coming(c, input, ChunkAt(c.data, from, n, x), from + n)
  <2>1. PICK x \in Extensions :
           \E n \in 1 .. (Len(c.data) - from) :
              Coming(c, input, ChunkAt(c.data, from, n, x), from + n)
    BY <1>5
  <2>2. PICK n \in 1 .. (Len(c.data) - from) :
           Coming(c, input, ChunkAt(c.data, from, n, x), from + n)
    BY <2>1
  <2>3. /\ Value(line) = n
        /\ Coming(c, rest, Between(c.data, from, from + n) \o CRLF, from + n)
    BY <1>2, <2>2
  <2> QED
    BY <1>1, <2>3
<1>6. CASE from = Len(c.data) /\ Ending(c, input, EndOf(c.last))
  BY <1>1, <1>3, <1>6, Zenon
<1> QED
  BY <1>4, <1>5, <1>6, WhatArrives

\* A client that is done has sent a whole line.
LEMMA LineThere ==
    ASSUME input \in Seq(Bytes), NEW c \in Senders, NEW from,
           Arrives(c, input, from), c.client = "done"
    PROVE  ~NoLine
<1>1. /\ c.data \in Seq(Bytes) /\ c.last \in BOOLEAN
      /\ CRLF \in Seq(Bytes) /\ Len(CRLF) = 2 /\ Len(input) \in Nat
  BY BytesAre DEF Senders
<1>2. ASSUME NEW x \in Extensions, NEW n \in 1 .. (Len(c.data) - from),
             from \in 0 .. Len(c.data),
             Coming(c, input, ChunkAt(c.data, from, n, x), from + n)
      PROVE  ~NoLine
  <2> DEFINE first == Digits[n] \o x
             head == first \o CRLF
             next == Between(c.data, from, from + n) \o CRLF
  <2>1. /\ first \in Seq(Bytes) /\ \A k \in DOMAIN first : first[k] # CR
        /\ ChunkAt(c.data, from, n, x) = head \o next
        /\ next \in Seq(Bytes)
    <3>1. /\ Between(c.data, from, from + n) \in Seq(Bytes)
          /\ first \in Seq(Bytes)
          /\ \A k \in DOMAIN first : first[k] \notin {CR, Ieof}
          /\ ChunkAt(c.data, from, n, x) = head \o next
      <4> DEFINE d == c.data
      <4>1. d \in Seq(Bytes) /\ from \in Nat /\ n \in 1 .. (Len(d) - from)
        BY <1>1, <1>2
      <4> HIDE DEF d
      <4>2. Between(d, from, from + n) \in Seq(Bytes)
        BY <4>1, ChunkType
      <4>3. first \in Seq(Bytes)
        BY <4>1, ChunkType
      <4>4. \A k \in DOMAIN first : first[k] \notin {CR, Ieof}
        BY <4>1, ChunkType
      <4>5. ChunkAt(d, from, n, x) = head \o (Between(d, from, from + n) \o CRLF)
        BY <4>1, ChunkParts, Zenon
      <4> QED
        BY <4>2, <4>3, <4>4, <4>5 DEF d
    <3>2. next \in Seq(Bytes)
      BY <3>1, LineEndAdded
    <3> HIDE DEF first, next
    <3> QED
      BY <3>1, <3>2
  <2> HIDE DEF first, next
  <2>2. head \in Seq(Bytes) /\ Len(head) = Len(first) + 2
    BY <2>1, LineEndAdded
  <2>3. Coming(c, input, head \o next, from + n)
    BY <1>2, <2>1
  <2>4. /\ \A k \in 1 .. Len(head) : k <= Len(input) => input[k] = head[k]
        /\ Len(input) >= Len(head) + Len(next)
    <3> HIDE DEF head
    <3>1. c.client # "gone"
      OBVIOUS
    <3> QED
      BY <2>1, <2>2, <2>3, <3>1, Agrees
  <2>5. Len(input) >= Len(first) + 2
    <3>1. Len(next) \in Nat /\ Len(first) \in Nat
      BY <2>1
    <3> QED
      BY <1>1, <2>2, <2>4, <3>1
  <2> QED
    BY <2>1, <2>4, <2>5, LineRead
<1>3. ASSUME Ending(c, input, EndOf(c.last))
      PROVE  ~NoLine
  <2> DEFINE first == Digits[0] \o EndMark(c.last)
             head == first \o CRLF
  <2>1. /\ first \in Seq(Bytes) /\ \A k \in DOMAIN first : first[k] # CR
        /\ EndOf(c.last) = head \o CRLF
    BY <1>1, EndType, Zenon
  <2> HIDE DEF first
  <2>2. head \in Seq(Bytes) /\ Len(head) = Len(first) + 2
    BY <2>1, LineEndAdded
  <2>3. Ending(c, input, head \o CRLF)
    BY <1>3, <2>1
  <2>4. /\ \A k \in 1 .. Len(head) : k <= Len(input) => input[k] = head[k]
        /\ Len(input) >= Len(head) + Len(CRLF)
    <3> DEFINE end == CRLF
    <3>1. c.client # "gone" /\ end \in Seq(Bytes) /\ Ending(c, input, head \o end)
      BY <1>1, <2>3
    <3> HIDE DEF head, end
    <3>2. /\ \A k \in 1 .. Len(head) : k <= Len(input) => input[k] = head[k]
          /\ Len(input) >= Len(head) + Len(end)
      BY <2>2, <3>1, Agrees
    <3> QED
      BY <3>2 DEF end
  <2>5. Len(input) >= Len(first) + 2
    <3>1. Len(first) \in Nat
      BY <2>1
    <3> QED
      BY <1>1, <2>2, <2>4, <3>1
  <2> QED
    BY <2>1, <2>4, <2>5, LineRead
<1>4. from \in 0 .. Len(c.data)
  BY WhatArrives
<1>5. \/ \E x \in Extensions :
            \E n \in 1 .. (Len(c.data) - from) :
               Coming(c, input, ChunkAt(c.data, from, n, x), from + n)
      \/ Ending(c, input, EndOf(c.last))
  BY WhatArrives
<1>6. CASE \E x \in Extensions :
              \E n \in 1 .. (Len(c.data) - from) :
                 Coming(c, input, ChunkAt(c.data, from, n, x), from + n)
  <2>1. PICK x \in Extensions :
           \E n \in 1 .. (Len(c.data) - from) :
              Coming(c, input, ChunkAt(c.data, from, n, x), from + n)
    BY <1>6
  <2>2. PICK n \in 1 .. (Len(c.data) - from) :
           Coming(c, input, ChunkAt(c.data, from, n, x), from + n)
    BY <2>1
  <2> QED
    BY <1>2, <1>4, <2>2
<1> QED
  BY <1>3, <1>5, <1>6

-----------------------------------------------------------------------------
(* The worker is in step with the client.                                   *)

\* The payload, and with it the chunk that is being read, is a beginning of
\* the data, wherever the connection has stopped.
Gathering ==
    /\ Len(data) <= MaxData
    /\ \A i \in DOMAIN data : data[i].kind = "data"
    /\ Len(payload) <= Len(data) /\ payload = Between(data, 0, Len(payload))
    /\ at \in {"data", "end"} =>
          /\ Len(payload) + Len(chunk) <= Len(data)
          /\ chunk = Between(data, Len(payload), Len(payload) + Len(chunk))

\* What is on the connection is what the worker is about to read.
AtHeader == at = "header" => Arrives(Sender, input, Len(payload))
AtData ==
    at = "data" =>
       /\ Len(chunk) < size /\ Len(payload) + size <= Len(data)
       /\ Coming(Sender, input,
                 Between(data, Len(payload) + Len(chunk), Len(payload) + size)
                    \o CRLF,
                 Len(payload) + size)
AtEnd ==
    at = "end" =>
       \/ /\ size > 0 /\ Len(chunk) = size
          /\ Coming(Sender, input, CRLF, Len(payload) + size)
       \/ /\ size = 0 /\ Len(payload) = Len(data) /\ mark = last
          /\ Ending(Sender, input, CRLF)
AtRest ==
    HasRead =>
       /\ payload = data /\ input = <<>> /\ ieof = last
       /\ client = "done"

InStep == ~broken => AtHeader /\ AtData /\ AtEnd /\ AtRest

ReadInv == TypeOK /\ Gathering /\ InStep

LEMMA BetweenType ==
    ASSUME NEW d \in Seq(Bytes), NEW i \in Nat, NEW j \in Nat,
           i <= j, j <= Len(d)
    PROVE  /\ Between(d, i, j) \in Seq(Bytes)
           /\ Len(Between(d, i, j)) = j - i
           /\ \A n \in 1 .. (j - i) : Between(d, i, j)[n] = d[i + n]
  BY DEF Between

LEMMA BetweenJoined ==
    ASSUME NEW d \in Seq(Bytes), NEW i \in Nat, NEW j \in Nat, NEW k \in Nat,
           i <= j, j <= k, k <= Len(d)
    PROVE  Between(d, i, j) \o Between(d, j, k) = Between(d, i, k)
<1> DEFINE a == Between(d, i, j)
           b == Between(d, j, k)
           w == Between(d, i, k)
<1>0. Len(d) \in Nat /\ i <= k /\ j <= Len(d)
  OBVIOUS
<1>1. /\ a \in Seq(Bytes) /\ Len(a) = j - i
      /\ \A n \in 1 .. (j - i) : a[n] = d[i + n]
  BY <1>0, BetweenType
<1>2. /\ b \in Seq(Bytes) /\ Len(b) = k - j
      /\ \A n \in 1 .. (k - j) : b[n] = d[j + n]
  BY <1>0, BetweenType
<1>3. /\ w \in Seq(Bytes) /\ Len(w) = k - i
      /\ \A n \in 1 .. (k - i) : w[n] = d[i + n]
  BY <1>0, BetweenType
<1> HIDE DEF a, b, w
<1> DEFINE u == a \o b
<1>4. /\ u \in Seq(Bytes) /\ Len(u) = Len(a) + Len(b)
      /\ \A n \in 1 .. Len(a) : u[n] = a[n]
      /\ \A n \in 1 .. Len(b) : u[Len(a) + n] = b[n]
  BY <1>1, <1>2, Joined
<1> HIDE DEF u
<1>5. Len(u) = Len(w)
  BY <1>1, <1>2, <1>3, <1>4
<1>6. ASSUME NEW n \in 1 .. Len(u)
      PROVE  u[n] = w[n]
  <2>1. CASE n <= Len(a)
    BY <1>1, <1>3, <1>4, <1>5, <2>1
  <2>2. CASE n > Len(a)
    <3> DEFINE m == n - Len(a)
    <3>1. m \in 1 .. Len(b) /\ Len(a) + m = n /\ j + m = i + n
      <4>1. Len(a) = j - i /\ Len(b) = k - j /\ n \in Nat /\ n <= Len(u)
        BY <1>1, <1>2, <1>4
      <4>2. Len(u) = Len(a) + Len(b)
        BY <1>4
      <4> QED
        BY <2>2, <4>1, <4>2
    <3> HIDE DEF m
    <3> QED
      BY <1>1, <1>2, <1>3, <1>4, <1>5, <3>1
  <2> QED
    BY <1>1, <1>4, <2>1, <2>2
<1>7. u = w
  BY <1>3, <1>4, <1>5, <1>6, SeqEqual
<1> QED
  BY <1>7 DEF u, a, b, w

LEMMA NothingBetween ==
    ASSUME NEW d \in Seq(Bytes), NEW i \in 0 .. Len(d)
    PROVE  Between(d, i, i) = <<>>
<1>1. Between(d, i, i) \in Seq(Bytes) /\ Len(Between(d, i, i)) = i - i
  BY BetweenType
<1> DEFINE b == Between(d, i, i)
<1> HIDE DEF b
<1>2. b \in Seq(Bytes) /\ Len(b) = 0
  BY <1>1 DEF b
<1>3. b = <<>>
  BY <1>2
<1> QED
  BY <1>3 DEF b

LEMMA SenderType == TypeOK => Sender \in Senders /\ sent <= Len(data)
  BY DEF TypeOK, Sender, Senders

\* What the client adds.
Added(c, e, t) ==
    /\ c.client = "sending" /\ e.data = c.data /\ e.last = c.last
    /\ \/ /\ e.client = "sending"
          /\ \E n \in 1 .. (Len(c.data) - c.sent), x \in Extensions :
                t = ChunkAt(c.data, c.sent, n, x) /\ e.sent = c.sent + n
       \/ e.sent = c.sent /\ Remains(e, t)

LEMMA ArrivesMore ==
    ASSUME NEW c \in Senders, NEW e \in Senders, NEW t \in Seq(Bytes),
           Added(c, e, t), NEW s \in Seq(Bytes), NEW from,
           Arrives(c, s, from)
    PROVE  Arrives(e, s \o t, from)
<1>1. PICK r \in Seq(Bytes), f \in Seq(Bytes) :
         s = r \o f /\ Chunks(c.data, r, from, c.sent) /\ Remains(c, f)
  BY DEF Arrives
<1>2. c.client = "sending" /\ e.data = c.data
  BY DEF Added
<1>3. f = <<>>
  BY <1>1, <1>2 DEF Remains
<1>4. s = r
  BY <1>1, <1>3, ConcatEmptySeq
<1>5. c.data \in Seq(Bytes) /\ c.sent \in Nat
  BY DEF Senders
<1>6. from \in Nat
  BY <1>1, <1>5, FirstChunk
<1>7. CASE /\ e.client = "sending"
           /\ \E n \in 1 .. (Len(c.data) - c.sent), x \in Extensions :
                 t = ChunkAt(c.data, c.sent, n, x) /\ e.sent = c.sent + n
  <2>1. PICK n \in 1 .. (Len(c.data) - c.sent), x \in Extensions :
           t = ChunkAt(c.data, c.sent, n, x) /\ e.sent = c.sent + n
    BY <1>7
  <2>2. Chunks(c.data, s \o t, from, e.sent)
    BY <1>1, <1>4, <1>5, <1>6, <2>1, OneMoreChunk
  <2> DEFINE none == <<>>
             all == s \o t
  <2>3. none \in Seq(Bytes) /\ all \in Seq(Bytes) /\ all = all \o none
    BY ConcatEmptySeq
  <2>4. Remains(e, none)
    BY <1>7 DEF Remains
  <2> HIDE DEF none, all
  <2>5. Chunks(e.data, all, from, e.sent)
    BY <1>2, <2>2 DEF all
  <2>6. Arrives(e, all, from)
    BY <2>3, <2>4, <2>5 DEF Arrives
  <2> QED
    BY <2>6 DEF all
<1>8. CASE e.sent = c.sent /\ Remains(e, t)
  BY <1>1, <1>2, <1>4, <1>8 DEF Arrives
<1> QED
  BY <1>7, <1>8 DEF Added

LEMMA ComesMore ==
    ASSUME NEW c \in Senders, NEW e \in Senders, NEW t \in Seq(Bytes),
           Added(c, e, t), NEW s \in Seq(Bytes), NEW need \in Seq(Bytes),
           NEW from, Coming(c, s, need, from)
    PROVE  Coming(e, s \o t, need, from)
<1>1. c.client = "sending"
  BY DEF Added
<1>2. PICK r \in Seq(Bytes) : s = need \o r /\ Arrives(c, r, from)
  BY <1>1 DEF Coming
<1>3. Arrives(e, r \o t, from)
  BY <1>2, ArrivesMore
<1>4. s \o t = need \o (r \o t) /\ r \o t \in Seq(Bytes)
  BY <1>2, Associative
<1> QED
  BY <1>3, <1>4 DEF Coming

LEMMA ComesAll ==
    ASSUME NEW c, NEW a \in Seq(Bytes), NEW s \in Seq(Bytes), NEW from,
           Coming(c, s, a, from), Len(s) >= Len(a)
    PROVE  Arrives(c, SubSeq(s, Len(a) + 1, Len(s)), from)
<1>1. ~Cut(s, a)
  BY DEF Cut
<1>2. PICK r \in Seq(Bytes) : s = a \o r /\ Arrives(c, r, from)
  BY <1>1 DEF Coming
<1>3. SubSeq(s, Len(a) + 1, Len(s)) = r
  BY <1>2, Apart
<1> QED
  BY <1>2, <1>3

LEMMA ReadInit == Init => Gathering /\ InStep
<1> SUFFICES ASSUME Init PROVE Gathering /\ InStep
  OBVIOUS
<1>1. TypeOK
  BY TypeInit
<1>2. /\ sent = 0 /\ client = "sending" /\ input = <<>> /\ at = "header"
      /\ payload = <<>> /\ data \in Seq(Bytes) /\ Len(data) \in Nat
  BY <1>1 DEF Init, TypeOK
<1>3. Len(data) <= MaxData /\ \A i \in DOMAIN data : data[i].kind = "data"
  <2>1. PICK n \in 0 .. MaxData : data = Data(n)
    BY DEF Init
  <2>2. DOMAIN data = 1 .. n /\ \A i \in 1 .. n : data[i].kind = "data"
    BY <2>1 DEF Data, Byte
  <2>3. Len(data) = n
    BY <1>2, <2>2, ChunkedAssumption
  <2> QED
    BY <2>2, <2>3, ChunkedAssumption
<1>4. Gathering
  <2>1. Between(data, 0, 0) = <<>>
    BY <1>2, NothingBetween
  <2>2. Len(payload) = 0
    BY <1>2
  <2> QED
    BY <1>2, <1>3, <2>1, <2>2 DEF Gathering
<1>5. Arrives(Sender, input, Len(payload))
  <2> DEFINE none == <<>>
  <2>1. none \in Seq(Bytes) /\ none = none \o none /\ Len(none) = 0
    OBVIOUS
  <2>2. Chunks(data, none, 0, 0)
    <3>1. 0 \in 0 .. Len(data)
      BY <1>2
    <3> QED
      BY <1>2, <3>1, NoChunks
  <2>3. Remains(Sender, none)
    BY <1>2 DEF Remains, Sender
  <2>4. Sender.data = data /\ Sender.sent = 0
    BY <1>2 DEF Sender
  <2>5. input = none /\ payload = none
    BY <1>2
  <2> HIDE DEF none
  <2>6. Arrives(Sender, none, 0)
    BY <2>1, <2>2, <2>3, <2>4 DEF Arrives
  <2> QED
    BY <2>1, <2>5, <2>6
<1> QED
  BY <1>2, <1>4, <1>5 DEF InStep, AtHeader, AtData, AtEnd, AtRest, HasRead

\* The client's steps, as one.
LEMMA ClientStep ==
    ASSUME TypeOK, Client
    PROVE  /\ client = "sending"
           /\ UNCHANGED <<data, last, at, broken, readVars, sendVars>>
           /\ \E t \in Seq(Bytes) :
                 input' = input \o t /\ Added(Sender, Sender', t)
<1>1. /\ Sender.data = data /\ Sender.last = last /\ Sender.sent = sent
      /\ Sender.client = client
      /\ Sender'.data = data' /\ Sender'.last = last' /\ Sender'.sent = sent'
      /\ Sender'.client = client'
  BY DEF Sender
<1>2. CASE ClientSendsChunk
  <2>1. PICK n \in Unsent, x \in Extensions :
           input' = input \o ClientChunk(n, x) /\ sent' = sent + n
    BY <1>2 DEF ClientSendsChunk
  <2>2. /\ client = "sending" /\ client' = "sending"
        /\ UNCHANGED <<data, last, at, broken, readVars, sendVars>>
    BY <1>2 DEF ClientSendsChunk
  <2>3. ClientChunk(n, x) \in Seq(Bytes) /\ n \in 1 .. (Len(data) - sent)
    BY ClientBytes DEF Unsent
  <2>4. ClientChunk(n, x) = ChunkAt(data, sent, n, x)
    BY DEF ClientChunk, ChunkAt
  <2>5. Added(Sender, Sender', ClientChunk(n, x))
    BY <1>1, <2>1, <2>2, <2>3, <2>4 DEF Added
  <2> QED
    BY <2>1, <2>2, <2>3, <2>5
<1>3. ClientEnd = EndOf(last)
  BY DEF ClientEnd, EndOf, EndMark
<1>4. CASE ClientEnds
  <2>1. /\ client = "sending" /\ client' = "done" /\ sent = Len(data)
        /\ sent' = sent /\ input' = input \o ClientEnd
        /\ UNCHANGED <<data, last, at, broken, readVars, sendVars>>
    BY <1>4 DEF ClientEnds
  <2>2. Remains(Sender', ClientEnd)
    BY <1>1, <1>3, <2>1 DEF Remains
  <2>3. Added(Sender, Sender', ClientEnd)
    BY <1>1, <2>1, <2>2 DEF Added
  <2> QED
    BY <2>1, <2>3, ClientBytes
<1>5. CASE ClientGoes
  <2>1. /\ client = "sending" /\ client' = "gone" /\ sent' = sent
        /\ UNCHANGED <<data, last, at, broken, readVars, sendVars>>
    BY <1>5 DEF ClientGoes
  <2>2. ASSUME NEW bytes \in Seq(Bytes), SendsPartOf(bytes)
        PROVE  \E t \in Seq(Bytes) : input' = input \o t /\ Cut(t, bytes)
    <3>1. PICK n \in 0 .. (Len(bytes) - 1) :
             input' = input \o SubSeq(bytes, 1, n)
      BY <2>2 DEF SendsPartOf
    <3> DEFINE t == SubSeq(bytes, 1, n)
    <3>2. /\ t \in Seq(Bytes) /\ Len(t) = n
          /\ \A i \in 1 .. n : t[i] = bytes[i]
      OBVIOUS
    <3> HIDE DEF t
    <3>3. Cut(t, bytes)
      BY <3>2 DEF Cut
    <3> QED
      BY <3>1, <3>2, <3>3 DEF t
  <2>3. ASSUME NEW n \in Unsent, NEW x \in Extensions,
               SendsPartOf(ClientChunk(n, x))
        PROVE  \E t \in Seq(Bytes) :
                  input' = input \o t /\ Added(Sender, Sender', t)
    <3>1. PICK t \in Seq(Bytes) :
             input' = input \o t /\ Cut(t, ClientChunk(n, x))
      BY <2>2, <2>3, ClientBytes
    <3>2. /\ ClientChunk(n, x) = ChunkAt(data, sent, n, x)
          /\ n \in 1 .. (Len(data) - sent)
      BY DEF ClientChunk, ChunkAt, Unsent
    <3>3. Remains(Sender', t)
      BY <1>1, <2>1, <3>1, <3>2 DEF Remains
    <3>4. Added(Sender, Sender', t)
      BY <1>1, <2>1, <3>3 DEF Added
    <3> QED
      BY <3>1, <3>4
  <2>4. ASSUME sent = Len(data), SendsPartOf(ClientEnd)
        PROVE  \E t \in Seq(Bytes) :
                  input' = input \o t /\ Added(Sender, Sender', t)
    <3>1. PICK t \in Seq(Bytes) : input' = input \o t /\ Cut(t, ClientEnd)
      BY <2>2, <2>4, ClientBytes
    <3>2. Remains(Sender', t)
      BY <1>1, <1>3, <2>1, <2>4, <3>1 DEF Remains
    <3>3. Added(Sender, Sender', t)
      BY <1>1, <2>1, <3>2 DEF Added
    <3> QED
      BY <3>1, <3>3
  <2> QED
    BY <1>5, <2>1, <2>3, <2>4 DEF ClientGoes
<1> QED
  BY <1>2, <1>4, <1>5 DEF Client

LEMMA ClientKeepsStep ==
    ASSUME ReadInv, TypeOK', Client
    PROVE  Gathering' /\ InStep'
<1>1. /\ client = "sending" /\ data' = data /\ last' = last /\ at' = at
      /\ broken' = broken /\ size' = size /\ mark' = mark /\ chunk' = chunk
      /\ payload' = payload
  BY ClientStep DEF ReadInv, readVars
<1>2. PICK t \in Seq(Bytes) : input' = input \o t /\ Added(Sender, Sender', t)
  BY ClientStep DEF ReadInv
<1>3. Sender \in Senders /\ Sender' \in Senders /\ Sender.client = "sending"
  <2>1. (Sender \in Senders)'
    BY DEF TypeOK, Sender, Senders
  <2> QED
    BY <1>1, <2>1, SenderType DEF ReadInv, Sender
<1>4. /\ input \in Seq(Bytes) /\ data \in Seq(Bytes)
      /\ payload \in Seq(Bytes) /\ chunk \in Seq(Bytes) /\ size \in Nat
      /\ CRLF \in Seq(Bytes)
  BY BytesAre DEF ReadInv, TypeOK
<1>5. Gathering'
  BY <1>1 DEF ReadInv, Gathering
<1>6. ASSUME ~broken
      PROVE  (AtHeader /\ AtData /\ AtEnd /\ AtRest)'
  <2>1. AtHeader /\ AtData /\ AtEnd /\ AtRest
    BY <1>6 DEF ReadInv, InStep
  <2>2. AtHeader'
    <3>1. ASSUME at = "header"
          PROVE  Arrives(Sender', input', Len(payload'))
      <4>1. Arrives(Sender, input, Len(payload))
        BY <2>1, <3>1 DEF AtHeader
      <4> QED
        BY <1>1, <1>2, <1>3, <1>4, <4>1, ArrivesMore
    <3> QED
      BY <1>1, <3>1 DEF AtHeader
  <2>3. AtData'
    <3> DEFINE need == Between(data, Len(payload) + Len(chunk),
                               Len(payload) + size) \o CRLF
    <3>1. ASSUME at = "data"
          PROVE  /\ Len(chunk) < size /\ Len(payload) + size <= Len(data)
                 /\ Coming(Sender', input', need, Len(payload) + size)
      <4>1. /\ Len(chunk) < size /\ Len(payload) + size <= Len(data)
            /\ Coming(Sender, input, need, Len(payload) + size)
        BY <2>1, <3>1 DEF AtData
      <4>2. need \in Seq(Bytes)
        <5> DEFINE i == Len(payload) + Len(chunk)
                   j == Len(payload) + size
        <5>1. i \in Nat /\ j \in Nat /\ i <= j /\ j <= Len(data)
          BY <1>4, <4>1
        <5> HIDE DEF i, j
        <5> QED
          BY <1>4, <5>1, BetweenType, LineEndAdded DEF i, j
      <4> HIDE DEF need
      <4> QED
        BY <1>2, <1>3, <1>4, <4>1, <4>2, ComesMore
    <3> QED
      BY <1>1, <3>1 DEF AtData
  <2>4. AtEnd'
    <3>1. ASSUME at = "end"
          PROVE  /\ size > 0 /\ Len(chunk) = size
                 /\ Coming(Sender', input', CRLF, Len(payload) + size)
      <4>1. /\ size > 0 /\ Len(chunk) = size
            /\ Coming(Sender, input, CRLF, Len(payload) + size)
        BY <1>3, <2>1, <3>1 DEF AtEnd, Ending
      <4> QED
        BY <1>2, <1>3, <1>4, <4>1, ComesMore
    <3> QED
      BY <1>1, <3>1 DEF AtEnd
  <2>5. AtRest'
    <3>1. ~HasRead
      BY <1>1, <2>1 DEF AtRest
    <3> QED
      BY <1>1, <3>1 DEF AtRest, HasRead
  <2> QED
    BY <2>2, <2>3, <2>4, <2>5
<1> QED
  BY <1>1, <1>5, <1>6 DEF InStep

LEMMA HeaderKeepsStep ==
    ASSUME ReadInv, TypeOK', ReadHeader
    PROVE  Gathering' /\ InStep'
<1>1. /\ at = "header" /\ data' = data /\ last' = last /\ sent' = sent
      /\ client' = client /\ payload' = payload /\ Sender' = Sender
  BY DEF ReadHeader, clientVars, Sender
<1>2. /\ chunk' = <<>> /\ size' \in Nat /\ mark' \in BOOLEAN
      /\ at' = IF size' > 0 THEN "data" ELSE "end"
  BY DEF ReadHeader, Header, TypeOK
<1>3. /\ input \in Seq(Bytes) /\ data \in Seq(Bytes) /\ payload \in Seq(Bytes)
      /\ Len(payload) \in 0 .. Len(data) /\ Len(data) <= MaxData
      /\ last \in BOOLEAN
  BY DEF ReadInv, TypeOK, Gathering
<1>4. Len(chunk') = 0 /\ Len(payload) + 0 = Len(payload)
  BY <1>2, <1>3
<1>5. Gathering'
  <2>1. Between(data, Len(payload), Len(payload)) = <<>>
    BY <1>3, NothingBetween
  <2>2. /\ Len(payload') + Len(chunk') <= Len(data')
        /\ chunk' = Between(data', Len(payload'), Len(payload') + Len(chunk'))
    BY <1>1, <1>2, <1>3, <1>4, <2>1
  <2> QED
    BY <1>1, <2>2 DEF ReadInv, Gathering
<1>6. ASSUME ~broken'
      PROVE  (AtHeader /\ AtData /\ AtEnd /\ AtRest)'
  <2>1. PICK i \in DOMAIN input :
           /\ FirstLineEnds(i) /\ Header(SubSeq(input, 1, i - 1))
           /\ input' = SubSeq(input, i + 2, Len(input))
    BY <1>6 DEF ReadHeader
  <2>2. ~broken
    BY <1>6 DEF ReadHeader
  <2>3. Arrives(Sender, input, Len(payload))
    BY <1>1, <2>2 DEF ReadInv, InStep, AtHeader
  <2> DEFINE line == SubSeq(input, 1, i - 1)
  <2>4. size' = Value(line) /\ mark' = (Ieof \in ToSet(line))
    BY <2>1 DEF Header
  <2>5. Sender \in Senders /\ Sender.data = data /\ Sender.last = last
    BY SenderType DEF ReadInv, Sender
  <2> HIDE DEF line
  <2>6. \/ /\ Value(line) \in 1 .. (Len(data) - Len(payload))
           /\ Coming(Sender, input',
                     Between(data, Len(payload), Len(payload) + Value(line))
                        \o CRLF,
                     Len(payload) + Value(line))
        \/ /\ Value(line) = 0 /\ Len(payload) = Len(data)
           /\ last <=> Ieof \in ToSet(line)
           /\ Ending(Sender, input', CRLF)
    BY <1>3, <2>1, <2>3, <2>5, HeaderOf DEF line
  <2>7. CASE /\ Value(line) \in 1 .. (Len(data) - Len(payload))
             /\ Coming(Sender, input',
                     Between(data, Len(payload), Len(payload) + Value(line))
                        \o CRLF,
                     Len(payload) + Value(line))
    <3>1. size' > 0 /\ at' = "data" /\ Len(payload) + size' <= Len(data)
      BY <1>2, <1>3, <2>4, <2>7
    <3>2. Coming(Sender, input',
                 Between(data, Len(payload) + Len(chunk'), Len(payload) + size')
                    \o CRLF,
                 Len(payload) + size')
      BY <1>4, <2>4, <2>7
    <3>3. AtData'
      BY <1>1, <1>4, <3>1, <3>2 DEF AtData
    <3> QED
      BY <3>1, <3>3 DEF AtHeader, AtEnd, AtRest, HasRead
  <2>8. CASE /\ Value(line) = 0 /\ Len(payload) = Len(data)
             /\ last <=> Ieof \in ToSet(line)
             /\ Ending(Sender, input', CRLF)
    <3>1. size' = 0 /\ at' = "end"
      BY <1>2, <2>4, <2>8
    <3>2. mark' = last
      BY <1>2, <1>3, <2>4, <2>8
    <3>3. AtEnd'
      BY <1>1, <2>8, <3>1, <3>2 DEF AtEnd
    <3> QED
      BY <3>1, <3>3 DEF AtHeader, AtData, AtRest, HasRead
  <2> QED
    BY <2>6, <2>7, <2>8
<1> QED
  BY <1>5, <1>6 DEF InStep

LEMMA DataKeepsStep ==
    ASSUME ReadInv, TypeOK', ReadData
    PROVE  Gathering' /\ InStep'
<1> DEFINE p == Len(payload)
           q == Len(payload) + Len(chunk)
           r == Len(payload) + size
<1>1. /\ at = "data" /\ data' = data /\ last' = last /\ sent' = sent
      /\ client' = client /\ payload' = payload /\ Sender' = Sender
      /\ size' = size /\ mark' = mark
  BY DEF ReadData, clientVars, Sender
<1>2. /\ input \in Seq(Bytes) /\ data \in Seq(Bytes) /\ payload \in Seq(Bytes)
      /\ chunk \in Seq(Bytes) /\ Len(chunk) <= size /\ size \in Nat
      /\ p \in Nat /\ q \in Nat /\ r \in Nat /\ Len(chunk) \in Nat
      /\ Len(input) \in Nat /\ Len(data) \in Nat
  BY DEF ReadInv, TypeOK
<1>3. q <= Len(data) /\ chunk = Between(data, p, q)
  BY <1>1 DEF ReadInv, Gathering
<1>4. CASE /\ ~broken /\ Len(input) >= Wanted
           /\ chunk' = chunk \o SubSeq(input, 1, Wanted)
           /\ input' = SubSeq(input, Wanted + 1, Len(input))
           /\ at' = (IF IsRead(chunk') THEN "end" ELSE "data")
           /\ UNCHANGED broken
  <2>1. /\ Len(chunk) < size /\ r <= Len(data)
        /\ Coming(Sender, input, Between(data, q, r) \o CRLF, r)
    BY <1>1, <1>4 DEF ReadInv, InStep, AtData
  <2> DEFINE w == q + Wanted
             part == Between(data, q, w)
             rest == Between(data, w, r) \o CRLF
  <2>2. Wanted \in Nat /\ Wanted >= 1 /\ w \in Nat /\ q <= w /\ w <= r
    <3>1. Wanted \in Nat /\ Wanted >= 1 /\ Wanted <= size - Len(chunk)
      BY <1>2, <2>1, ChunkedAssumption DEF Wanted, Lower
    <3> QED
      BY <1>2, <3>1
  <2> HIDE DEF q, r, w
  <2>3. part \in Seq(Bytes) /\ Len(part) = Wanted
    <3>1. w <= Len(data) /\ w - q = Wanted
      BY <1>2, <2>1, <2>2 DEF w
    <3> QED
      BY <1>2, <2>2, <3>1, BetweenType
  <2>4. rest \in Seq(Bytes) /\ Between(data, w, r) \in Seq(Bytes)
    BY <1>2, <2>1, <2>2, BetweenType, LineEndAdded
  <2>5. Between(data, q, r) \o CRLF = part \o rest
    <3>1. Between(data, q, r) = part \o Between(data, w, r)
      BY <1>2, <2>1, <2>2, BetweenJoined
    <3> DEFINE b == Between(data, w, r)
    <3>2. b \in Seq(Bytes) /\ CRLF \in Seq(Bytes)
      BY <2>4, BytesAre
    <3> HIDE DEF b, part
    <3>3. (part \o b) \o CRLF = part \o (b \o CRLF)
      BY <2>3, <3>2, Associative
    <3> QED
      BY <3>1, <3>3 DEF b
  <2> HIDE DEF part, rest
  <2>6. /\ SubSeq(input, 1, Wanted) = part
        /\ Coming(Sender, input', rest, r)
    <3>1. Coming(Sender, input, part \o rest, r) /\ Len(input) >= Len(part)
      BY <1>4, <2>1, <2>3, <2>5
    <3>2. /\ SubSeq(input, 1, Len(part)) = part
          /\ Coming(Sender, SubSeq(input, Len(part) + 1, Len(input)), rest, r)
      BY <1>2, <2>3, <2>4, <3>1, ComesOff
    <3> QED
      BY <1>4, <2>3, <3>2
  <2>7. chunk' = Between(data, p, w)
    <3>1. w <= Len(data) /\ p <= q
      BY <1>2, <2>1, <2>2 DEF q
    <3>2. Between(data, p, q) \o Between(data, q, w) = Between(data, p, w)
      BY <1>2, <2>2, <3>1, BetweenJoined
    <3> QED
      BY <1>3, <1>4, <2>6, <3>2 DEF part
  <2>8. Len(chunk') = w - p
    <3>1. w <= Len(data) /\ p <= w
      BY <1>2, <2>1, <2>2 DEF q
    <3> QED
      BY <1>2, <2>2, <2>7, <3>1, BetweenType
  <2>9. Len(payload') + Len(chunk') = w /\ Len(payload') = p
    BY <1>1, <1>2, <2>2, <2>8
  <2>10. Gathering'
    <3>1. w <= Len(data)
      BY <1>2, <2>1, <2>2
    <3> HIDE DEF p
    <3>2. /\ Len(payload') + Len(chunk') <= Len(data')
          /\ chunk' = Between(data', Len(payload'),
                              Len(payload') + Len(chunk'))
      BY <1>1, <2>7, <2>9, <3>1
    <3> QED
      BY <1>1, <3>2 DEF ReadInv, Gathering
  <2>11. CASE Len(chunk') = size
    <3>1. w = r
      <4>1. w - p = size /\ p \in Nat /\ w \in Nat /\ size \in Nat
        BY <1>2, <2>2, <2>8, <2>11
      <4>2. r = p + size
        BY DEF r
      <4> HIDE DEF p
      <4> QED
        BY <4>1, <4>2
    <3>2. at' = "end"
      BY <1>4, <2>11 DEF IsRead
    <3>3. rest = CRLF
      <4>1. Between(data, w, r) = <<>>
        <5>1. r \in 0 .. Len(data)
          BY <1>2, <2>1
        <5> QED
          BY <1>2, <3>1, <5>1, NothingBetween
      <4> DEFINE e == CRLF
      <4>2. e \in Seq(Bytes)
        BY BytesAre
      <4>3. rest = <<>> \o e
        BY <4>1 DEF rest
      <4> HIDE DEF e
      <4>4. rest = e
        BY <4>2, <4>3, ConcatEmptySeq
      <4> QED
        BY <4>4 DEF e
    <3>4. size > 0
      BY <1>2, <2>1
    <3>5. AtEnd'
      BY <1>1, <2>6, <2>11, <3>2, <3>3, <3>4 DEF AtEnd, r
    <3> QED
      BY <2>10, <3>2, <3>5
         DEF InStep, AtHeader, AtData, AtRest, HasRead
  <2>12. CASE Len(chunk') # size
    <3>1. at' = "data" /\ Len(chunk') < size
      <4>1. at' = "data"
        BY <1>4, <2>12 DEF IsRead
      <4>2. w - p <= size
        BY <1>2, <2>2 DEF r
      <4>3. Len(chunk') <= size /\ Len(chunk') \in Int
        <5> HIDE DEF p
        <5> QED
          BY <1>2, <2>2, <2>8, <4>2
      <4> QED
        BY <1>2, <2>12, <4>1, <4>3
    <3>2. Coming(Sender', input',
                 Between(data', Len(payload') + Len(chunk'),
                         Len(payload') + size') \o CRLF,
                 Len(payload') + size')
      BY <1>1, <2>6, <2>9 DEF rest, r
    <3>3. AtData'
      BY <1>1, <2>1, <3>1, <3>2 DEF AtData, r
    <3> QED
      BY <2>10, <3>1, <3>3
         DEF InStep, AtHeader, AtEnd, AtRest, HasRead
  <2> QED
    BY <2>11, <2>12
<1>5. CASE broken' = TRUE /\ at' = "end" /\ UNCHANGED chunk
  BY <1>1, <1>5 DEF ReadInv, Gathering, InStep
<1> QED
  BY <1>4, <1>5 DEF ReadData

LEMMA EndKeepsStep ==
    ASSUME ReadInv, TypeOK', ReadEnd
    PROVE  Gathering' /\ InStep'
<1> DEFINE p == Len(payload)
           q == Len(payload) + Len(chunk)
<1>1. /\ at = "end" /\ data' = data /\ last' = last /\ sent' = sent
      /\ client' = client /\ Sender' = Sender
      /\ size' = size /\ mark' = mark /\ chunk' = chunk
      /\ payload' = payload \o chunk
      /\ at' \in {"header", "modify"}
  BY DEF ReadEnd, clientVars, Sender, Gathered
<1>2. /\ input \in Seq(Bytes) /\ data \in Seq(Bytes) /\ payload \in Seq(Bytes)
      /\ chunk \in Seq(Bytes) /\ Len(chunk) <= size /\ size \in Nat
      /\ p \in Nat /\ q \in Nat /\ Len(chunk) \in Nat
      /\ Len(input) \in Nat /\ Len(data) \in Nat
  BY DEF ReadInv, TypeOK
<1>3. /\ q <= Len(data) /\ chunk = Between(data, p, q)
      /\ payload = Between(data, 0, p)
  BY <1>1 DEF ReadInv, Gathering
<1>4. payload' = Between(data, 0, q) /\ Len(payload') = q
  <2>1. Between(data, 0, p) \o Between(data, p, q) = Between(data, 0, q)
    <3>1. /\ p <= q /\ 0 <= p /\ 0 \in Nat /\ p \in Nat /\ q \in Nat
          /\ q <= Len(data) /\ data \in Seq(Bytes)
      BY <1>2, <1>3
    <3> HIDE DEF p, q
    <3> QED
      BY <3>1, BetweenJoined
  <2>2. payload' = Between(data, 0, q)
    BY <1>1, <1>3, <2>1
  <2>3. Len(payload') = q
    BY <1>1, <1>2
  <2> QED
    BY <2>2, <2>3
<1>5. Gathering'
  <2>1. /\ Len(payload') <= Len(data')
        /\ payload' = Between(data', 0, Len(payload'))
    BY <1>1, <1>3, <1>4
  <2> QED
    BY <1>1, <2>1 DEF ReadInv, Gathering
<1>6. ASSUME ~broken'
      PROVE  (AtHeader /\ AtData /\ AtEnd /\ AtRest)'
  <2>1. ~broken /\ Len(input) >= 2 /\ input' = SubSeq(input, 3, Len(input))
    BY <1>6 DEF ReadEnd
  <2>2. CRLF \in Seq(Bytes) /\ Len(CRLF) = 2
    BY BytesAre
  <2>3. CASE /\ size > 0 /\ Len(chunk) = size
             /\ Coming(Sender, input, CRLF, p + size)
    <3>1. at' = "header"
      BY <2>3 DEF ReadEnd, MoreChunks
    <3>2. Arrives(Sender, input', p + size)
      <4> DEFINE e == CRLF
      <4>1. e \in Seq(Bytes) /\ Len(e) = 2 /\ Coming(Sender, input, e, p + size)
        BY <2>2, <2>3
      <4> HIDE DEF e, p
      <4>2. Arrives(Sender, SubSeq(input, Len(e) + 1, Len(input)), p + size)
        BY <1>2, <2>1, <4>1, ComesAll
      <4>3. Len(e) + 1 = 3
        BY <4>1
      <4> QED
        BY <2>1, <4>2, <4>3
    <3>3. AtHeader'
      BY <1>1, <1>4, <2>3, <3>2 DEF AtHeader
    <3> QED
      BY <3>1, <3>3 DEF AtData, AtEnd, AtRest, HasRead
  <2>4. CASE /\ size = 0 /\ p = Len(data) /\ mark = last
             /\ Ending(Sender, input, CRLF)
    <3>1. at' = "modify" /\ ieof' = last
      BY <2>4 DEF ReadEnd, MoreChunks
    <3>2. client = "done" /\ input = CRLF
      BY <2>1, <2>2, <2>4 DEF Ending, Cut, Sender
    <3>3. input' = <<>>
      <4> DEFINE e == CRLF
      <4>1. e \in Seq(Bytes) /\ Len(e) = 2 /\ input = e
        BY <2>2, <3>2
      <4> HIDE DEF e
      <4>2. SubSeq(e, 3, 2) = <<>>
        OBVIOUS
      <4> QED
        BY <2>1, <4>1, <4>2
    <3>4. payload' = data
      <4>1. q = Len(data)
        BY <1>2, <2>4
      <4>2. Between(data, 0, Len(data)) = data
        BY <1>2 DEF Between
      <4> QED
        BY <1>4, <4>1, <4>2
    <3>5. AtRest'
      BY <1>1, <3>1, <3>2, <3>3, <3>4 DEF AtRest
    <3> QED
      BY <3>1, <3>5 DEF AtHeader, AtData, AtEnd
  <2> QED
    BY <1>1, <2>1, <2>3, <2>4 DEF ReadInv, InStep, AtEnd
<1> QED
  BY <1>5, <1>6 DEF InStep

LEMMA ReadStep ==
    ASSUME ReadInv, TypeOK', [Next]_vars
    PROVE  Gathering' /\ InStep'
<1>1. CASE Client
  BY <1>1, ClientKeepsStep
<1>2. CASE Read
  BY <1>2, HeaderKeepsStep, DataKeepsStep, EndKeepsStep DEF Read
<1>3. ASSUME /\ UNCHANGED <<clientVars, input, broken, readVars>>
             /\ at \notin {"header", "data", "end"}
             /\ at' \notin {"header", "data", "end"}
      PROVE  Gathering' /\ InStep'
  <2>1. /\ data' = data /\ last' = last /\ sent' = sent /\ client' = client
        /\ input' = input /\ broken' = broken
        /\ payload' = payload /\ chunk' = chunk /\ ieof' = ieof
    BY <1>3 DEF clientVars, readVars
  <2>2. Gathering'
    BY <1>3, <2>1 DEF ReadInv, Gathering
  <2>3. ~broken => AtRest'
    BY <1>3, <2>1 DEF ReadInv, InStep, AtRest, HasRead
  <2> QED
    BY <1>3, <2>1, <2>2, <2>3 DEF InStep, AtHeader, AtData, AtEnd
<1>4. CASE Send
  BY <1>3, <1>4 DEF Send, StartSending, SendChunk, SendEnd
<1>5. CASE UNCHANGED vars
  <2>1. /\ data' = data /\ last' = last /\ sent' = sent /\ client' = client
        /\ input' = input /\ broken' = broken /\ at' = at /\ size' = size
        /\ mark' = mark /\ payload' = payload /\ chunk' = chunk
        /\ ieof' = ieof /\ Sender' = Sender
    BY <1>5 DEF vars, clientVars, readVars, Sender
  <2>2. Gathering'
    BY <2>1 DEF ReadInv, Gathering
  <2>3. InStep'
    BY <2>1 DEF ReadInv, InStep, AtHeader, AtData, AtEnd, AtRest, HasRead
  <2> QED
    BY <2>2, <2>3
<1> QED
  BY <1>1, <1>2, <1>4, <1>5 DEF Next

LEMMA PayloadIsData ==
    ASSUME TypeOK, Gathering
    PROVE  PayloadIsPrefix /\ AllData
<1> DEFINE p == Len(payload)
<1>1. /\ data \in Seq(Bytes) /\ payload \in Seq(Bytes) /\ p \in Nat
      /\ p <= Len(data) /\ payload = Between(data, 0, p)
  BY DEF TypeOK, Gathering
<1>2. \A i \in 1 .. p : payload[i] = data[i]
  BY <1>1 DEF Between
<1>3. AllData
  <2>1. \A i \in 1 .. p : i \in DOMAIN data
    BY <1>1
  <2>2. DOMAIN payload = 1 .. p
    BY <1>1
  <2>3. \A i \in DOMAIN data : data[i].kind = "data"
    BY DEF Gathering
  <2> HIDE DEF p
  <2> QED
    BY <1>2, <2>1, <2>2, <2>3 DEF AllData
<1>4. PayloadIsPrefix
  <2>1. SubSeq(payload, 1, Len(payload)) = SubSeq(data, 1, Len(payload))
    BY <1>1 DEF Between
  <2> QED
    BY <1>1, <2>1 DEF PayloadIsPrefix, IsPrefix
<1> QED
  BY <1>3, <1>4

LEMMA InStepReads ==
    ASSUME ReadInv
    PROVE  ReadExactly /\ NeverStarves
<1>1. ReadExactly
  BY DEF ReadInv, InStep, AtRest, ReadExactly
<1>2. /\ input \in Seq(Bytes) /\ data \in Seq(Bytes) /\ payload \in Seq(Bytes)
      /\ chunk \in Seq(Bytes) /\ size \in Nat
      /\ Sender \in Senders /\ Sender.client = client
  BY SenderType DEF ReadInv, TypeOK, Sender
<1>3. ASSUME client = "done", ~broken, at = "header"
      PROVE  ~NoLine
  <2>1. Arrives(Sender, input, Len(payload))
    BY <1>3 DEF ReadInv, InStep, AtHeader
  <2> QED
    BY <1>2, <1>3, <2>1, LineThere
<1>4. ASSUME client = "done", ~broken, at = "data"
      PROVE  Len(input) >= Wanted
  <2> DEFINE i == Len(payload) + Len(chunk)
             j == Len(payload) + size
             b == Between(data, i, j)
             need == b \o CRLF
  <2>1. /\ Len(chunk) < size /\ j <= Len(data)
        /\ Coming(Sender, input, need, j)
    BY <1>3, <1>4 DEF ReadInv, InStep, AtData
  <2>2. i \in Nat /\ j \in Nat /\ i <= j /\ j - i = size - Len(chunk)
    BY <1>2, <2>1
  <2> HIDE DEF i, j
  <2>3. b \in Seq(Bytes) /\ Len(b) = size - Len(chunk)
    BY <1>2, <2>1, <2>2, BetweenType
  <2> HIDE DEF b
  <2>4. CRLF \in Seq(Bytes) /\ Len(CRLF) = 2 /\ Sender.client # "gone"
    BY <1>2, <1>4, BytesAre
  <2>5. Len(input) >= Len(b) + Len(CRLF)
    <3> DEFINE e == CRLF
    <3>1. e \in Seq(Bytes) /\ Coming(Sender, input, b \o e, j)
      BY <2>1, <2>4
    <3> HIDE DEF e
    <3>2. Len(input) >= Len(b) + Len(e)
      BY <1>2, <2>3, <2>4, <3>1, Agrees
    <3> QED
      BY <3>2 DEF e
  <2>6. Wanted <= size - Len(chunk)
    BY <1>2, <2>1, ChunkedAssumption DEF Wanted, Lower
  <2>7. Wanted \in Int /\ Len(chunk) \in Nat /\ Len(input) \in Nat
    BY <1>2, ChunkedAssumption DEF Wanted, Lower
  <2> QED
    BY <1>2, <2>3, <2>4, <2>5, <2>6, <2>7
<1>5. ASSUME client = "done", ~broken, at = "end"
      PROVE  Len(input) >= 2
  <2> DEFINE e == CRLF
             none == <<>>
             f == Len(payload) + size
  <2>1. e \in Seq(Bytes) /\ Len(e) = 2 /\ none \in Seq(Bytes) /\ Len(none) = 0
    BY BytesAre
  <2>2. Coming(Sender, input, e, f) \/ Ending(Sender, input, e)
    BY <1>5 DEF ReadInv, InStep, AtEnd
  <2>3. e = e \o none
    <3> HIDE DEF e
    <3> QED
      BY <2>1, ConcatEmptySeq
  <2>4. Sender.client # "gone"
    BY <1>2, <1>5
  <2> HIDE DEF e, none, f
  <2>5. Coming(Sender, input, e \o none, f) \/ Ending(Sender, input, e \o none)
    BY <2>2, <2>3
  <2>6. Len(input) >= Len(e) + Len(none)
    BY <1>2, <2>1, <2>4, <2>5, Agrees
  <2> QED
    BY <2>1, <2>6
<1> QED
  BY <1>1, <1>3, <1>4, <1>5 DEF NeverStarves

-----------------------------------------------------------------------------
(* The theorems.                                                            *)

ChunkedInv == ReadInv /\ SendInv

LEMMA InvInit == Init => ChunkedInv
<1> SUFFICES ASSUME Init PROVE ChunkedInv
  OBVIOUS
<1>1. SendInv
  BY DEF Init, SendInv, Counted, Sent
<1> QED
  BY <1>1, TypeInit, ReadInit DEF ChunkedInv, ReadInv

LEMMA InvStep == ChunkedInv /\ [Next]_vars => ChunkedInv'
<1> SUFFICES ASSUME ChunkedInv, [Next]_vars PROVE ChunkedInv'
  OBVIOUS
<1>1. TypeOK'
  BY TypeStep DEF ChunkedInv, ReadInv
<1>2. Gathering' /\ InStep'
  BY <1>1, ReadStep DEF ChunkedInv
<1>3. AllData
  BY PayloadIsData DEF ChunkedInv, ReadInv
<1>4. Counted' /\ Sent'
  BY <1>3, CountedStep, SentStep DEF ChunkedInv, ReadInv, SendInv
<1> QED
  BY <1>1, <1>2, <1>4 DEF ChunkedInv, ReadInv, SendInv

\* Type correctness: read_data never puts more into a chunk than chunk.size,
\* and send_chunked never takes its offset beyond the payload.
THEOREM TypeCorrect == Spec => []TypeOK
<1>1. ChunkedInv => TypeOK
  BY DEF ChunkedInv, ReadInv
<1> QED
  BY <1>1, InvInit, InvStep, PTL DEF Spec

\* However a client divides its body into chunks, whatever extensions it
\* gives them and wherever the connection stops, what read_chunked_payload has
\* gathered is a beginning of the client's data.
THEOREM PrefixCorrect == Spec => []PayloadIsPrefix
<1>1. ChunkedInv => PayloadIsPrefix
  BY PayloadIsData DEF ChunkedInv, ReadInv
<1> QED
  BY <1>1, InvInit, InvStep, PTL DEF Spec

\* When read_chunked_payload is done and no read has failed, it has the whole
\* body, has taken nothing of what follows it, and knows whether the client
\* marked it with ieof.
THEOREM ExactCorrect == Spec => []ReadExactly
<1>1. ChunkedInv => ReadExactly
  BY InStepReads DEF ChunkedInv
<1> QED
  BY <1>1, InvInit, InvStep, PTL DEF Spec

\* Neither read_line nor read_data nor the read of the two bytes after a chunk
\* waits for more than a client that has sent its body has sent.
THEOREM NeverStarvesCorrect == Spec => []NeverStarves
<1>1. ChunkedInv => NeverStarves
  BY InStepReads DEF ChunkedInv
<1> QED
  BY <1>1, InvInit, InvStep, PTL DEF Spec

\* send_chunked sends a body that fits into one buffer as one chunk and the
\* zero chunk, in the coding that a client expects.
THEOREM SmallCorrect == Spec => []SmallIsSentWhole
<1>1. ChunkedInv => SmallIsSentWhole
  BY SendIsPrefix DEF ChunkedInv, ReadInv
<1> QED
  BY <1>1, InvInit, InvStep, PTL DEF Spec

\* Whatever the size of a body, send_chunked sends the bytes of it in their
\* order and each once, and leaves out less than a buffer at its end.
THEOREM OrderCorrect == Spec => []SentInOrder
<1>1. ChunkedInv => SentInOrder
  BY SendIsPrefix DEF ChunkedInv, ReadInv
<1> QED
  BY <1>1, InvInit, InvStep, PTL DEF Spec
=============================================================================

------------------------- MODULE EncapsulatedProofs --------------------------
(***************************************************************************)
(* Proofs about Encapsulated, for parts of every size: what is cut out of  *)
(* the stream by differences of offsets is what the client put there, and  *)
(* the offsets of a response describe it.                                  *)
(***************************************************************************)
EXTENDS Encapsulated, NaturalsInduction, SequenceTheorems,
        WellFoundedInduction, TLAPS

\* Induction, as the provers can use it: a set of numbers has a least one.
LEMMA Least ==
    ASSUME NEW S \in SUBSET Nat, S # {}
    PROVE  \E n \in S : \A m \in S : n <= m
<1>1. \E n \in S : \A m \in S : ~ (<<m, n>> \in OpToRel(<, Nat))
  BY WFMin, NatLessThanWellFounded
<1>2. PICK n \in S : \A m \in S : ~ (m < n)
  BY <1>1 DEF OpToRel
<1> QED
  BY <1>2

-----------------------------------------------------------------------------
(* The order of the entities: the first and the last of a set.              *)

Offsets == [Entities -> Nat \cup {-1}]

LEMMA Places ==
    /\ Place("null-body") = 1 /\ Place("req-body") = 2 /\ Place("req-hdr") = 3
    /\ Place("res-body") = 4 /\ Place("res-hdr") = 5
<1>1. DOMAIN KeyOrder = 1 .. 5
  BY DEF KeyOrder
<1>2. /\ KeyOrder[1] = "null-body" /\ KeyOrder[2] = "req-body"
      /\ KeyOrder[3] = "req-hdr" /\ KeyOrder[4] = "res-body"
      /\ KeyOrder[5] = "res-hdr"
  BY DEF KeyOrder
<1>3. \A i \in 1 .. 5 : i = 1 \/ i = 2 \/ i = 3 \/ i = 4 \/ i = 5
  OBVIOUS
<1>4. ASSUME NEW e, NEW k \in 1 .. 5, KeyOrder[k] = e,
             \A i \in 1 .. 5 : KeyOrder[i] = e => i = k
      PROVE  Place(e) = k
  BY <1>1, <1>4 DEF Place
<1>5. Place("null-body") = 1
  BY <1>2, <1>3, <1>4
<1>6. Place("req-body") = 2
  BY <1>2, <1>3, <1>4
<1>7. Place("req-hdr") = 3
  BY <1>2, <1>3, <1>4
<1>8. Place("res-body") = 4
  BY <1>2, <1>3, <1>4
<1>9. Place("res-hdr") = 5
  BY <1>2, <1>3, <1>4
<1> QED
  BY <1>5, <1>6, <1>7, <1>8, <1>9

LEMMA PlacesDiffer ==
    /\ \A e \in Entities : Place(e) \in 1 .. 5
    /\ \A a, b \in Entities : Place(a) = Place(b) => a = b
BY Places DEF Entities, Parts, HttpHeaders, Bodies

LEMMA Ordered ==
    ASSUME NEW offsets \in Offsets, NEW a \in Entities, NEW b \in Entities
    PROVE  /\ a # b => Precedes(offsets, a, b) \/ Precedes(offsets, b, a)
           /\ ~ (Precedes(offsets, a, b) /\ Precedes(offsets, b, a))
<1>1. offsets[a] \in Int /\ offsets[b] \in Int
  BY DEF Offsets
<1>2. Place(a) \in Int /\ Place(b) \in Int /\ (Place(a) = Place(b) => a = b)
  BY PlacesDiffer
<1> QED
  BY <1>1, <1>2 DEF Precedes

LEMMA FirstIs ==
    ASSUME NEW offsets \in Offsets, NEW S \in SUBSET Entities, NEW e \in S,
           \A d \in S \ {e} : Precedes(offsets, e, d)
    PROVE  First(offsets, S) = e
<1>1. \A c \in S : (\A d \in S \ {c} : Precedes(offsets, c, d)) => c = e
  BY Ordered
<1> QED
  BY <1>1 DEF First

LEMMA LastIs ==
    ASSUME NEW offsets \in Offsets, NEW S \in SUBSET Entities, NEW e \in S,
           \A d \in S \ {e} : Precedes(offsets, d, e)
    PROVE  Last(offsets, S) = e
<1>1. \A c \in S : (\A d \in S \ {c} : Precedes(offsets, d, c)) => c = e
  BY Ordered
<1> QED
  BY <1>1 DEF Last

LEMMA FirstExists ==
    ASSUME NEW offsets \in Offsets, NEW S \in SUBSET Entities, S # {}
    PROVE  /\ First(offsets, S) \in S
           /\ \A d \in S \ {First(offsets, S)} :
                 Precedes(offsets, First(offsets, S), d)
<1> DEFINE N == {offsets[e] + 1 : e \in S}
<1>1. \A e \in Entities : offsets[e] \in Int /\ offsets[e] >= -1
  BY DEF Offsets
<1>2. N \in SUBSET Nat /\ N # {}
  BY <1>1
<1>3. PICK n \in N : \A k \in N : n <= k
  <2> HIDE DEF N
  <2> QED
    BY <1>2, Least
<1> DEFINE T == {e \in S : offsets[e] + 1 = n}
           K == {Place(e) : e \in T}
<1>4. K \in SUBSET Nat /\ K # {}
  BY <1>3, PlacesDiffer
<1>5. PICK k \in K : \A l \in K : k <= l
  <2> HIDE DEF K
  <2> QED
    BY <1>4, Least
<1>6. PICK e \in T : Place(e) = k
  BY <1>5
<1>7. ASSUME NEW d \in S \ {e} PROVE Precedes(offsets, e, d)
  <2>1. offsets[e] + 1 = n /\ n <= offsets[d] + 1
    BY <1>3, <1>6, <1>7
  <2>2. CASE offsets[d] + 1 = n
    <3>1. k <= Place(d) /\ d # e
      BY <1>5, <1>7, <2>2
    <3>2. Place(e) < Place(d)
      BY <1>6, <3>1, PlacesDiffer
    <3>3. offsets[e] = offsets[d]
      BY <1>1, <2>1, <2>2
    <3> QED
      BY <3>2, <3>3 DEF Precedes
  <2>3. CASE offsets[d] + 1 # n
    <3>1. offsets[e] < offsets[d]
      BY <1>1, <2>1, <2>3
    <3> QED
      BY <3>1 DEF Precedes
  <2> QED
    BY <2>2, <2>3
<1>8. First(offsets, S) = e
  BY <1>6, <1>7, FirstIs
<1> QED
  BY <1>6, <1>7, <1>8

-----------------------------------------------------------------------------
(* The inductive invariant.                                                 *)

Requests == {m \in Messages : HasParts(m) /\ HasPreview(m)}

\* Where the body of a message begins, its bytes, and those of a preview.
BodyAt(m) == m.size["req-hdr"] + m.size["res-hdr"]
Whole(m) == IF m.body \in Bodies THEN m.size[m.body] ELSE 0
Shown(m) == IF m.preview THEN m.shown ELSE Whole(m)

\* The payload when n bytes of the body have been read.
Gathered(m, n) ==
    [p \in Parts |-> IF p \in HttpHeaders THEN Unit(p, m.size[p])
                     ELSE IF p = m.body THEN Unit(p, n) ELSE <<>>]

\* In the loop: what is before the iterator is in the payload, what is not is
\* on the connection, in the order of the offsets.
Read(m, entities) ==
    [p \in Parts |-> IF p \in HttpHeaders /\ p \notin entities
                     THEN Unit(p, m.size[p]) ELSE <<>>]
Unread(m, entities, h) ==
    IF h \in entities THEN Unit(h, m.size[h]) ELSE <<>>
Ending(m) ==
    IF m.body = "null-body" THEN <<>>
    ELSE Unit(m.body, Shown(m)) \o <<IF m.ieof THEN "ieof" ELSE "end">>
InLoop ==
    /\ encaps = Declared(message)
    /\ message.body \in left
    /\ \A a \in Entities \ left, b \in left : Precedes(encaps, a, b)
    /\ payload = Read(message, left)
    /\ stream = (Unread(message, left, "req-hdr")
                   \o Unread(message, left, "res-hdr")) \o Ending(message)
    /\ ieof = FALSE

\* The declared offsets, with the null-body an update may have added: where the
\* body is, or anywhere if the body came without its header.
Placed(m, offsets) ==
    /\ offsets \in [Entities -> Nat \cup {-1}]
    /\ \A h \in HttpHeaders : offsets[h] = Declared(m)[h]
    /\ offsets[m.body] = BodyAt(m)
    /\ \A b \in Bodies \ {m.body} : offsets[b] = -1
    /\ ~BareBodies => offsets["null-body"] \in {-1, BodyAt(m)}

Asked == message.preview /\ ~message.ieof

AtWork ==
    /\ at = "attach" =>
        /\ left = Entities /\ encaps = NoOffsets /\ payload = NoPayload
        /\ ieof = FALSE /\ stream = FirstPart(message)
    /\ at = "read" => InLoop
    /\ at \in {"update", "process"} =>
        /\ payload = Gathered(message, Shown(message))
        /\ ieof = message.ieof /\ stream = <<>>
    /\ at = "rest" =>
        /\ Asked
        /\ payload = Gathered(message, Shown(message))
        /\ stream = IF MoreToCome THEN SecondPart(message) ELSE <<>>
    /\ at = "modify" =>
        /\ payload \in {Gathered(message, Shown(message)),
                        Gathered(message, Whole(message))}
        /\ ~BareBodies =>
            payload = Gathered(message, Whole(message)) /\ stream = <<>>
    /\ at \notin {"attach", "read"} => Placed(message, encaps)
    /\ at # "answered" => output = <<>>
    /\ at = "answered" /\ ~BareBodies => Describes(list, output)

EncapsulatedInv == TypeOK /\ message \in Requests /\ AtWork

-----------------------------------------------------------------------------
(* What a client sends and declares.                                        *)

LEMMA Sizes ==
    ASSUME NEW m \in Requests
    PROVE  /\ \A p \in Parts : m.size[p] \in Nat
           /\ m.body \in Bodies \cup {"null-body"}
           /\ m.preview \in BOOLEAN /\ m.ieof \in BOOLEAN /\ m.shown \in Nat
           /\ m.body \in Bodies => m.shown <= m.size[m.body]
           /\ m.ieof => m.preview /\ m.body \in Bodies
                          /\ m.shown = m.size[m.body]
           /\ \A p \in Bodies \ {m.body} : m.size[p] = 0
<1>1. m \in Messages /\ HasParts(m) /\ HasPreview(m)
  BY DEF Requests
<1>2. m.size \in [Parts -> 0 .. MaxSize] /\ m.shown \in 0 .. MaxSize
  BY <1>1 DEF Messages
<1>3. \A p \in Parts : m.size[p] \in Nat
  BY <1>2, EncapsulatedAssumption
<1>4. m.body \in Bodies \cup {"null-body"} /\ m.shown \in Nat
      /\ m.preview \in BOOLEAN /\ m.ieof \in BOOLEAN
  BY <1>1, <1>2, EncapsulatedAssumption DEF Messages
<1>5. m.body \in Bodies => m.size[m.body] \in Nat
  BY <1>3 DEF Parts
<1>6. m.body \in Bodies => m.shown <= m.size[m.body]
  BY <1>1, <1>4, <1>5 DEF HasPreview
<1>7. m.ieof => m.preview /\ m.body \in Bodies /\ m.shown = m.size[m.body]
  BY <1>1 DEF HasPreview
<1>8. \A p \in Bodies \ {m.body} : m.size[p] = 0
  BY <1>1 DEF HasParts
<1> QED
  BY <1>3, <1>4, <1>6, <1>7, <1>8

LEMMA Sides ==
    ASSUME NEW m \in Requests
    PROVE  /\ m.method = "REQMOD" =>
                m.size["res-hdr"] = 0 /\ m.body \in {"req-body", "null-body"}
           /\ m.method # "REQMOD" => m.body \in {"res-body", "null-body"}
           /\ m.body \in Bodies /\ ~BareBodies => m.size[HeaderOf[m.body]] > 0
<1>1. HasParts(m)
  BY DEF Requests
<1> QED
  BY <1>1 DEF HasParts

LEMMA BodyAtType ==
    ASSUME NEW m \in Requests
    PROVE  /\ BodyAt(m) \in Nat /\ Whole(m) \in Nat /\ Shown(m) \in Nat
           /\ Shown(m) <= Whole(m)
           /\ Whole(m) > 0 /\ ~BareBodies => BodyAt(m) > 0
           /\ m.ieof => Shown(m) = Whole(m)
<1>1. /\ m.size["req-hdr"] \in Nat /\ m.size["res-hdr"] \in Nat
      /\ m.size["req-body"] \in Nat /\ m.size["res-body"] \in Nat
  BY Sizes DEF Parts, HttpHeaders, Bodies
<1>2. BodyAt(m) \in Nat
  BY <1>1 DEF BodyAt
<1>3. Whole(m) \in Nat
  BY <1>1, Sizes DEF Whole, Bodies
<1>4. m.preview => Shown(m) = m.shown
  BY DEF Shown
<1>5. ~m.preview => Shown(m) = Whole(m)
  BY DEF Shown
<1>6. CASE m.body \in Bodies
  <2>1. Whole(m) = m.size[m.body]
    BY <1>6 DEF Whole
  <2>2. Shown(m) \in Nat /\ Shown(m) <= Whole(m)
    BY <2>1, <1>3, <1>4, <1>5, <1>6, Sizes
  <2>3. ~BareBodies => BodyAt(m) > 0
    <3>1. m.body = "req-body" \/ m.body = "res-body"
      BY <1>6 DEF Bodies
    <3>2. m.body = "req-body" => HeaderOf[m.body] = "req-hdr"
      BY <1>6 DEF HeaderOf
    <3>3. m.body = "res-body" => HeaderOf[m.body] = "res-hdr"
      BY <1>6 DEF HeaderOf
    <3> QED
      BY <3>1, <3>2, <3>3, <1>1, <1>6, Sides DEF BodyAt
  <2> QED
    BY <2>1, <2>2, <2>3, <1>2, <1>3, <1>4, Sizes
<1>7. CASE m.body \notin Bodies
  BY <1>2, <1>3, <1>4, <1>5, <1>7, Sizes DEF Whole, Shown, Requests, HasPreview
<1> QED
  BY <1>6, <1>7

LEMMA DeclaredAs ==
    ASSUME NEW m \in Requests
    PROVE  /\ Declared(m) \in Offsets
           /\ Declared(m)["req-hdr"] = IF m.size["req-hdr"] > 0 THEN 0 ELSE -1
           /\ Declared(m)["res-hdr"] =
                IF m.size["res-hdr"] > 0 THEN m.size["req-hdr"] ELSE -1
           /\ Declared(m)[m.body] = BodyAt(m)
           /\ \A b \in Bodies \cup {"null-body"} :
                b # m.body => Declared(m)[b] = -1
<1>1. /\ m.size["req-hdr"] \in Nat /\ m.size["res-hdr"] \in Nat
      /\ m.size["req-body"] \in Nat /\ m.size["res-body"] \in Nat
  BY Sizes DEF Parts, HttpHeaders, Bodies
<1>2. m.body \in Bodies \cup {"null-body"}
  BY Sizes
<1>3. m.body # "req-body" => m.size["req-body"] = 0
  BY Sizes DEF Bodies
<1>4. m.body = "req-body" => m.size["res-hdr"] = 0
  BY Sides
<1>5. Declared(m)["req-hdr"] = IF m.size["req-hdr"] > 0 THEN 0 ELSE -1
  BY <1>1, <1>2 DEF Declared, Ahead, Entities, Parts, HttpHeaders, Bodies
<1>6. Declared(m)["res-hdr"] =
        IF m.size["res-hdr"] > 0 THEN m.size["req-hdr"] ELSE -1
  BY <1>1, <1>2, <1>3, <1>4
  DEF Declared, Ahead, Entities, Parts, HttpHeaders, Bodies
<1>7. Declared(m)[m.body] = BodyAt(m)
  BY <1>1, <1>2, <1>3, <1>4
  DEF Declared, Ahead, BodyAt, Entities, Parts, HttpHeaders, Bodies
<1>8. \A b \in Bodies \cup {"null-body"} : b # m.body => Declared(m)[b] = -1
  BY <1>2 DEF Declared, Entities, Parts, HttpHeaders, Bodies
<1>9. \A e \in Entities : Declared(m)[e] \in Nat \cup {-1}
  <2>1. ASSUME NEW e \in Entities
        PROVE  e \in HttpHeaders \/ e \in Bodies \cup {"null-body"}
    BY DEF Entities, Parts
  <2>2. \A e \in HttpHeaders : Declared(m)[e] \in Nat \cup {-1}
    BY <1>1, <1>5, <1>6 DEF HttpHeaders
  <2>3. \A b \in Bodies \cup {"null-body"} : Declared(m)[b] \in Nat \cup {-1}
    BY <1>7, <1>8, BodyAtType
  <2> QED
    BY <2>1, <2>2, <2>3
<1>10. Declared(m) \in Offsets
  BY <1>9 DEF Declared, Offsets
<1> QED
  BY <1>5, <1>6, <1>7, <1>8, <1>10

\* The body comes after everything else.
LEMMA BodyIsLast ==
    ASSUME NEW m \in Requests, NEW e \in Entities, e # m.body
    PROVE  Declared(m)[e] < BodyAt(m)
<1>1. m.size["req-hdr"] \in Nat /\ m.size["res-hdr"] \in Nat
  BY Sizes DEF Parts, HttpHeaders
<1>2. e = "req-hdr" \/ e = "res-hdr" \/ e \in Bodies \cup {"null-body"}
  BY DEF Entities, Parts, HttpHeaders
<1>3. e \in Bodies \cup {"null-body"} => Declared(m)[e] = -1
  BY DeclaredAs
<1>4. e = "req-hdr" => Declared(m)[e] < BodyAt(m)
  BY <1>1, DeclaredAs DEF BodyAt
<1>5. e = "res-hdr" => Declared(m)[e] < BodyAt(m)
  BY <1>1, DeclaredAs DEF BodyAt
<1> QED
  BY <1>2, <1>3, <1>4, <1>5, BodyAtType

-----------------------------------------------------------------------------
(* Units of a part, one after the other, and how they are cut again.        *)

Units == Parts \cup {"end", "ieof"}

LEMMA UnitIs ==
    ASSUME NEW p, NEW n \in Nat
    PROVE  /\ Unit(p, n) \in Seq({p}) /\ Len(Unit(p, n)) = n
           /\ \A i \in 1 .. n : Unit(p, n)[i] = p
           /\ n = 0 => Unit(p, n) = <<>>
           /\ n > 0 => Unit(p, n) # <<>>
<1>1. Unit(p, n) \in Seq({p}) /\ Len(Unit(p, n)) = n
  BY DEF Unit
<1>2. \A i \in 1 .. n : Unit(p, n)[i] = p
  BY DEF Unit
<1>3. n = 0 => Unit(p, n) = <<>>
  BY <1>1
<1>4. n > 0 => Unit(p, n) # <<>>
  BY <1>1
<1> QED
  BY <1>1, <1>2, <1>3, <1>4

LEMMA Larger ==
    ASSUME NEW S, NEW T, S \subseteq T, NEW s \in Seq(S)
    PROVE  s \in Seq(T)
OBVIOUS

LEMMA UnitType ==
    ASSUME NEW p \in Parts, NEW n \in Nat
    PROVE  Unit(p, n) \in Seq(Parts) /\ Unit(p, n) \in Seq(Units)
<1>1. Unit(p, n) \in Seq({p}) /\ {p} \subseteq Parts /\ {p} \subseteq Units
  BY UnitIs DEF Units
<1> QED
  BY <1>1, Larger

LEMMA UnitMore ==
    ASSUME NEW p, NEW a \in Nat, NEW b \in Nat
    PROVE  Unit(p, a) \o Unit(p, b) = Unit(p, a + b)
<1> DEFINE s == Unit(p, a)  t == Unit(p, b)  u == Unit(p, a + b)
<1>1. s \in Seq({p}) /\ Len(s) = a /\ \A i \in 1 .. a : s[i] = p
  BY UnitIs
<1>2. t \in Seq({p}) /\ Len(t) = b /\ \A i \in 1 .. b : t[i] = p
  BY UnitIs
<1>3. u \in Seq({p}) /\ Len(u) = a + b /\ \A i \in 1 .. (a + b) : u[i] = p
  <2>1. a + b \in Nat
    OBVIOUS
  <2> QED
    BY <2>1, UnitIs
<1> HIDE DEF s, t, u
<1>4. s \o t \in Seq({p}) /\ Len(s \o t) = a + b
  BY <1>1, <1>2
<1>5. \A i \in 1 .. (a + b) : (s \o t)[i] = u[i]
  BY <1>1, <1>2, <1>3
<1>6. s \o t = u
  BY <1>3, <1>4, <1>5, SeqEqual
<1> QED
  BY <1>6 DEF s, t, u

LEMMA CutApart ==
    ASSUME NEW S, NEW s \in Seq(S), NEW t \in Seq(S)
    PROVE  /\ s \o t \in Seq(S) /\ Len(s \o t) = Len(s) + Len(t)
           /\ SubSeq(s \o t, 1, Len(s)) = s
           /\ SubSeq(s \o t, Len(s) + 1, Len(s \o t)) = t
<1>1. s \o t \in Seq(S) /\ Len(s \o t) = Len(s) + Len(t)
  OBVIOUS
<1> DEFINE n == Len(s)
           a == SubSeq(s \o t, 1, n)
           b == SubSeq(s \o t, n + 1, n + Len(t))
<1>2. n \in Nat /\ Len(t) \in Nat
  OBVIOUS
<1>3. a \in Seq(S) /\ Len(a) = n /\ \A i \in 1 .. n : a[i] = s[i]
  BY <1>1, <1>2
<1>4. b \in Seq(S) /\ Len(b) = Len(t) /\ \A i \in 1 .. Len(t) : b[i] = t[i]
  BY <1>1, <1>2
<1>5. a = s
  <2> HIDE DEF a
  <2> QED
    BY <1>3, SeqEqual
<1>6. b = t
  <2> HIDE DEF b
  <2> QED
    BY <1>4, SeqEqual
<1> QED
  BY <1>1, <1>5, <1>6

LEMMA OneMore ==
    ASSUME NEW S, NEW s \in Seq(S), NEW e \in S, NEW u, u = s \o <<e>>
    PROVE  /\ Len(u) = Len(s) + 1 /\ DOMAIN u = 1 .. (Len(s) + 1)
           /\ u[Len(s) + 1] = e /\ \A j \in 1 .. Len(s) : u[j] = s[j]
           /\ SubSeq(u, 1, Len(s)) = s
<1>1. u = Append(s, e)
  BY AppendIsConcat
<1>2. /\ Len(u) = Len(s) + 1 /\ DOMAIN u = 1 .. (Len(s) + 1)
      /\ u[Len(s) + 1] = e /\ \A j \in 1 .. Len(s) : u[j] = s[j]
  BY <1>1, AppendProperties
<1>3. <<e>> \in Seq(S)
  OBVIOUS
<1>4. SubSeq(u, 1, Len(s)) = s
  BY <1>3, CutApart
<1> QED
  BY <1>2, <1>4

\* A body is read up to the zero chunk that ends it.
LEMMA BodyRead ==
    ASSUME NEW b \in Bodies, NEW n \in Nat, NEW e \in {"end", "ieof"},
           stream = Unit(b, n) \o <<e>>, ReadBody(b)
    PROVE  /\ payload' = [payload EXCEPT ![b] = @ \o Unit(b, n)]
           /\ ieof' = (e = "ieof") /\ stream' = <<>>
<1> DEFINE s == Unit(b, n)
<1>1. e \in Units /\ b \notin {"end", "ieof"}
  BY DEF Units, Parts, Bodies
<1>2. s \in Seq(Units) /\ Len(s) = n /\ \A i \in 1 .. n : s[i] = b
  BY UnitIs, UnitType DEF Parts
<1>4. PICK i \in DOMAIN stream :
        /\ BodyEnds(i) /\ \A j \in 1 .. (i - 1) : ~BodyEnds(j)
        /\ payload' = [payload EXCEPT ![b] = @ \o SubSeq(stream, 1, i - 1)]
        /\ ieof' = (stream[i] = "ieof")
        /\ stream' = SubSeq(stream, i + 1, Len(stream))
  BY DEF ReadBody
<1>5. stream = s \o <<e>>
  OBVIOUS
<1> HIDE DEF s
<1>6. /\ Len(stream) = n + 1 /\ DOMAIN stream = 1 .. (n + 1)
      /\ stream[n + 1] = e /\ \A j \in 1 .. n : stream[j] = s[j]
      /\ SubSeq(stream, 1, n) = s
  BY <1>1, <1>2, <1>5, OneMore
<1>7. stream[n + 1] = e /\ \A j \in 1 .. n : stream[j] = b
  BY <1>2, <1>6
<1>8. BodyEnds(n + 1) /\ \A j \in 1 .. n : ~BodyEnds(j)
  BY <1>1, <1>7 DEF BodyEnds
<1>9. i = n + 1
  BY <1>4, <1>6, <1>8
<1>10. SubSeq(stream, 1, n) = s
  BY <1>6
<1>11. SubSeq(stream, n + 2, n + 1) = <<>>
  OBVIOUS
<1>12. payload' = [payload EXCEPT ![b] = @ \o s]
  <2>1. i - 1 = n
    BY <1>9
  <2> QED
    BY <1>4, <1>10, <2>1
<1>13. stream' = <<>>
  <2>1. i + 1 = n + 2
    BY <1>9
  <2> QED
    BY <1>4, <1>6, <1>11, <2>1
<1>14. ieof' = (e = "ieof")
  BY <1>4, <1>7, <1>9
<1> QED
  BY <1>12, <1>13, <1>14 DEF s

-----------------------------------------------------------------------------
(* The loop of read_req_data.                                               *)

InLoopOf == message \in Requests /\ left \in SUBSET Entities /\ InLoop

LEMMA EntityIs ==
    ASSUME InLoopOf
    PROVE  /\ encaps \in Offsets /\ Entity \in left
           /\ \A d \in left \ {Entity} : Precedes(encaps, Entity, d)
           /\ ~IsLast => /\ Entity # message.body
                         /\ NextEntity \in left \ {Entity}
                         /\ \A d \in left \ {Entity, NextEntity} :
                                Precedes(encaps, NextEntity, d)
           /\ IsLast => Entity = message.body
           /\ \A a \in Entities \ (left \ {Entity}), b \in left \ {Entity} :
                Precedes(encaps, a, b)
<1>1. encaps = Declared(message) /\ message.body \in left
  BY DEF InLoopOf, InLoop
<1>2. encaps \in Offsets
  BY <1>1, DeclaredAs DEF InLoopOf
<1>3. /\ Entity \in left
      /\ \A d \in left \ {Entity} : Precedes(encaps, Entity, d)
  BY <1>1, <1>2, FirstExists DEF InLoopOf, Entity
<1>4. ASSUME ~IsLast
      PROVE  /\ Entity # message.body
             /\ NextEntity \in left \ {Entity}
             /\ \A d \in left \ {Entity, NextEntity} :
                    Precedes(encaps, NextEntity, d)
  <2>1. PICK d \in left : d # Entity
    BY <1>3, <1>4 DEF IsLast
  <2>2. Entity # message.body
    <3>1. SUFFICES ASSUME Entity = message.body PROVE FALSE
      OBVIOUS
    <3>2. Precedes(encaps, Entity, d)
      BY <1>3, <2>1
    <3>3. encaps[d] < encaps[Entity]
      BY <1>1, <2>1, <3>1, BodyIsLast, DeclaredAs DEF InLoopOf
    <3>4. encaps[d] \in Int /\ encaps[Entity] \in Int
      BY <1>2, <1>3, <2>1 DEF Offsets, InLoopOf
    <3> QED
      BY <3>2, <3>3, <3>4 DEF Precedes
  <2> DEFINE S == left \ {Entity}
  <2>3. S \in SUBSET Entities /\ S # {}
    BY <2>1 DEF InLoopOf
  <2>4. NextEntity = First(encaps, S)
    BY DEF NextEntity
  <2> HIDE DEF S
  <2>5. NextEntity \in S /\ \A e \in S \ {NextEntity} :
            Precedes(encaps, NextEntity, e)
    BY <1>2, <2>3, <2>4, FirstExists
  <2> QED
    BY <2>2, <2>5 DEF S
<1>5. IsLast => Entity = message.body
  BY <1>1 DEF IsLast
<1>6. \A a \in Entities \ (left \ {Entity}), b \in left \ {Entity} :
        Precedes(encaps, a, b)
  BY <1>3 DEF InLoopOf, InLoop
<1> QED
  BY <1>2, <1>3, <1>4, <1>5, <1>6

\* The difference of two offsets is the length of what is between them.
LEMMA DataLengthIs ==
    ASSUME InLoopOf, ~IsLast
    PROVE  /\ Entity \in Parts /\ encaps[Entity] >= 0 => Entity \in HttpHeaders
           /\ Entity \in HttpHeaders =>
                /\ encaps[Entity] < 0 => message.size[Entity] = 0
                /\ encaps[Entity] >= 0 =>
                    /\ message.size[Entity] > 0
                    /\ DataLength = message.size[Entity]
                    /\ Entity = "res-hdr" => "req-hdr" \notin left
<1> DEFINE m == message
           h1 == m.size["req-hdr"]
           h2 == m.size["res-hdr"]
<1>1. h1 \in Nat /\ h2 \in Nat
  BY Sizes DEF InLoopOf, Parts, HttpHeaders
<1>2. /\ encaps["req-hdr"] = IF h1 > 0 THEN 0 ELSE -1
      /\ encaps["res-hdr"] = IF h2 > 0 THEN h1 ELSE -1
      /\ encaps[m.body] = h1 + h2
      /\ \A b \in Bodies \cup {"null-body"} : b # m.body => encaps[b] = -1
  BY DeclaredAs DEF InLoopOf, InLoop, BodyAt
<1>3. /\ Entity \in left /\ Entity # m.body
      /\ NextEntity \in left \ {Entity}
      /\ Precedes(encaps, Entity, NextEntity)
      /\ \A d \in left \ {Entity, NextEntity} : Precedes(encaps, NextEntity, d)
  BY EntityIs
<1>4. /\ \A e \in left :
            e \in {"req-hdr", "res-hdr"} \/ e \in Bodies \cup {"null-body"}
      /\ m.body \in Bodies \cup {"null-body"}
  BY Sizes DEF InLoopOf, Entities, Parts, HttpHeaders
<1>5. /\ m.body # "req-hdr" /\ m.body # "res-hdr"
      /\ "req-hdr" \notin Bodies \cup {"null-body"}
      /\ "res-hdr" \notin Bodies \cup {"null-body"}
  BY <1>4 DEF Bodies
<1>6. encaps[Entity] >= 0 => encaps[NextEntity] >= 0
  <2>1. encaps[Entity] \in Int /\ encaps[NextEntity] \in Int
    BY <1>3, EntityIs DEF Offsets, InLoopOf
  <2> QED
    BY <1>3, <2>1 DEF Precedes
<1>7. encaps[Entity] >= 0 =>
        NextEntity = m.body \/ NextEntity \in {"req-hdr", "res-hdr"}
  BY <1>2, <1>3, <1>4, <1>6
<1>8. \A a \in Entities \ left : Precedes(encaps, a, Entity)
  BY <1>3 DEF InLoopOf, InLoop
<1>9. ASSUME Entity = "req-hdr"
      PROVE  /\ encaps[Entity] < 0 => h1 = 0
             /\ encaps[Entity] >= 0 => h1 > 0 /\ DataLength = h1
  <2>1. encaps[Entity] < 0 => h1 = 0
    BY <1>1, <1>2, <1>9
  <2>2. ASSUME encaps[Entity] >= 0 PROVE h1 > 0 /\ encaps[Entity] = 0
    BY <2>2, <1>1, <1>2, <1>9
  <2>3. ASSUME encaps[Entity] >= 0 PROVE encaps[NextEntity] = h1
    <3>1. CASE NextEntity = "res-hdr"
      BY <3>1, <2>3, <1>2, <1>6
    <3>2. CASE NextEntity = m.body /\ h2 = 0
      BY <3>2, <1>1, <1>2
    <3>3. CASE NextEntity = m.body /\ h2 > 0
      <4>1. encaps["res-hdr"] = h1 /\ h1 > 0
        BY <3>3, <1>2, <2>2, <2>3
      <4>2. "res-hdr" \in left
        <5>1. ~ Precedes(encaps, "res-hdr", "req-hdr")
          BY <4>1, <1>1, <1>2 DEF Precedes
        <5> QED
          BY <5>1, <1>8, <1>9 DEF Entities, Parts, HttpHeaders
      <4>3. Precedes(encaps, m.body, "res-hdr")
        BY <4>2, <3>3, <1>3, <1>5, <1>9
      <4> QED
        BY <4>1, <4>3, <3>3, <1>1, <1>2 DEF Precedes
    <3> QED
      BY <3>1, <3>2, <3>3, <1>1, <1>3, <1>7, <1>9, <2>3
  <2> QED
    BY <2>1, <2>2, <2>3, <1>1 DEF DataLength
<1>10. ASSUME Entity = "res-hdr"
       PROVE  /\ encaps[Entity] < 0 => h2 = 0
              /\ encaps[Entity] >= 0 =>
                    h2 > 0 /\ DataLength = h2 /\ "req-hdr" \notin left
  <2>1. encaps[Entity] < 0 => h2 = 0
    BY <1>1, <1>2, <1>10
  <2>2. ASSUME encaps[Entity] >= 0 PROVE h2 > 0 /\ encaps[Entity] = h1
    BY <2>2, <1>1, <1>2, <1>10
  <2>3. ASSUME encaps[Entity] >= 0 PROVE "req-hdr" \notin left
    <3>1. ~ Precedes(encaps, "res-hdr", "req-hdr")
      BY <2>2, <2>3, <1>1, <1>2, <1>10 DEF Precedes
    <3> QED
      BY <3>1, <1>10, EntityIs
  <2>4. ASSUME encaps[Entity] >= 0 PROVE NextEntity = m.body
    BY <2>3, <2>4, <1>3, <1>7, <1>10
  <2> QED
    BY <2>1, <2>2, <2>3, <2>4, <1>1, <1>2 DEF DataLength
<1>11. Entity \in Parts /\ encaps[Entity] >= 0 => Entity \in HttpHeaders
  BY <1>2, <1>3, <1>4 DEF HttpHeaders
<1> QED
  BY <1>9, <1>10, <1>11 DEF HttpHeaders

LEMMA EndingIs ==
    ASSUME NEW m \in Requests
    PROVE  /\ Ending(m) \in Seq(Units)
           /\ FirstPart(m) = Headers(m) \o Ending(m)
<1>1. CASE m.body = "null-body"
  BY <1>1 DEF Ending, FirstPart
<1>2. CASE m.body # "null-body"
  <2>1. m.body \in Parts /\ Shown(m) \in Nat /\ m.body \in Bodies
    BY <1>2, Sizes, BodyAtType DEF Parts
  <2> DEFINE e == IF m.ieof THEN "ieof" ELSE "end"
  <2>2. <<e>> \in Seq(Units)
    BY DEF Units
  <2>3. Unit(m.body, Shown(m)) \in Seq(Units)
    BY <2>1, UnitType
  <2>4. Ending(m) = Unit(m.body, Shown(m)) \o <<e>>
    BY <1>2 DEF Ending
  <2>5. FirstPart(m) = Headers(m) \o (Unit(m.body, Shown(m)) \o <<e>>)
    <3>1. Shown(m) = IF m.preview THEN m.shown ELSE m.size[m.body]
      BY <2>1 DEF Shown, Whole
    <3> QED
      BY <3>1, <1>2 DEF FirstPart
  <2> QED
    BY <2>2, <2>3, <2>4, <2>5
<1> QED
  BY <1>1, <1>2

LEMMA UnreadType ==
    ASSUME NEW m \in Requests, NEW S, NEW h \in HttpHeaders
    PROVE  Unread(m, S, h) \in Seq(Units)
<1>1. h \in Parts /\ m.size[h] \in Nat
  BY Sizes DEF Parts
<1>2. Unit(h, m.size[h]) \in Seq(Units)
  BY <1>1, UnitType
<1>3. <<>> \in Seq(Units)
  OBVIOUS
<1> QED
  BY <1>2, <1>3 DEF Unread

LEMMA SkipKeeps ==
    ASSUME InLoopOf, SkipEntity
    PROVE  InLoop'
<1> DEFINE m == message  rest == left \ {Entity}
<1>1. ~IsLast /\ left' = rest
      /\ UNCHANGED <<message, stream, encaps, payload, ieof>>
      /\ (encaps[Entity] < 0 \/ DataLength <= 0 \/ Entity \notin Parts)
  BY DEF SkipEntity
<1>2. \A h \in HttpHeaders : h = Entity => Unit(h, m.size[h]) = <<>>
  <2>1. ASSUME Entity \in HttpHeaders PROVE m.size[Entity] = 0
    <3>1. /\ encaps[Entity] < 0 => m.size[Entity] = 0
          /\ encaps[Entity] >= 0 => DataLength = m.size[Entity]
                                    /\ m.size[Entity] > 0
      BY <1>1, <2>1, DataLengthIs
    <3>2. encaps[Entity] \in Int /\ m.size[Entity] \in Nat /\ Entity \in Parts
      BY <2>1, EntityIs, Sizes DEF InLoopOf, Offsets, Parts
    <3> QED
      BY <1>1, <3>1, <3>2
  <2>2. Unit(Entity, 0) = <<>>
    BY UnitIs
  <2> QED
    BY <2>1, <2>2
<1>3. Read(m, rest) = Read(m, left)
  BY <1>2 DEF Read
<1>4. \A h \in HttpHeaders : Unread(m, rest, h) = Unread(m, left, h)
  BY <1>2 DEF Unread
<1>5. m.body \in rest
  BY <1>1, EntityIs DEF InLoopOf, InLoop
<1>6. \A a \in Entities \ rest, b \in rest : Precedes(encaps, a, b)
  BY EntityIs
<1>7. /\ encaps = Declared(m) /\ payload = Read(m, left) /\ ieof = FALSE
      /\ stream = (Unread(m, left, "req-hdr") \o Unread(m, left, "res-hdr"))
                     \o Ending(m)
  BY DEF InLoopOf, InLoop
<1>8. stream = (Unread(m, rest, "req-hdr") \o Unread(m, rest, "res-hdr"))
                  \o Ending(m)
  BY <1>4, <1>7 DEF HttpHeaders
<1>9. m' = m /\ encaps' = encaps /\ payload' = payload /\ ieof' = ieof
      /\ stream' = stream /\ left' = rest
  BY <1>1
<1> HIDE DEF m, rest
<1>10. InLoop' = (/\ encaps' = Declared(m')
                  /\ m'.body \in left'
                  /\ \A a \in Entities \ left', b \in left' :
                        Precedes(encaps', a, b)
                  /\ payload' = Read(m', left')
                  /\ stream' = (Unread(m', left', "req-hdr")
                        \o Unread(m', left', "res-hdr")) \o Ending(m')
                  /\ ieof' = FALSE)
  BY DEF InLoop, m
<1> QED
  BY <1>3, <1>5, <1>6, <1>7, <1>8, <1>9, <1>10

LEMMA ReadKeeps ==
    ASSUME InLoopOf, ReadEntity
    PROVE  InLoop'
<1> DEFINE m == message  rest == left \ {Entity}
           u == Unit(Entity, m.size[Entity])
           tail == (Unread(m, rest, "req-hdr") \o Unread(m, rest, "res-hdr"))
                      \o Ending(m)
<1>1. ~IsLast /\ left' = rest /\ UNCHANGED <<message, encaps, ieof>>
      /\ encaps[Entity] >= 0 /\ Entity \in Parts
      /\ payload' = [payload EXCEPT ![Entity] = SubSeq(stream, 1, DataLength)]
      /\ stream' = SubSeq(stream, DataLength + 1, Len(stream))
  BY DEF ReadEntity
<1>2. /\ Entity \in HttpHeaders /\ DataLength = m.size[Entity]
      /\ m.size[Entity] > 0 /\ m.size[Entity] \in Nat
      /\ Entity = "res-hdr" => "req-hdr" \notin left
  BY <1>1, DataLengthIs, Sizes DEF Parts, InLoopOf
<1>3. m \in Requests /\ Entity \in left /\ payload = Read(m, left)
      /\ encaps = Declared(m) /\ ieof = FALSE
      /\ stream = (Unread(m, left, "req-hdr") \o Unread(m, left, "res-hdr"))
                     \o Ending(m)
  BY EntityIs DEF InLoopOf, InLoop
<1>4. u \in Seq(Units) /\ Len(u) = m.size[Entity]
  BY <1>1, <1>2, UnitType, UnitIs
<1>5. /\ Unread(m, rest, "req-hdr") \in Seq(Units)
      /\ Unread(m, rest, "res-hdr") \in Seq(Units) /\ Ending(m) \in Seq(Units)
  BY <1>3, UnreadType, EndingIs DEF HttpHeaders
<1>6. stream = u \o tail
  <2> DEFINE none == <<>>
             x == Unread(m, rest, "res-hdr")  y == Ending(m)
  <2>1. none \in Seq(Units)
    OBVIOUS
  <2>2. CASE Entity = "req-hdr"
    <3>1. Unread(m, left, "req-hdr") = u
      BY <1>3, <2>2 DEF Unread
    <3>2. Unread(m, left, "res-hdr") = x
      BY <2>2 DEF Unread
    <3>3. Unread(m, rest, "req-hdr") = none
      BY <2>2 DEF Unread
    <3>4. x \in Seq(Units) /\ y \in Seq(Units)
      BY <1>5
    <3>5. stream = (u \o x) \o y /\ tail = (none \o x) \o y
      BY <1>3, <3>1, <3>2, <3>3
    <3> HIDE DEF u, x, y, none, tail
    <3>6. (u \o x) \o y = u \o (x \o y)
      BY <1>4, <3>4, ConcatAssociative
    <3>7. none \o x = x
      BY <3>4, ConcatEmptySeq DEF none
    <3> QED
      BY <3>5, <3>6, <3>7
  <2>3. CASE Entity = "res-hdr"
    <3>1. Unread(m, left, "res-hdr") = u
      BY <1>3, <2>3 DEF Unread
    <3>2. Unread(m, left, "req-hdr") = none
      BY <1>2, <2>3 DEF Unread
    <3>3. Unread(m, rest, "req-hdr") = none
      BY <1>2, <2>3 DEF Unread
    <3>4. Unread(m, rest, "res-hdr") = none
      BY <2>3 DEF Unread
    <3>5. y \in Seq(Units)
      BY <1>5
    <3>6. stream = (none \o u) \o y /\ tail = (none \o none) \o y
      BY <1>3, <3>1, <3>2, <3>3, <3>4
    <3> HIDE DEF u, y, none, tail
    <3>7. none \o u = u /\ none \o none = none /\ none \o y = y
      BY <1>4, <2>1, <3>5, ConcatEmptySeq DEF none
    <3> QED
      BY <3>6, <3>7
  <2> QED
    BY <2>2, <2>3, <1>2 DEF HttpHeaders
<1>7. tail \in Seq(Units)
  BY <1>5
<1>8. SubSeq(stream, 1, DataLength) = u /\ stream' = tail
  <2>1. SubSeq(u \o tail, 1, Len(u)) = u
        /\ SubSeq(u \o tail, Len(u) + 1, Len(u \o tail)) = tail
    <3>1. u \in Seq(Units)
      BY <1>4
    <3> HIDE DEF u, tail
    <3>2. SubSeq(u \o tail, 1, Len(u)) = u
      BY <3>1, <1>7, CutApart
    <3>3. SubSeq(u \o tail, Len(u) + 1, Len(u \o tail)) = tail
      BY <3>1, <1>7, CutApart
    <3> QED
      BY <3>2, <3>3
  <2> QED
    BY <2>1, <1>1, <1>2, <1>4, <1>6
<1>9. payload' = Read(m, rest)
  <2>1. payload' = [payload EXCEPT ![Entity] = u]
    BY <1>1, <1>8
  <2>2. \A p \in Parts : p = Entity => Read(m, rest)[p] = u
    BY <1>2 DEF Read
  <2>3. \A p \in Parts : p # Entity => Read(m, rest)[p] = payload[p]
    BY <1>3 DEF Read
  <2>4. DOMAIN payload = Parts /\ DOMAIN Read(m, rest) = Parts
    BY <1>3 DEF Read
  <2>5. Read(m, rest) = [p \in Parts |-> Read(m, rest)[p]]
    BY DEF Read
  <2>6. payload' = [p \in Parts |-> IF p = Entity THEN u ELSE payload[p]]
    BY <2>1, <2>4
  <2> HIDE DEF u, rest
  <2> QED
    BY <2>2, <2>3, <2>5, <2>6
<1>10. m.body \in rest
  BY <1>1, EntityIs DEF InLoopOf, InLoop
<1>11. \A a \in Entities \ rest, b \in rest : Precedes(encaps, a, b)
  BY EntityIs
<1>12. m' = m /\ encaps' = encaps /\ ieof' = ieof /\ left' = rest
  BY <1>1
<1>13. InLoop' = (/\ encaps' = Declared(m')
                  /\ m'.body \in left'
                  /\ \A a \in Entities \ left', b \in left' :
                        Precedes(encaps', a, b)
                  /\ payload' = Read(m', left')
                  /\ stream' = (Unread(m', left', "req-hdr")
                        \o Unread(m', left', "res-hdr")) \o Ending(m')
                  /\ ieof' = FALSE)
  BY DEF InLoop
<1>14. stream' = (Unread(m', left', "req-hdr")
                        \o Unread(m', left', "res-hdr")) \o Ending(m')
  BY <1>8, <1>12
<1> HIDE DEF m, rest, tail, u
<1> QED
  BY <1>3, <1>9, <1>10, <1>11, <1>12, <1>13, <1>14

LEMMA AttachStarts ==
    ASSUME message \in Requests, left = Entities, encaps = NoOffsets,
           payload = NoPayload, ieof = FALSE, stream = FirstPart(message),
           AttachEncapsulated
    PROVE  InLoop'
<1> DEFINE m == message
<1>1. /\ encaps' = [e \in Entities |-> IF Declared(m)[e] >= 0
                                       THEN Declared(m)[e] ELSE encaps[e]]
      /\ UNCHANGED <<message, stream, left, payload, ieof>>
  BY DEF AttachEncapsulated
<1>2. Declared(m) \in Offsets
  BY DeclaredAs
<1>3. encaps' = Declared(m)
  <2>1. \A e \in Entities : encaps'[e] = Declared(m)[e]
    BY <1>1, <1>2 DEF Offsets, NoOffsets
  <2>2. Declared(m) = [e \in Entities |-> Declared(m)[e]]
    BY <1>2 DEF Offsets
  <2>3. encaps' = [e \in Entities |-> encaps'[e]]
    BY <1>1
  <2> HIDE DEF m
  <2> QED
    BY <2>1, <2>2, <2>3
<1>4. m.body \in left
  BY Sizes DEF Entities, Parts
<1>5. payload = Read(m, left)
  BY DEF Read, NoPayload, Entities, Parts
<1>6. stream = (Unread(m, left, "req-hdr") \o Unread(m, left, "res-hdr"))
                  \o Ending(m)
  <2>1. stream = Headers(m) \o Ending(m)
    BY EndingIs
  <2>2. Headers(m) = Unread(m, left, "req-hdr") \o Unread(m, left, "res-hdr")
    BY DEF Headers, Unread, Entities, Parts, HttpHeaders
  <2> QED
    BY <2>1, <2>2
<1>7. m' = m /\ payload' = payload /\ ieof' = FALSE /\ stream' = stream
      /\ left' = left /\ left' = Entities
  BY <1>1
<1>8. InLoop' = (/\ encaps' = Declared(m')
                 /\ m'.body \in left'
                 /\ \A a \in Entities \ left', b \in left' :
                       Precedes(encaps', a, b)
                 /\ payload' = Read(m', left')
                 /\ stream' = (Unread(m', left', "req-hdr")
                       \o Unread(m', left', "res-hdr")) \o Ending(m')
                 /\ ieof' = FALSE)
  BY DEF InLoop
<1>9. \A a \in Entities \ left', b \in left' : Precedes(encaps', a, b)
  BY <1>7
<1> HIDE DEF m
<1> QED
  BY <1>3, <1>4, <1>5, <1>6, <1>7, <1>8, <1>9

LEMMA LastEnds ==
    ASSUME InLoopOf, ReadLastEntity
    PROVE  /\ payload' = Gathered(message, Shown(message))
           /\ ieof' = message.ieof /\ stream' = <<>>
           /\ encaps' = Declared(message)
<1> DEFINE m == message  none == <<>>
<1>1. /\ IsLast /\ UNCHANGED <<message, left, encaps>>
      /\ IF Entity \in Bodies /\ encaps[Entity] >= 0
         THEN ReadBody(Entity) ELSE UNCHANGED <<payload, ieof, stream>>
  BY DEF ReadLastEntity
<1>2. /\ m \in Requests /\ payload = Read(m, left)
      /\ encaps = Declared(m) /\ ieof = FALSE
      /\ stream = (Unread(m, left, "req-hdr") \o Unread(m, left, "res-hdr"))
                     \o Ending(m)
  BY DEF InLoopOf, InLoop
<1>3. Entity = m.body /\ left = {m.body}
  BY <1>1, EntityIs DEF IsLast
<1>4. m.body \in Bodies \cup {"null-body"} /\ m.body \notin HttpHeaders
      /\ m.ieof \in BOOLEAN
  BY <1>2, Sizes DEF Bodies, HttpHeaders
<1>5. stream = Ending(m)
  <2>1. Unread(m, left, "req-hdr") = none /\ Unread(m, left, "res-hdr") = none
    BY <1>3, <1>4 DEF Unread, HttpHeaders
  <2>2. none \in Seq(Units) /\ Ending(m) \in Seq(Units)
    BY <1>2, EndingIs
  <2> DEFINE y == Ending(m)
  <2>3. stream = (none \o none) \o y /\ y \in Seq(Units)
    BY <1>2, <2>1, <2>2
  <2> HIDE DEF none, y
  <2>4. none \o none = none /\ none \o y = y
    BY <2>2, <2>3, ConcatEmptySeq DEF none
  <2>5. stream = y
    BY <2>3, <2>4
  <2> QED
    BY <2>5 DEF y
<1>6. \A p \in Parts : payload[p] = IF p \in HttpHeaders
                                    THEN Unit(p, m.size[p]) ELSE <<>>
  BY <1>2, <1>3, <1>4 DEF Read
<1>7. DOMAIN payload = Parts
  BY <1>2 DEF Read
<1>8. CASE m.body = "null-body"
  <2>1. UNCHANGED <<payload, ieof, stream>>
    BY <1>1, <1>3, <1>8 DEF Bodies
  <2>2. stream = <<>>
    BY <1>5, <1>8 DEF Ending
  <2>3. m.ieof = FALSE
    BY <1>2, <1>4, <1>8, Sizes DEF Bodies
  <2>4. payload = Gathered(m, Shown(m))
    <3>1. \A p \in Parts : payload[p] = Gathered(m, Shown(m))[p]
      BY <1>6, <1>8 DEF Gathered, Parts, HttpHeaders, Bodies
    <3>2. payload = [p \in Parts |-> payload[p]]
      BY <1>2 DEF Read
    <3>3. Gathered(m, Shown(m)) = [p \in Parts |-> Gathered(m, Shown(m))[p]]
      BY DEF Gathered
    <3> HIDE DEF m
    <3> QED
      BY <3>1, <3>2, <3>3
  <2> QED
    BY <1>1, <1>2, <2>1, <2>2, <2>3, <2>4
<1>9. CASE m.body \in Bodies
  <2> DEFINE b == m.body  n == Shown(m)  u == Unit(b, n)
             e == IF m.ieof THEN "ieof" ELSE "end"
  <2>1. encaps[b] >= 0
    BY <1>2, DeclaredAs, BodyAtType
  <2>2. ReadBody(b)
    BY <1>1, <1>3, <1>9, <2>1
  <2>3. b # "null-body" /\ b \in Parts /\ n \in Nat
    BY <1>2, <1>9, BodyAtType DEF Bodies, Parts
  <2>4. stream = Unit(b, n) \o <<e>>
    BY <1>5, <2>3 DEF Ending
  <2>5. e \in {"end", "ieof"}
    OBVIOUS
  <2>6. /\ payload' = [payload EXCEPT ![b] = @ \o u]
        /\ ieof' = (e = "ieof") /\ stream' = <<>>
    <3> HIDE DEF e, b, n
    <3> QED
      BY <1>9, <2>2, <2>3, <2>4, <2>5, BodyRead DEF b
  <2>7. ieof' = m.ieof
    BY <2>6, <1>4
  <2>8. payload' = Gathered(m, n)
    <3>1. payload[b] = <<>>
      BY <1>4, <1>6, <2>3
    <3>2. u \in Seq(Units)
      BY <2>3, UnitType
    <3>3. payload[b] \o u = u
      <4> HIDE DEF u, b
      <4> QED
        BY <3>1, <3>2, ConcatEmptySeq
    <3>4. payload' = [p \in Parts |-> IF p = b THEN u ELSE payload[p]]
      <4>1. payload' = [payload EXCEPT ![b] = u]
        BY <2>6, <3>3
      <4> HIDE DEF u, b
      <4> QED
        BY <4>1, <1>7
    <3>5. \A p \in Parts : payload'[p] = Gathered(m, n)[p]
      BY <1>4, <1>6, <3>4 DEF Gathered
    <3>6. payload' = [p \in Parts |-> payload'[p]]
      BY <3>4
    <3>7. Gathered(m, n) = [p \in Parts |-> Gathered(m, n)[p]]
      BY DEF Gathered
    <3> HIDE DEF m, n
    <3> QED
      BY <3>5, <3>6, <3>7
  <2> QED
    BY <1>1, <1>2, <2>6, <2>7, <2>8
<1> QED
  BY <1>4, <1>8, <1>9

-----------------------------------------------------------------------------
(* update_encapsulated, with the lengths of the parts.                      *)

\* The offsets g that come of f for headers and bodies of these lengths.
Updated(g, f, h1, b1, h2, b2) ==
    /\ g \in Offsets
    /\ g["req-hdr"] = IF h1 > 0 THEN 0 ELSE f["req-hdr"]
    /\ g["req-body"] = IF b1 > 0 THEN h1 ELSE f["req-body"]
    /\ g["res-hdr"] = IF h2 > 0 THEN h1 + b1 ELSE f["res-hdr"]
    /\ g["res-body"] = IF b2 > 0 THEN h1 + b1 + h2 ELSE f["res-body"]
    /\ g["null-body"] =
         IF /\ b1 > 0 => h1 = 0
            /\ h2 > 0 => h1 + b1 = 0
            /\ b2 > 0 => h1 + b1 + h2 = 0
         THEN h1 + b1 + h2 + b2 ELSE f["null-body"]

LEMMA UpdateIs ==
    ASSUME NEW f \in Offsets, NEW parts,
           \A p \in Parts : parts[p] \in Seq(Parts)
    PROVE  Updated(UpdateEncapsulated(f, parts), f,
                   Len(parts["req-hdr"]), Len(parts["req-body"]),
                   Len(parts["res-hdr"]), Len(parts["res-body"]))
<1> DEFINE g == UpdateEncapsulated(f, parts)  l == Lengths(parts)
           h1 == Len(parts["req-hdr"])  b1 == Len(parts["req-body"])
           h2 == Len(parts["res-hdr"])  b2 == Len(parts["res-body"])
<1>0. h1 \in Nat /\ b1 \in Nat /\ h2 \in Nat /\ b2 \in Nat
  BY DEF Parts, HttpHeaders, Bodies
<1>1. /\ l["req-hdr"] = h1 /\ l["req-body"] = b1
      /\ l["res-hdr"] = h2 /\ l["res-body"] = b2
  BY DEF Lengths, Parts, HttpHeaders, Bodies
<1>2. \A p \in Parts : parts[p] # <<>> <=> Len(parts[p]) > 0
  OBVIOUS
<1>3. /\ parts["req-hdr"] # <<>> <=> h1 > 0
      /\ parts["req-body"] # <<>> <=> b1 > 0
      /\ parts["res-hdr"] # <<>> <=> h2 > 0
      /\ parts["res-body"] # <<>> <=> b2 > 0
  BY <1>2 DEF Parts, HttpHeaders, Bodies
<1> HIDE DEF h1, b1, h2, b2
<1>4. /\ Ahead(l, "req-hdr") = 0 /\ Ahead(l, "req-body") = h1
      /\ Ahead(l, "res-hdr") = h1 + b1 /\ Ahead(l, "res-body") = h1 + b1 + h2
  BY <1>0, <1>1 DEF Ahead
<1>5. Total(l) = h1 + b1 + h2 + b2
  BY <1>1, <1>4 DEF Total
<1>6. DataOffsetIsZero(parts) <=> /\ b1 > 0 => h1 = 0
                                  /\ h2 > 0 => h1 + b1 = 0
                                  /\ b2 > 0 => h1 + b1 + h2 = 0
  BY <1>3, <1>4 DEF DataOffsetIsZero, Parts, HttpHeaders, Bodies
<1>7. \A e \in Entities :
        g[e] = IF e \in Parts
               THEN IF parts[e] # <<>> THEN Ahead(l, e) ELSE f[e]
               ELSE IF DataOffsetIsZero(parts) THEN Total(l) ELSE f[e]
  BY DEF UpdateEncapsulated
<1>8. /\ g["req-hdr"] = IF h1 > 0 THEN 0 ELSE f["req-hdr"]
      /\ g["req-body"] = IF b1 > 0 THEN h1 ELSE f["req-body"]
      /\ g["res-hdr"] = IF h2 > 0 THEN h1 + b1 ELSE f["res-hdr"]
      /\ g["res-body"] = IF b2 > 0 THEN h1 + b1 + h2 ELSE f["res-body"]
  <2> HIDE DEF g, l
  <2> QED
    BY <1>3, <1>4, <1>7 DEF Entities, Parts, HttpHeaders, Bodies
<1>9. g["null-body"] = IF DataOffsetIsZero(parts) THEN Total(l)
                       ELSE f["null-body"]
  <2> HIDE DEF g, l
  <2> QED
    BY <1>7 DEF Entities, Parts, HttpHeaders, Bodies
<1>10. \A e \in Entities : f[e] \in Nat \cup {-1}
  BY DEF Offsets
<1>11. \A e \in Entities : g[e] \in Nat \cup {-1}
  <2> HIDE DEF g, l
  <2>1. Total(l) \in Nat /\ \A p \in Parts : Ahead(l, p) \in Nat
    BY <1>0, <1>4, <1>5 DEF Parts, HttpHeaders, Bodies
  <2> QED
    BY <1>7, <1>10, <2>1
<1>12. g \in Offsets
  BY <1>11 DEF UpdateEncapsulated, Offsets
<1> HIDE DEF g, l
<1> QED
  BY <1>5, <1>6, <1>8, <1>9, <1>12 DEF Updated, g, h1, b1, h2, b2

LEMMA GatheredIs ==
    ASSUME NEW m \in Requests, NEW n \in Nat
    PROVE  /\ Gathered(m, n) \in [Parts -> Seq(Parts)]
           /\ \A h \in HttpHeaders : Len(Gathered(m, n)[h]) = m.size[h]
           /\ \A b \in Bodies : Len(Gathered(m, n)[b]) =
                                    IF b = m.body THEN n ELSE 0
<1>1. \A p \in Parts : m.size[p] \in Nat
  BY Sizes
<1>2. \A p \in Parts : /\ Unit(p, m.size[p]) \in Seq(Parts)
                       /\ Unit(p, n) \in Seq(Parts)
  BY <1>1, UnitType
<1>3. <<>> \in Seq(Parts) /\ Len(<<>>) = 0
  OBVIOUS
<1>4. \A p \in Parts : Gathered(m, n)[p] \in Seq(Parts)
  BY <1>2, <1>3 DEF Gathered
<1>5. Gathered(m, n) \in [Parts -> Seq(Parts)]
  BY <1>4 DEF Gathered
<1>6. \A h \in HttpHeaders : Len(Gathered(m, n)[h]) = m.size[h]
  BY <1>1, UnitIs DEF Gathered, Parts
<1>7. \A b \in Bodies : b \in Parts /\ b \notin HttpHeaders
  BY DEF Parts, Bodies, HttpHeaders
<1>8. \A b \in Bodies : Len(Gathered(m, n)[b]) = IF b = m.body THEN n ELSE 0
  BY <1>3, <1>7, UnitIs DEF Gathered
<1> QED
  BY <1>5, <1>6, <1>8

LEMMA PlacedDeclared == \A m \in Requests : Placed(m, Declared(m))
<1>1. TAKE m \in Requests
<1>2. Declared(m) \in [Entities -> Nat \cup {-1}]
  BY DeclaredAs DEF Offsets
<1>3. Declared(m)["null-body"] \in {-1, BodyAt(m)}
  BY DeclaredAs
<1>4. /\ Declared(m)[m.body] = BodyAt(m)
      /\ \A b \in Bodies \ {m.body} : Declared(m)[b] = -1
  BY DeclaredAs
<1> QED
  BY <1>2, <1>3, <1>4 DEF Placed

LEMMA UpdateKeeps ==
    ASSUME NEW m \in Requests, NEW f, Placed(m, f),
           NEW n \in Nat, n <= Whole(m)
    PROVE  Placed(m, UpdateEncapsulated(f, Gathered(m, n)))
<1> DEFINE h1 == m.size["req-hdr"]  h2 == m.size["res-hdr"]
           b1 == IF m.body = "req-body" THEN n ELSE 0
           b2 == IF m.body = "res-body" THEN n ELSE 0
           parts == Gathered(m, n)
           g == UpdateEncapsulated(f, parts)
<1>1. /\ h1 \in Nat /\ h2 \in Nat /\ b1 \in Nat /\ b2 \in Nat
      /\ m.body \in Bodies \cup {"null-body"}
  BY Sizes DEF Parts, HttpHeaders
<1>2. /\ Len(parts["req-hdr"]) = h1 /\ Len(parts["res-hdr"]) = h2
      /\ Len(parts["req-body"]) = b1 /\ Len(parts["res-body"]) = b2
      /\ \A p \in Parts : parts[p] \in Seq(Parts)
  BY GatheredIs DEF HttpHeaders, Bodies
<1>3. f \in Offsets
  BY DEF Placed, Offsets
<1>4. /\ g \in Offsets
      /\ g["req-hdr"] = IF h1 > 0 THEN 0 ELSE f["req-hdr"]
      /\ g["req-body"] = IF b1 > 0 THEN h1 ELSE f["req-body"]
      /\ g["res-hdr"] = IF h2 > 0 THEN h1 + b1 ELSE f["res-hdr"]
      /\ g["res-body"] = IF b2 > 0 THEN h1 + b1 + h2 ELSE f["res-body"]
      /\ g["null-body"] =
            IF /\ b1 > 0 => h1 = 0
               /\ h2 > 0 => h1 + b1 = 0
               /\ b2 > 0 => h1 + b1 + h2 = 0
            THEN h1 + b1 + h2 + b2 ELSE f["null-body"]
  <2> HIDE DEF h1, h2, b1, b2, parts, g
  <2>1. Updated(g, f, Len(parts["req-hdr"]), Len(parts["req-body"]),
                Len(parts["res-hdr"]), Len(parts["res-body"]))
    BY <1>2, <1>3, UpdateIs DEF g
  <2>2. Updated(g, f, h1, b1, h2, b2)
    BY <1>2, <2>1, Zenon
  <2> QED
    BY <2>2 DEF Updated
<1>5. /\ f["req-hdr"] = IF h1 > 0 THEN 0 ELSE -1
      /\ f["res-hdr"] = IF h2 > 0 THEN h1 ELSE -1
      /\ f[m.body] = h1 + h2
      /\ \A b \in Bodies \ {m.body} : f[b] = -1
      /\ ~BareBodies => f["null-body"] \in {-1, h1 + h2}
  BY DeclaredAs DEF Placed, HttpHeaders, BodyAt
<1>6. /\ b1 > 0 => h2 = 0
      /\ h2 > 0 => b1 = 0
      /\ ~BareBodies /\ n > 0 => h1 + h2 > 0
      /\ n > 0 => m.body # "null-body"
  <2>1. m.body = "req-body" => h2 = 0
    BY Sides
  <2>2. Whole(m) \in Nat /\ (Whole(m) > 0 /\ ~BareBodies => h1 + h2 > 0)
    BY BodyAtType DEF BodyAt
  <2>3. m.body = "null-body" => Whole(m) = 0
    BY DEF Whole, Bodies
  <2> QED
    BY <1>1, <2>1, <2>2, <2>3
<1> HIDE DEF g, h1, h2, parts
<1>7. \A h \in HttpHeaders : g[h] = f[h]
  BY <1>1, <1>4, <1>5, <1>6 DEF HttpHeaders
<1>8. g[m.body] = f[m.body]
  <2>1. CASE m.body = "req-body"
    BY <2>1, <1>1, <1>4, <1>5, <1>6
  <2>2. CASE m.body = "res-body"
    BY <2>2, <1>1, <1>4, <1>5
  <2>3. CASE m.body = "null-body"
    BY <2>3, <1>1, <1>4, <1>5
  <2> QED
    BY <2>1, <2>2, <2>3, <1>1 DEF Bodies
<1>9. \A b \in Bodies \ {m.body} : g[b] = -1
  BY <1>4, <1>5 DEF Bodies
<1>10. ~BareBodies => g["null-body"] \in {-1, h1 + h2}
  <2>1. CASE n = 0
    BY <2>1, <1>1, <1>4, <1>5
  <2>2. CASE n > 0
    <3>1. m.body = "req-body" \/ m.body = "res-body"
      BY <2>2, <1>1, <1>6 DEF Bodies
    <3> QED
      BY <2>2, <3>1, <1>1, <1>4, <1>5, <1>6
  <2> QED
    BY <2>1, <2>2
<1> QED
  BY <1>4, <1>5, <1>7, <1>8, <1>9, <1>10
  DEF Placed, Offsets, BodyAt, h1, h2, g, parts

-----------------------------------------------------------------------------
(* read_req_continue_data: the rest of a body after its preview.            *)

LEMMA PlacedIs ==
    ASSUME NEW m \in Requests, NEW f, Placed(m, f)
    PROVE  /\ f \in Offsets /\ f[m.body] = BodyAt(m) /\ BodyAt(m) \in Nat
           /\ f["null-body"] \in Int
           /\ \A e \in Entities \ {m.body, "null-body"} : f[e] < BodyAt(m)
           /\ m.body \in Entities /\ "null-body" \in Entities
<1>1. f \in Offsets /\ f[m.body] = BodyAt(m) /\ BodyAt(m) \in Nat
  BY BodyAtType DEF Placed, Offsets
<1>2. \A e \in Entities \ {m.body, "null-body"} : f[e] < BodyAt(m)
  <2>1. TAKE e \in Entities \ {m.body, "null-body"}
  <2>2. CASE e \in HttpHeaders
    BY <2>2, BodyIsLast DEF Placed
  <2>3. CASE e \in Bodies
    BY <2>3, <1>1 DEF Placed
  <2> QED
    BY <2>2, <2>3 DEF Entities, Parts
<1>3. m.body \in Entities /\ "null-body" \in Entities
  BY Sizes DEF Entities, Parts
<1>4. f["null-body"] \in Int
  BY <1>1, <1>3 DEF Offsets
<1> QED
  BY <1>1, <1>2, <1>3, <1>4

LEMMA BodyLast ==
    ASSUME NEW m \in Requests, NEW f, Placed(m, f), f["null-body"] <= BodyAt(m)
    PROVE  Last(f, Entities) = m.body
<1>1. m.body \in Entities /\ f \in Offsets
  BY PlacedIs
<1>2. ASSUME NEW d \in Entities \ {m.body} PROVE Precedes(f, d, m.body)
  <2>1. CASE d # "null-body"
    BY <2>1, <1>2, PlacedIs DEF Precedes
  <2>2. CASE d = "null-body"
    <3>1. Place("null-body") < Place(m.body)
      <4>1. m.body \in Bodies
        BY <1>2, <2>2, Sizes
      <4> QED
        BY <4>1, Places DEF Bodies
    <3>2. f["null-body"] \in Int /\ f[m.body] = BodyAt(m) /\ BodyAt(m) \in Nat
      BY PlacedIs
    <3> QED
      BY <2>2, <3>1, <3>2 DEF Precedes
  <2> QED
    BY <2>1, <2>2
<1> QED
  BY <1>1, <1>2, LastIs

LEMMA NullBodyLast ==
    ASSUME NEW m \in Requests, NEW f, Placed(m, f), f["null-body"] > BodyAt(m)
    PROVE  Last(f, Entities) = "null-body"
<1>1. "null-body" \in Entities /\ f \in Offsets
  BY PlacedIs
<1>2. ASSUME NEW d \in Entities \ {"null-body"}
      PROVE  Precedes(f, d, "null-body")
  <2>1. f[d] <= BodyAt(m) /\ f[d] \in Int
    BY <1>2, PlacedIs DEF Offsets
  <2>2. f["null-body"] \in Int /\ BodyAt(m) \in Nat
    BY PlacedIs
  <2> QED
    BY <2>1, <2>2 DEF Precedes
<1> QED
  BY <1>1, <1>2, LastIs

LEMMA RestRead ==
    ASSUME message \in Requests, Placed(message, encaps), Asked,
           payload = Gathered(message, Shown(message)), ieof \in BOOLEAN,
           stream = IF MoreToCome THEN SecondPart(message) ELSE <<>>,
           ReadRest
    PROVE  /\ payload' \in {Gathered(message, Shown(message)),
                            Gathered(message, Whole(message))}
           /\ stream' \in Seq(Units) /\ ieof' \in BOOLEAN
           /\ ~BareBodies =>
                payload' = Gathered(message, Whole(message)) /\ stream' = <<>>
<1> DEFINE m == message  top == Last(encaps, Entities)
<1>1. IF top \in Bodies THEN ReadBody(top)
      ELSE UNCHANGED <<payload, ieof, stream>>
  BY DEF ReadRest
<1>2. /\ Shown(m) \in Nat /\ Whole(m) \in Nat /\ Shown(m) <= Whole(m)
      /\ m.body \in Bodies \cup {"null-body"}
      /\ encaps["null-body"] \in Int /\ BodyAt(m) \in Nat
  BY BodyAtType, Sizes, PlacedIs
<1>3. top = m.body \/ (top = "null-body" /\ BareBodies)
  <2>1. CASE encaps["null-body"] <= BodyAt(m)
    BY <2>1, BodyLast
  <2>2. CASE encaps["null-body"] > BodyAt(m)
    <3>1. BareBodies
      BY <2>2, <1>2 DEF Placed
    <3> QED
      BY <2>2, <3>1, NullBodyLast
  <2> QED
    BY <2>1, <2>2, <1>2
<1>4. <<>> \in Seq(Units)
  OBVIOUS
<1>5. CASE m.body = "null-body"
  <2>1. UNCHANGED <<payload, ieof, stream>>
    BY <1>1, <1>3, <1>5 DEF Bodies
  <2>2. stream = <<>>
    BY <1>5 DEF MoreToCome, Bodies
  <2>3. Shown(m) = Whole(m)
    BY <1>2, <1>5 DEF Whole, Bodies
  <2> QED
    BY <2>1, <2>2, <2>3, <1>4
<1>6. CASE m.body \in Bodies
  <2> DEFINE b == m.body  s == Shown(m)  n == Whole(m) - Shown(m)
  <2>1. b \in Parts /\ b # "null-body" /\ n \in Nat /\ s + n = Whole(m)
    BY <1>2, <1>6 DEF Parts, Bodies
  <2>2. stream = Unit(b, n) \o <<"end">>
    <3>1. MoreToCome
      BY <1>6 DEF Asked, MoreToCome
    <3>2. Whole(m) = m.size[b] /\ Shown(m) = m.shown
      BY <1>6 DEF Whole, Shown, Asked
    <3>3. SecondPart(m) = Unit(b, m.size[b] - m.shown) \o <<"end">>
      BY <2>1 DEF SecondPart
    <3> QED
      BY <3>1, <3>2, <3>3
  <2>3. CASE top = m.body
    <3>1. ReadBody(b)
      BY <1>1, <1>6, <2>3
    <3>2. /\ payload' = [payload EXCEPT ![b] = @ \o Unit(b, n)]
          /\ ieof' = ("end" = "ieof") /\ stream' = <<>>
      <4>1. "end" \in {"end", "ieof"}
        OBVIOUS
      <4> HIDE DEF b, n
      <4> QED
        BY <4>1, <1>6, <2>1, <2>2, <3>1, BodyRead DEF b
    <3>3. payload[b] = Unit(b, s)
      BY <1>6, <2>1 DEF Gathered, Bodies, HttpHeaders
    <3>4. payload[b] \o Unit(b, n) = Unit(b, Whole(m))
      BY <1>2, <2>1, <3>3, UnitMore
    <3>5. payload' = [payload EXCEPT ![b] = Unit(b, Whole(m))]
      BY <3>2, <3>4
    <3>6. payload' = Gathered(m, Whole(m))
      <4> DEFINE u == Unit(b, Whole(m))
      <4>1. DOMAIN payload = Parts
        BY DEF Gathered
      <4>2. payload' = [p \in Parts |-> IF p = b THEN u ELSE payload[p]]
        <5>1. payload' = [payload EXCEPT ![b] = u]
          BY <3>5
        <5> HIDE DEF u, b
        <5> QED
          BY <4>1, <5>1
      <4>3. \A p \in Parts : payload'[p] = Gathered(m, Whole(m))[p]
        <5>1. b \notin HttpHeaders
          BY <1>6 DEF HttpHeaders, Bodies
        <5> QED
          BY <4>2, <5>1 DEF Gathered
      <4>4. payload' = [p \in Parts |-> payload'[p]]
        BY <4>2
      <4>5. Gathered(m, Whole(m)) = [p \in Parts |-> Gathered(m, Whole(m))[p]]
        BY DEF Gathered
      <4> HIDE DEF m
      <4> QED
        BY <4>3, <4>4, <4>5
    <3>7. ieof' \in BOOLEAN
      BY <3>2
    <3> QED
      BY <3>2, <3>6, <3>7, <1>4
  <2>4. CASE top = "null-body" /\ BareBodies
    <3>1. UNCHANGED <<payload, ieof, stream>>
      BY <1>1, <2>4 DEF Bodies
    <3>2. stream \in Seq(Units)
      <4> DEFINE u == Unit(b, n)  t == <<"end">>
      <4>1. u \in Seq(Units)
        BY <2>1, UnitType
      <4>2. t \in Seq(Units)
        BY DEF Units
      <4>3. stream = u \o t
        BY <2>2
      <4> HIDE DEF u, t
      <4>4. u \o t \in Seq(Units)
        BY <4>1, <4>2, ConcatProperties
      <4> QED
        BY <4>3, <4>4, Zenon
    <3> QED
      BY <2>4, <3>1, <3>2
  <2> QED
    BY <1>3, <2>3, <2>4
<1> QED
  BY <1>2, <1>5, <1>6

-----------------------------------------------------------------------------
(* The answer: a header and a body, each there or not.                      *)

LEMMA TwoThere ==
    ASSUME NEW f \in Offsets, NEW a \in Entities, NEW b \in Entities,
           There(f) = {a, b}, f[a] < f[b]
    PROVE  /\ First(f, There(f)) = a /\ Last(f, There(f)) = b
           /\ First(f, {d \in There(f) : Precedes(f, a, d)}) = b
           /\ There(f) \ {b} = {a}
<1>1. a # b /\ Precedes(f, a, b) /\ ~ Precedes(f, a, a)
  <2>1. f[a] \in Int /\ f[b] \in Int
    BY DEF Offsets
  <2> QED
    BY <2>1, Ordered DEF Precedes
<1>2. First(f, There(f)) = a
  BY <1>1, FirstIs
<1>3. Last(f, There(f)) = b
  BY <1>1, LastIs
<1>4. {d \in There(f) : Precedes(f, a, d)} = {b}
  BY <1>1
<1>5. First(f, {b}) = b
  BY FirstIs
<1> QED
  BY <1>1, <1>2, <1>3, <1>4, <1>5

LEMMA NothingSent ==
    ASSUME NEW f \in Offsets, There(f) = {"null-body"}, f["null-body"] = 0
    PROVE  Describes(f, <<>>)
<1> DEFINE e == "null-body"
<1>1. e \in Entities
  BY DEF Entities
<1>2. First(f, There(f)) = e /\ Last(f, There(f)) = e
  BY <1>1, FirstIs, LastIs
<1>3. There(f) \ {e} = {}
  OBVIOUS
<1>4. Len(<<>>) = 0
  OBVIOUS
<1> QED
  BY <1>2, <1>3, <1>4 DEF Describes

LEMMA HeaderSent ==
    ASSUME NEW f \in Offsets, NEW h \in HttpHeaders, NEW n \in Nat, n > 0,
           There(f) = {h, "null-body"}, f[h] = 0, f["null-body"] = n
    PROVE  Describes(f, Unit(h, n))
<1> DEFINE e == "null-body"  out == Unit(h, n)
<1>1. e \in Entities /\ h \in Entities
  BY DEF Entities, Parts
<1>2. /\ First(f, There(f)) = h /\ Last(f, There(f)) = e
      /\ First(f, {d \in There(f) : Precedes(f, h, d)}) = e
      /\ There(f) \ {e} = {h}
  BY <1>1, TwoThere
<1>3. out \in Seq({h}) /\ Len(out) = n
  BY UnitIs
<1>4. SubSeq(out, f[h] + 1, f[e]) = Unit(h, f[e] - f[h])
  <2>1. SubSeq(out, 1, n) = out
    <3> HIDE DEF out
    <3>1. SubSeq(out, 1, n) \in Seq({h}) /\ Len(SubSeq(out, 1, n)) = n
          /\ \A i \in 1 .. n : SubSeq(out, 1, n)[i] = out[i]
      BY <1>3
    <3> QED
      BY <1>3, <3>1, SeqEqual
  <2>2. f[h] + 1 = 1 /\ f[e] = n /\ f[e] - f[h] = n
    OBVIOUS
  <2> QED
    BY <2>1, <2>2
<1> QED
  BY <1>2, <1>3, <1>4 DEF Describes

LEMMA BothSent ==
    ASSUME NEW f \in Offsets, NEW h \in HttpHeaders, NEW b \in Bodies,
           NEW n \in Nat, n > 0, NEW k \in Nat,
           There(f) = {h, b}, f[h] = 0, f[b] = n
    PROVE  Describes(f, Unit(h, n) \o (Unit(b, k) \o <<"end">>))
<1> DEFINE u == Unit(h, n)  v == Unit(b, k)  t == <<"end">>
           w == v \o t  out == u \o w
<1>1. b \in Entities /\ h \in Entities /\ b # "null-body" /\ f[h] < f[b]
  BY DEF Entities, Parts, Bodies
<1>2. /\ First(f, There(f)) = h /\ Last(f, There(f)) = b
      /\ First(f, {d \in There(f) : Precedes(f, h, d)}) = b
      /\ There(f) \ {b} = {h}
  BY <1>1, TwoThere
<1>3. /\ u \in Seq(Units) /\ Len(u) = n /\ v \in Seq(Units) /\ Len(v) = k
  BY UnitIs, UnitType DEF Parts
<1>4. t \in Seq(Units) /\ "end" \in Units
  BY DEF Units
<1>5. w \in Seq(Units) /\ Len(w) = k + 1
  <2>1. u \in Seq(Units) /\ v \in Seq(Units)
    BY <1>3
  <2>2. Len(w) = Len(v) + 1
    <3> HIDE DEF v
    <3> QED
      BY <1>4, <2>1, OneMore
  <2>3. w \in Seq(Units)
    <3> HIDE DEF v, t
    <3> QED
      BY <1>4, <2>1, ConcatProperties
  <2> QED
    BY <1>3, <2>2, <2>3
<1>6. /\ out \in Seq(Units) /\ Len(out) = n + (k + 1)
      /\ SubSeq(out, 1, n) = u /\ out = (u \o v) \o t
  <2>1. u \in Seq(Units) /\ v \in Seq(Units) /\ t \in Seq(Units)
    BY <1>3, <1>4
  <2>2. out = (u \o v) \o t
    <3> HIDE DEF u, v, t
    <3> QED
      BY <2>1, ConcatAssociative
  <2> HIDE DEF u, w
  <2>3. out \in Seq(Units) /\ Len(out) = Len(u) + Len(w)
    BY <2>1, <1>5, CutApart
  <2>4. SubSeq(out, 1, Len(u)) = u
    BY <2>1, <1>5, CutApart
  <2> HIDE DEF out
  <2> QED
    BY <1>3, <1>5, <2>2, <2>3, <2>4
<1>7. SubSeq(out, f[h] + 1, f[b]) = Unit(h, f[b] - f[h])
  <2>1. f[h] + 1 = 1 /\ f[b] = n /\ f[b] - f[h] = n
    OBVIOUS
  <2> QED
    BY <1>6, <2>1
<1>8. out = SubSeq(out, 1, f[b]) \o Unit(b, Len(out) - f[b] - 1) \o <<"end">>
  <2>1. Len(out) - f[b] - 1 = k
    <3> HIDE DEF out
    <3> QED
      BY <1>6
  <2>2. out = (u \o v) \o t
    BY <1>6
  <2>3. SubSeq(out, 1, f[b]) = u
    BY <1>6
  <2> HIDE DEF out
  <2>4. SubSeq(out, 1, f[b]) \o Unit(b, Len(out) - f[b] - 1) \o <<"end">>
           = (u \o v) \o t
    BY <2>1, <2>3
  <2> QED
    BY <2>2, <2>4
<1> HIDE DEF out
<1>9. Describes(f, out)
  <2>1. f[First(f, There(f))] = 0
    BY <1>2
  <2>2. h \in HttpHeaders
    OBVIOUS
  <2> QED
    BY <1>1, <1>2, <1>7, <1>8, <2>1 DEF Describes
<1> QED
  BY <1>9 DEF out

LEMMA NoOffsetsType == NoOffsets \in Offsets
BY DEF NoOffsets, Offsets

LEMMA StatusDescribed ==
    /\ Describes(EncapsulatedList(NoOffsets), <<>>)
    /\ EncapsulatedList(NoOffsets) \in Offsets
<1> DEFINE f == [NoOffsets EXCEPT !["null-body"] = 0]
<1>1. There(NoOffsets) = {}
  BY DEF There, NoOffsets
<1>2. EncapsulatedList(NoOffsets) = f
  BY <1>1 DEF EncapsulatedList
<1>3. "null-body" \in Entities
  BY DEF Entities
<1>4. f \in Offsets /\ f["null-body"] = 0
      /\ \A e \in Entities \ {"null-body"} : f[e] = -1
  BY <1>3 DEF NoOffsets, Offsets
<1>5. There(f) = {"null-body"}
  <2> HIDE DEF f
  <2> QED
    BY <1>3, <1>4 DEF There
<1> HIDE DEF f
<1> QED
  BY <1>2, <1>4, <1>5, NothingSent

\* What Echo answers: the header and the body of the side that was asked for.
Side(m) == IF m.method = "REQMOD" THEN "req-hdr" ELSE "res-hdr"
SideBody(m) == IF m.method = "REQMOD" THEN "req-body" ELSE "res-body"

LEMMA EchoIs ==
    ASSUME message \in Requests, payload = Gathered(message, Whole(message))
    PROVE  /\ EchoPayload[Side(message)]
                = Unit(Side(message), message.size[Side(message)])
           /\ EchoPayload[SideBody(message)]
                = Unit(SideBody(message), Whole(message))
           /\ \A p \in Parts \ {Side(message), SideBody(message)} :
                EchoPayload[p] = <<>>
<1> DEFINE m == message
<1>1. /\ Side(m) \in HttpHeaders /\ SideBody(m) \in Bodies
      /\ Side(m) \in Parts /\ SideBody(m) \in Parts
      /\ SideBody(m) \notin HttpHeaders
  BY DEF Side, SideBody, Parts, HttpHeaders, Bodies
<1>2. EchoPayload[Side(m)] = payload[Side(m)]
      /\ EchoPayload[SideBody(m)] = payload[SideBody(m)]
  BY <1>1 DEF EchoPayload, Side, SideBody
<1>3. payload[Side(m)] = Unit(Side(m), m.size[Side(m)])
  BY <1>1 DEF Gathered
<1>4. payload[SideBody(m)] = Unit(SideBody(m), Whole(m))
  <2>1. m.body \in {SideBody(m), "null-body"}
    BY Sides DEF SideBody
  <2>2. CASE m.body = SideBody(m)
    BY <1>1, <2>2 DEF Gathered
  <2>3. CASE m.body = "null-body"
    <3>1. Whole(m) = 0
      BY <2>3 DEF Whole, Bodies
    <3>2. payload[SideBody(m)] = <<>>
      BY <1>1, <2>3 DEF Gathered, Bodies
    <3> QED
      BY <3>1, <3>2, UnitIs
  <2> QED
    BY <2>1, <2>2, <2>3
<1>5. ASSUME NEW p \in Parts \ {Side(m), SideBody(m)}
      PROVE  EchoPayload[p] = <<>>
  <2>1. CASE m.method = "REQMOD"
    <3>1. p \in {"res-hdr", "res-body"}
      BY <1>5, <2>1 DEF Side, SideBody, Parts, HttpHeaders, Bodies
    <3>2. EchoPayload[p] = payload[p]
      BY <1>5, <2>1 DEF EchoPayload
    <3>3. m.size["res-hdr"] = 0 /\ m.body # "res-body"
      BY <2>1, Sides
    <3>4. Unit("res-hdr", 0) = <<>>
      BY UnitIs
    <3>5. p = "res-hdr" => payload[p] = <<>>
      BY <1>5, <3>3, <3>4 DEF Gathered, HttpHeaders
    <3>6. p = "res-body" => payload[p] = <<>>
      BY <1>5, <3>3 DEF Gathered, HttpHeaders
    <3> QED
      BY <3>1, <3>2, <3>5, <3>6
  <2>2. CASE m.method # "REQMOD"
    <3>1. p \in {"req-hdr", "req-body"}
      BY <1>5, <2>2 DEF Side, SideBody, Parts, HttpHeaders, Bodies
    <3> QED
      BY <1>5, <2>2, <3>1 DEF EchoPayload
  <2> QED
    BY <2>1, <2>2
<1> QED
  BY <1>2, <1>3, <1>4, <1>5

LEMMA EchoContent ==
    ASSUME message \in Requests, payload = Gathered(message, Whole(message))
    PROVE  LET h == Side(message)
               b == SideBody(message)
               n == message.size[h]
               k == Whole(message)
           IN  SendContent(EchoPayload) =
                Unit(h, n) \o IF k > 0 THEN Unit(b, k) \o <<"end">> ELSE <<>>
<1> DEFINE m == message  none == <<>>  parts == EchoPayload
           h == Side(m)  b == SideBody(m)  n == m.size[h]  k == Whole(m)
           u == Unit(h, n)
           v == IF k > 0 THEN Unit(b, k) \o <<"end">> ELSE none
<1>1. /\ h \in HttpHeaders /\ b \in Bodies /\ h \in Parts /\ b \in Parts
      /\ b # h /\ h \notin Bodies /\ n \in Nat /\ k \in Nat
  BY Sizes, BodyAtType DEF Side, SideBody, Parts, HttpHeaders, Bodies
<1>2. u \in Seq(Units) /\ Unit(b, k) \in Seq(Units) /\ <<"end">> \in Seq(Units)
      /\ "end" \in Units /\ none \in Seq(Units)
  <2>1. <<"end">> \in Seq(Units) /\ "end" \in Units
    BY DEF Units
  <2>2. none \in Seq(Units)
    OBVIOUS
  <2> QED
    BY <1>1, <2>1, <2>2, UnitType
<1>3. v \in Seq(Units)
  <2> DEFINE s == Unit(b, k)  t == <<"end">>
  <2>1. s \in Seq(Units) /\ t \in Seq(Units)
    BY <1>2
  <2>2. s \o t \in Seq(Units)
    <3> HIDE DEF s, t
    <3> QED
      BY <2>1, ConcatProperties
  <2> QED
    BY <1>2, <2>2
<1>4. Sent(parts, h) = u
  BY <1>1, EchoIs DEF Sent
<1>5. Sent(parts, b) = v
  <2>1. parts[b] = Unit(b, k)
    BY EchoIs
  <2>2. CASE k > 0
    <3>1. parts[b] # <<>>
      BY <1>1, <2>1, <2>2, UnitIs
    <3>2. Sent(parts, b) = Append(Unit(b, k), "end")
      BY <1>1, <2>1, <3>1 DEF Sent
    <3>3. Append(Unit(b, k), "end") = Unit(b, k) \o <<"end">>
      BY <1>2, AppendIsConcat
    <3> QED
      BY <2>2, <3>2, <3>3
  <2>3. CASE k = 0
    <3>1. parts[b] = <<>>
      BY <2>1, <2>3, UnitIs
    <3>2. Sent(parts, b) = <<>>
      BY <3>1 DEF Sent
    <3> QED
      BY <2>3, <3>2
  <2> QED
    BY <2>2, <2>3, <1>1
<1>6. \A p \in Parts \ {h, b} : Sent(parts, p) = none
  BY EchoIs DEF Sent
<1>7. SendContent(parts) =
        ((Sent(parts, "req-hdr") \o Sent(parts, "req-body"))
            \o Sent(parts, "res-hdr")) \o Sent(parts, "res-body")
  BY DEF SendContent
<1> HIDE DEF none, parts, u, v
<1>8. u \o v \in Seq(Units)
  BY <1>2, <1>3, ConcatProperties
<1>9. CASE m.method = "REQMOD"
  <2>1. h = "req-hdr" /\ b = "req-body"
    BY <1>9 DEF Side, SideBody
  <2>2. Sent(parts, "res-hdr") = none /\ Sent(parts, "res-body") = none
    BY <1>6, <2>1 DEF Parts, HttpHeaders, Bodies
  <2>3. SendContent(parts) = ((u \o v) \o none) \o none
    BY <1>4, <1>5, <1>7, <2>1, <2>2
  <2> DEFINE w == u \o v
  <2>4. w \o none = w
    <3>1. w \in Seq(Units)
      BY <1>8
    <3> HIDE DEF w
    <3> QED
      BY <3>1, ConcatEmptySeq DEF none
  <2> QED
    BY <2>3, <2>4 DEF u, v, none, parts
<1>10. CASE m.method # "REQMOD"
  <2>1. h = "res-hdr" /\ b = "res-body"
    BY <1>10 DEF Side, SideBody
  <2>2. Sent(parts, "req-hdr") = none /\ Sent(parts, "req-body") = none
    BY <1>6, <2>1 DEF Parts, HttpHeaders, Bodies
  <2>3. SendContent(parts) = ((none \o none) \o u) \o v
    BY <1>4, <1>5, <1>7, <2>1, <2>2
  <2>4. none \o none = none /\ none \o u = u
    BY <1>2, ConcatEmptySeq DEF none
  <2>5. SendContent(parts) = u \o v
    BY <2>3, <2>4
  <2> QED
    BY <2>5 DEF u, v, none, parts
<1> QED
  BY <1>9, <1>10

LEMMA EchoOffsets ==
    ASSUME message \in Requests, payload = Gathered(message, Whole(message)),
           ~BareBodies
    PROVE  LET f == UpdateEncapsulated(NoOffsets, EchoPayload)
               h == Side(message)
               b == SideBody(message)
               n == message.size[h]
               k == Whole(message)
           IN  /\ f \in Offsets /\ (k > 0 => n > 0)
               /\ f[h] = IF n > 0 THEN 0 ELSE -1
               /\ f[b] = IF k > 0 THEN n ELSE -1
               /\ f["null-body"] = IF k > 0 THEN -1 ELSE n
               /\ \A e \in Entities \ {h, b, "null-body"} : f[e] = -1
<1> DEFINE m == message  parts == EchoPayload  h == Side(m)  b == SideBody(m)
           n == m.size[h]  k == Whole(m)
           f == UpdateEncapsulated(NoOffsets, parts)
<1>1. /\ h \in Parts /\ b \in Parts /\ n \in Nat /\ k \in Nat
  BY Sizes, BodyAtType DEF Side, SideBody, Parts, HttpHeaders, Bodies
<1>2. k > 0 => n > 0
  <2>1. ASSUME k > 0 PROVE m.body = b
    BY <2>1, Sides DEF Whole, SideBody, Bodies
  <2>2. m.body \in Bodies => m.size[HeaderOf[m.body]] > 0
    BY Sides
  <2>3. b \in Bodies /\ HeaderOf[b] = h
    BY DEF HeaderOf, Side, SideBody, Bodies
  <2> QED
    BY <2>1, <2>2, <2>3
<1>3. /\ parts[h] = Unit(h, n) /\ parts[b] = Unit(b, k)
      /\ \A p \in Parts \ {h, b} : parts[p] = <<>>
  BY EchoIs
<1>4. Len(parts[h]) = n /\ Len(parts[b]) = k
      /\ \A p \in Parts \ {h, b} : Len(parts[p]) = 0
  <2>1. Len(<<>>) = 0
    OBVIOUS
  <2>2. Len(Unit(h, n)) = n /\ Len(Unit(b, k)) = k
    <3> HIDE DEF n, k
    <3> QED
      BY <1>1, UnitIs
  <2> QED
    BY <1>3, <2>1, <2>2
<1>5. \A p \in Parts : parts[p] \in Seq(Parts)
  <2>1. <<>> \in Seq(Parts)
    OBVIOUS
  <2>2. parts[h] \in Seq(Parts) /\ parts[b] \in Seq(Parts)
    BY <1>1, <1>3, UnitType
  <2> QED
    BY <1>3, <2>1, <2>2
<1>6. \A e \in Entities : NoOffsets[e] = -1
  BY DEF NoOffsets
<1> HIDE DEF n, k, parts, f
<1>7. Updated(f, NoOffsets, Len(parts["req-hdr"]), Len(parts["req-body"]),
              Len(parts["res-hdr"]), Len(parts["res-body"]))
  BY <1>5, NoOffsetsType, UpdateIs DEF f
<1>8. CASE m.method = "REQMOD"
  <2>1. h = "req-hdr" /\ b = "req-body"
    BY <1>8 DEF Side, SideBody
  <2>2. /\ Len(parts["req-hdr"]) = n /\ Len(parts["req-body"]) = k
        /\ Len(parts["res-hdr"]) = 0 /\ Len(parts["res-body"]) = 0
    BY <1>4, <2>1 DEF Parts, HttpHeaders, Bodies
  <2>3. Updated(f, NoOffsets, n, k, 0, 0)
    BY <1>7, <2>2, Zenon
  <2> QED
    BY <1>1, <1>2, <1>6, <2>1, <2>3
    DEF Updated, Entities, Parts, HttpHeaders, Bodies, f, n, k, parts
<1>9. CASE m.method # "REQMOD"
  <2>1. h = "res-hdr" /\ b = "res-body"
    BY <1>9 DEF Side, SideBody
  <2>2. /\ Len(parts["res-hdr"]) = n /\ Len(parts["res-body"]) = k
        /\ Len(parts["req-hdr"]) = 0 /\ Len(parts["req-body"]) = 0
    BY <1>4, <2>1 DEF Parts, HttpHeaders, Bodies
  <2>3. Updated(f, NoOffsets, 0, 0, n, k)
    BY <1>7, <2>2, Zenon
  <2> QED
    BY <1>1, <1>2, <1>6, <2>1, <2>3
    DEF Updated, Entities, Parts, HttpHeaders, Bodies, f, n, k, parts
<1> QED
  BY <1>8, <1>9

LEMMA EchoDescribed ==
    ASSUME message \in Requests, payload = Gathered(message, Whole(message)),
           ~BareBodies
    PROVE  Describes(EncapsulatedList(UpdateEncapsulated(NoOffsets, EchoPayload)),
                     SendContent(EchoPayload))
<1> DEFINE h == Side(message)  b == SideBody(message)
           n == message.size[h]  k == Whole(message)
           f == UpdateEncapsulated(NoOffsets, EchoPayload)
           out == SendContent(EchoPayload)
<1>1. /\ f \in Offsets /\ (k > 0 => n > 0)
      /\ f[h] = IF n > 0 THEN 0 ELSE -1
      /\ f[b] = IF k > 0 THEN n ELSE -1
      /\ f["null-body"] = IF k > 0 THEN -1 ELSE n
      /\ \A e \in Entities \ {h, b, "null-body"} : f[e] = -1
  BY EchoOffsets
<1>2. out = Unit(h, n) \o IF k > 0 THEN Unit(b, k) \o <<"end">> ELSE <<>>
  BY EchoContent
<1>3. /\ h \in HttpHeaders /\ b \in Bodies /\ n \in Nat /\ k \in Nat
      /\ h \in Entities /\ b \in Entities /\ "null-body" \in Entities
      /\ h # "null-body" /\ b # "null-body" /\ b # h
  BY Sizes, BodyAtType
  DEF Side, SideBody, Entities, Parts, HttpHeaders, Bodies
<1> HIDE DEF h, b, n, k, f, out
<1>4. EncapsulatedList(f) = f
  <2>1. There(f) # {}
    BY <1>1, <1>3 DEF There
  <2> QED
    BY <2>1 DEF EncapsulatedList
<1>5. CASE k > 0
  <2>1. There(f) = {h, b}
    BY <1>1, <1>3, <1>5 DEF There
  <2>2. f[h] = 0 /\ f[b] = n /\ n > 0
    BY <1>1, <1>5
  <2>3. out = Unit(h, n) \o (Unit(b, k) \o <<"end">>)
    BY <1>2, <1>5
  <2>4. Describes(f, Unit(h, n) \o (Unit(b, k) \o <<"end">>))
    BY <1>1, <1>3, <2>1, <2>2, BothSent
  <2> QED
    BY <1>4, <2>3, <2>4 DEF f, out
<1>6. CASE k = 0
  <2>1. out = Unit(h, n)
    <3> DEFINE u == Unit(h, n)  none == <<>>
    <3>1. out = u \o none
      BY <1>2, <1>6
    <3>2. u \in Seq({h})
      BY <1>3, UnitIs
    <3> HIDE DEF u, none
    <3>3. u \o none = u
      BY <3>2, ConcatEmptySeq DEF none
    <3> QED
      BY <3>1, <3>3 DEF u
  <2>2. CASE n > 0
    <3>1. There(f) = {h, "null-body"}
      BY <1>1, <1>3, <1>6, <2>2 DEF There
    <3>2. f[h] = 0 /\ f["null-body"] = n
      BY <1>1, <1>6, <2>2
    <3>3. Describes(f, Unit(h, n))
      BY <1>1, <1>3, <2>2, <3>1, <3>2, HeaderSent
    <3> QED
      BY <1>4, <2>1, <3>3 DEF f, out
  <2>3. CASE n = 0
    <3>1. There(f) = {"null-body"}
      BY <1>1, <1>3, <1>6, <2>3 DEF There
    <3>2. f["null-body"] = 0 /\ out = <<>>
      BY <1>1, <1>6, <2>1, <2>3, UnitIs
    <3>3. Describes(f, <<>>)
      BY <1>1, <3>1, <3>2, NothingSent
    <3> QED
      BY <1>4, <3>2, <3>3 DEF f, out
  <2> QED
    BY <2>2, <2>3, <1>3
<1> QED
  BY <1>3, <1>5, <1>6

LEMMA ContentType ==
    ASSUME NEW parts \in [Parts -> Seq(Parts)]
    PROVE  SendContent(parts) \in Seq(Parts \cup {"end"})
<1> DEFINE T == Parts \cup {"end"}
<1>1. ASSUME NEW p \in Parts PROVE Sent(parts, p) \in Seq(T)
  <2>1. parts[p] \in Seq(T)
    <3>1. parts[p] \in Seq(Parts) /\ Parts \subseteq T
      OBVIOUS
    <3> HIDE DEF T
    <3> QED
      BY <3>1, Larger
  <2>2. "end" \in T
    OBVIOUS
  <2>3. Append(parts[p], "end") \in Seq(T)
    <3> HIDE DEF T
    <3> QED
      BY <2>1, <2>2, AppendProperties
  <2> QED
    BY <2>1, <2>3 DEF Sent
<1> DEFINE a == Sent(parts, "req-hdr")  b == Sent(parts, "req-body")
           c == Sent(parts, "res-hdr")  d == Sent(parts, "res-body")
<1>2. a \in Seq(T) /\ b \in Seq(T) /\ c \in Seq(T) /\ d \in Seq(T)
  BY <1>1 DEF Parts, HttpHeaders, Bodies
<1>3. ((a \o b) \o c) \o d \in Seq(T)
  <2> HIDE DEF a, b, c, d, T
  <2>1. a \o b \in Seq(T)
    BY <1>2, ConcatProperties
  <2>2. (a \o b) \o c \in Seq(T)
    BY <1>2, <2>1, ConcatProperties
  <2> QED
    BY <1>2, <2>2, ConcatProperties
<1> QED
  BY <1>3 DEF SendContent

LEMMA EchoType ==
    ASSUME payload \in [Parts -> Seq(Parts)]
    PROVE  /\ EchoPayload \in [Parts -> Seq(Parts)]
           /\ EncapsulatedList(UpdateEncapsulated(NoOffsets, EchoPayload))
                \in Offsets
<1> DEFINE f == UpdateEncapsulated(NoOffsets, EchoPayload)
<1>1. <<>> \in Seq(Parts)
  OBVIOUS
<1>2. EchoPayload \in [Parts -> Seq(Parts)]
  BY <1>1 DEF EchoPayload
<1>3. f \in Offsets
  BY <1>2, NoOffsetsType, UpdateIs DEF Updated
<1>4. [NoOffsets EXCEPT !["null-body"] = 0] \in Offsets
  BY DEF NoOffsets, Offsets
<1> HIDE DEF f
<1>5. EncapsulatedList(f) \in Offsets
  BY <1>3, <1>4 DEF EncapsulatedList
<1> QED
  BY <1>2, <1>5 DEF f

-----------------------------------------------------------------------------
(* The invariant holds: one lemma for each action.                          *)

\* The values of the variables, with the names of the proof.
LEMMA TypeIs ==
    TypeOK <=> /\ message \in Messages /\ stream \in Seq(Units)
               /\ at \in {"attach", "read", "update", "process", "rest",
                          "modify", "answered"}
               /\ left \in SUBSET Entities /\ encaps \in Offsets
               /\ payload \in [Parts -> Seq(Parts)] /\ ieof \in BOOLEAN
               /\ list \in Offsets /\ output \in Seq(Parts \cup {"end"})
BY DEF TypeOK, Offsets, Units

LEMMA TypeIsNext ==
    TypeOK' <=> /\ message' \in Messages /\ stream' \in Seq(Units)
                /\ at' \in {"attach", "read", "update", "process", "rest",
                            "modify", "answered"}
                /\ left' \in SUBSET Entities /\ encaps' \in Offsets
                /\ payload' \in [Parts -> Seq(Parts)] /\ ieof' \in BOOLEAN
                /\ list' \in Offsets /\ output' \in Seq(Parts \cup {"end"})
BY DEF TypeOK, Offsets, Units

LEMMA ReadType ==
    ASSUME NEW m \in Requests, NEW S
    PROVE  /\ Read(m, S) \in [Parts -> Seq(Parts)]
           /\ (Unread(m, S, "req-hdr") \o Unread(m, S, "res-hdr")) \o Ending(m)
                 \in Seq(Units)
<1>1. ASSUME NEW p \in Parts PROVE Read(m, S)[p] \in Seq(Parts)
  <2>1. Unit(p, m.size[p]) \in Seq(Parts)
    BY Sizes, UnitType
  <2>2. <<>> \in Seq(Parts)
    OBVIOUS
  <2> QED
    BY <2>1, <2>2 DEF Read
<1>2. Read(m, S) \in [Parts -> Seq(Parts)]
  BY <1>1 DEF Read
<1> DEFINE a == Unread(m, S, "req-hdr")  b == Unread(m, S, "res-hdr")
           c == Ending(m)
<1>3. a \in Seq(Units) /\ b \in Seq(Units) /\ c \in Seq(Units)
  BY UnreadType, EndingIs DEF HttpHeaders
<1>4. (a \o b) \o c \in Seq(Units)
  <2> HIDE DEF a, b, c
  <2>1. a \o b \in Seq(Units)
    BY <1>3, ConcatProperties
  <2> QED
    BY <1>3, <2>1, ConcatProperties
<1> QED
  BY <1>2, <1>4

LEMMA InvInit == Init => EncapsulatedInv
<1> SUFFICES ASSUME Init PROVE EncapsulatedInv
  OBVIOUS
<1>1. message \in Requests /\ message \in Messages
  BY DEF Init, Requests
<1>2. /\ stream = FirstPart(message) /\ at = "attach" /\ left = Entities
      /\ encaps = NoOffsets /\ payload = NoPayload /\ ieof = FALSE
      /\ list = NoOffsets /\ output = <<>>
  BY DEF Init
<1>3. stream \in Seq(Units)
  <2>1. Headers(message) = Unread(message, Entities, "req-hdr")
                              \o Unread(message, Entities, "res-hdr")
    BY DEF Headers, Unread, Entities, Parts, HttpHeaders
  <2> QED
    BY <1>1, <1>2, <2>1, EndingIs, ReadType
<1>4. payload \in [Parts -> Seq(Parts)] /\ output \in Seq(Parts \cup {"end"})
  BY <1>2 DEF NoPayload
<1>5. TypeOK
  BY <1>1, <1>2, <1>3, <1>4, NoOffsetsType, TypeIs
<1>6. AtWork
  BY <1>2 DEF AtWork
<1> QED
  BY <1>1, <1>5, <1>6 DEF EncapsulatedInv

LEMMA AttachKeeps == EncapsulatedInv /\ AttachEncapsulated => EncapsulatedInv'
<1> SUFFICES ASSUME EncapsulatedInv, AttachEncapsulated PROVE EncapsulatedInv'
  OBVIOUS
<1>1. /\ at = "attach" /\ at' = "read"
      /\ UNCHANGED <<message, stream, left, payload, ieof, list, output>>
  BY DEF AttachEncapsulated
<1>2. message \in Requests /\ TypeOK /\ output = <<>>
  BY <1>1 DEF EncapsulatedInv, AtWork
<1>3. InLoop'
  BY <1>1, AttachStarts DEF EncapsulatedInv, AtWork
<1>4. encaps' \in Offsets
  BY <1>1, <1>2, <1>3, DeclaredAs DEF InLoop
<1>5. TypeOK'
  BY <1>1, <1>2, <1>4, TypeIs, TypeIsNext
<1>6. AtWork'
  BY <1>1, <1>2, <1>3 DEF AtWork
<1> QED
  BY <1>1, <1>2, <1>5, <1>6 DEF EncapsulatedInv

LEMMA SkipKeepsInv == EncapsulatedInv /\ SkipEntity => EncapsulatedInv'
<1> SUFFICES ASSUME EncapsulatedInv, SkipEntity PROVE EncapsulatedInv'
  OBVIOUS
<1>1. /\ at = "read" /\ at' = "read" /\ left' = left \ {Entity}
      /\ UNCHANGED <<message, stream, encaps, payload, ieof, list, output>>
  BY DEF SkipEntity
<1>2. message \in Requests /\ TypeOK /\ output = <<>> /\ InLoop
  BY <1>1 DEF EncapsulatedInv, AtWork
<1>3. InLoop'
  BY <1>2, SkipKeeps, TypeIs DEF InLoopOf
<1>4. TypeOK'
  <2>1. left' \in SUBSET Entities
    BY <1>1, <1>2, TypeIs
  <2> QED
    BY <1>1, <1>2, <2>1, TypeIs, TypeIsNext
<1>5. AtWork'
  BY <1>1, <1>2, <1>3 DEF AtWork
<1> QED
  BY <1>1, <1>2, <1>4, <1>5 DEF EncapsulatedInv

LEMMA ReadKeepsInv == EncapsulatedInv /\ ReadEntity => EncapsulatedInv'
<1> SUFFICES ASSUME EncapsulatedInv, ReadEntity PROVE EncapsulatedInv'
  OBVIOUS
<1>1. /\ at = "read" /\ at' = "read" /\ left' = left \ {Entity}
      /\ UNCHANGED <<message, encaps, ieof, list, output>>
  BY DEF ReadEntity
<1>2. message \in Requests /\ TypeOK /\ output = <<>> /\ InLoop
  BY <1>1 DEF EncapsulatedInv, AtWork
<1>3. InLoop'
  BY <1>2, ReadKeeps, TypeIs DEF InLoopOf
<1>4. payload' \in [Parts -> Seq(Parts)] /\ stream' \in Seq(Units)
  <2>1. /\ payload' = Read(message, left')
        /\ stream' = (Unread(message, left', "req-hdr")
                        \o Unread(message, left', "res-hdr")) \o Ending(message)
    BY <1>1, <1>3 DEF InLoop
  <2> QED
    BY <1>2, <2>1, ReadType
<1>5. left' \in SUBSET Entities
  BY <1>1, <1>2, TypeIs
<1>6. TypeOK'
  BY <1>1, <1>2, <1>4, <1>5, TypeIs, TypeIsNext
<1>7. AtWork'
  BY <1>1, <1>2, <1>3 DEF AtWork
<1> QED
  BY <1>1, <1>2, <1>6, <1>7 DEF EncapsulatedInv

LEMMA ReadLastKeeps == EncapsulatedInv /\ ReadLastEntity => EncapsulatedInv'
<1> SUFFICES ASSUME EncapsulatedInv, ReadLastEntity PROVE EncapsulatedInv'
  OBVIOUS
<1>1. /\ at = "read" /\ at' = "update"
      /\ UNCHANGED <<message, left, encaps, list, output>>
  BY DEF ReadLastEntity
<1>2. message \in Requests /\ TypeOK /\ output = <<>> /\ InLoop
  BY <1>1 DEF EncapsulatedInv, AtWork
<1>3. /\ payload' = Gathered(message, Shown(message))
      /\ ieof' = message.ieof /\ stream' = <<>>
      /\ encaps' = Declared(message)
  BY <1>2, LastEnds, TypeIs DEF InLoopOf
<1>4. Placed(message, encaps')
  BY <1>2, <1>3, PlacedDeclared
<1>5. TypeOK'
  <2>1. payload' \in [Parts -> Seq(Parts)]
    BY <1>2, <1>3, GatheredIs, BodyAtType
  <2>2. ieof' \in BOOLEAN
    BY <1>2, <1>3, Sizes
  <2>3. stream' \in Seq(Units)
    BY <1>3
  <2> QED
    BY <1>1, <1>2, <2>1, <2>2, <2>3, TypeIs, TypeIsNext
<1>6. AtWork'
  BY <1>1, <1>2, <1>3, <1>4 DEF AtWork
<1> QED
  BY <1>1, <1>2, <1>5, <1>6 DEF EncapsulatedInv

LEMMA UpdateKeepsInv == EncapsulatedInv /\ UpdateRequest => EncapsulatedInv'
<1> SUFFICES ASSUME EncapsulatedInv, UpdateRequest PROVE EncapsulatedInv'
  OBVIOUS
<1>1. /\ at = "update" /\ at' = "process"
      /\ encaps' = UpdateEncapsulated(encaps, payload)
      /\ UNCHANGED <<message, stream, left, payload, ieof, list, output>>
  BY DEF UpdateRequest
<1>2. /\ message \in Requests /\ TypeOK /\ output = <<>>
      /\ payload = Gathered(message, Shown(message))
      /\ ieof = message.ieof /\ stream = <<>> /\ Placed(message, encaps)
  BY <1>1 DEF EncapsulatedInv, AtWork
<1>3. Placed(message, encaps')
  BY <1>1, <1>2, UpdateKeeps, BodyAtType
<1>4. TypeOK'
  <2>1. encaps' \in Offsets
    BY <1>3 DEF Placed, Offsets
  <2> QED
    BY <1>1, <1>2, <2>1, TypeIs, TypeIsNext
<1>5. AtWork'
  BY <1>1, <1>2, <1>3 DEF AtWork
<1> QED
  BY <1>1, <1>2, <1>4, <1>5 DEF EncapsulatedInv

LEMMA ContinueKeeps == EncapsulatedInv /\ Continue => EncapsulatedInv'
<1> SUFFICES ASSUME EncapsulatedInv, Continue PROVE EncapsulatedInv'
  OBVIOUS
<1> DEFINE m == message
           more == IF MoreToCome THEN SecondPart(message) ELSE <<>>
<1>1. /\ at = "process" /\ at' = "rest" /\ m.preview /\ ~ieof
      /\ stream' = stream \o more
      /\ UNCHANGED <<message, left, encaps, payload, ieof, list, output>>
  BY DEF Continue
<1>2. /\ m \in Requests /\ TypeOK /\ output = <<>>
      /\ payload = Gathered(m, Shown(m))
      /\ ieof = m.ieof /\ stream = <<>> /\ Placed(m, encaps)
  BY <1>1 DEF EncapsulatedInv, AtWork
<1>3. <<>> \in Seq(Units)
  OBVIOUS
<1>4. more \in Seq(Units)
  <2>1. ASSUME m.body \in Bodies PROVE SecondPart(m) \in Seq(Units)
    <3> DEFINE n == m.size[m.body] - m.shown
               u == Unit(m.body, n)  t == <<"end">>
    <3>1. m.body \in Parts /\ m.body # "null-body" /\ n \in Nat
      BY <1>2, <2>1, Sizes DEF Parts, Bodies
    <3>2. u \in Seq(Units) /\ t \in Seq(Units)
      BY <3>1, UnitType DEF Units
    <3>3. SecondPart(m) = u \o t
      BY <3>1 DEF SecondPart
    <3>4. u \o t \in Seq(Units)
      <4> HIDE DEF u, t
      <4> QED
        BY <3>2, ConcatProperties
    <3> QED
      BY <3>3, <3>4
  <2> QED
    BY <1>3, <2>1 DEF MoreToCome
<1>5. stream' = more
  <2> HIDE DEF more
  <2> QED
    BY <1>1, <1>2, <1>4, ConcatEmptySeq
<1>6. Asked' /\ stream' = IF MoreToCome' THEN SecondPart(message') ELSE <<>>
  <2>1. MoreToCome' = MoreToCome
    BY <1>1 DEF MoreToCome
  <2> QED
    BY <1>1, <1>2, <1>5, <2>1 DEF Asked
<1>7. TypeOK'
  <2>1. stream' \in Seq(Units)
    BY <1>4, <1>5
  <2> QED
    BY <1>1, <1>2, <2>1, TypeIs, TypeIsNext
<1>8. AtWork'
  BY <1>1, <1>2, <1>6 DEF AtWork
<1> QED
  BY <1>1, <1>2, <1>7, <1>8 DEF EncapsulatedInv

LEMMA RestKeeps == EncapsulatedInv /\ ReadRest => EncapsulatedInv'
<1> SUFFICES ASSUME EncapsulatedInv, ReadRest PROVE EncapsulatedInv'
  OBVIOUS
<1> DEFINE m == message
<1>1. /\ at = "rest" /\ at' = "modify"
      /\ encaps' = UpdateEncapsulated(encaps, payload')
      /\ UNCHANGED <<message, left, list, output>>
  BY DEF ReadRest
<1>2. /\ m \in Requests /\ TypeOK /\ output = <<>> /\ Placed(m, encaps)
  BY <1>1 DEF EncapsulatedInv, AtWork
<1>3. /\ payload' \in {Gathered(m, Shown(m)), Gathered(m, Whole(m))}
      /\ stream' \in Seq(Units) /\ ieof' \in BOOLEAN
      /\ ~BareBodies => payload' = Gathered(m, Whole(m)) /\ stream' = <<>>
  BY <1>1, <1>2, RestRead, TypeIs DEF EncapsulatedInv, AtWork
<1>4. PICK n \in {Shown(m), Whole(m)} : payload' = Gathered(m, n)
  BY <1>3
<1>5. n \in Nat /\ n <= Whole(m)
  BY <1>2, BodyAtType
<1>6. Placed(m, encaps')
  BY <1>1, <1>2, <1>4, <1>5, UpdateKeeps
<1>7. TypeOK'
  <2>1. encaps' \in Offsets
    BY <1>6 DEF Placed, Offsets
  <2>2. payload' \in [Parts -> Seq(Parts)]
    BY <1>2, <1>4, <1>5, GatheredIs
  <2> QED
    BY <1>1, <1>2, <1>3, <2>1, <2>2, TypeIs, TypeIsNext
<1>8. AtWork'
  BY <1>1, <1>2, <1>3, <1>6 DEF AtWork
<1> QED
  BY <1>1, <1>2, <1>7, <1>8 DEF EncapsulatedInv

\* When a modifier is called, and the client keeps to the grammar, it has all.
LEMMA AllIsThere ==
    ASSUME EncapsulatedInv, HasAll, ~BareBodies
    PROVE  payload = Gathered(message, Whole(message)) /\ stream = <<>>
<1>1. message \in Requests /\ AtWork
  BY DEF EncapsulatedInv
<1>2. CASE at = "modify"
  BY <1>1, <1>2 DEF AtWork
<1>3. CASE at = "process" /\ ~message.preview
  BY <1>1, <1>3 DEF AtWork, Shown
<1> QED
  BY <1>2, <1>3 DEF HasAll

LEMMA EchoKeeps == EncapsulatedInv /\ Echo => EncapsulatedInv'
<1> SUFFICES ASSUME EncapsulatedInv, Echo PROVE EncapsulatedInv'
  OBVIOUS
<1>1. /\ HasAll /\ at' = "answered" /\ output' = SendContent(EchoPayload)
      /\ list' = EncapsulatedList(UpdateEncapsulated(NoOffsets, EchoPayload))
      /\ UNCHANGED <<message, stream, left, encaps, payload, ieof>>
  BY DEF Echo
<1>2. message \in Requests /\ TypeOK /\ Placed(message, encaps)
  BY <1>1 DEF EncapsulatedInv, AtWork, HasAll
<1>3. ~BareBodies => Describes(list', output')
  BY <1>1, <1>2, AllIsThere, EchoDescribed
<1>4. TypeOK'
  <2>1. list' \in Offsets /\ output' \in Seq(Parts \cup {"end"})
    BY <1>1, <1>2, TypeIs, EchoType, ContentType
  <2> QED
    BY <1>1, <1>2, <2>1, TypeIs, TypeIsNext
<1>5. AtWork'
  BY <1>1, <1>2, <1>3 DEF AtWork
<1> QED
  BY <1>1, <1>2, <1>4, <1>5 DEF EncapsulatedInv

LEMMA StatusKeeps == EncapsulatedInv /\ AnswerStatus => EncapsulatedInv'
<1> SUFFICES ASSUME EncapsulatedInv, AnswerStatus PROVE EncapsulatedInv'
  OBVIOUS
<1>1. /\ at \in {"process", "modify"} /\ at' = "answered"
      /\ list' = EncapsulatedList(NoOffsets)
      /\ UNCHANGED <<message, stream, left, encaps, payload, ieof, output>>
  BY DEF AnswerStatus
<1>2. /\ message \in Requests /\ TypeOK /\ Placed(message, encaps)
      /\ output = <<>>
  BY <1>1 DEF EncapsulatedInv, AtWork
<1>3. Describes(list', output') /\ list' \in Offsets
  BY <1>1, <1>2, StatusDescribed
<1>4. TypeOK'
  BY <1>1, <1>2, <1>3, TypeIs, TypeIsNext
<1>5. AtWork'
  BY <1>1, <1>2, <1>3 DEF AtWork
<1> QED
  BY <1>1, <1>2, <1>4, <1>5 DEF EncapsulatedInv

LEMMA InvStep == EncapsulatedInv /\ [Next]_vars => EncapsulatedInv'
<1>1. CASE UNCHANGED vars
  BY <1>1 DEF EncapsulatedInv, TypeOK, AtWork, InLoop, Asked, MoreToCome, vars
<1> QED
  BY <1>1, AttachKeeps, SkipKeepsInv, ReadKeepsInv, ReadLastKeeps,
     UpdateKeepsInv, ContinueKeeps, RestKeeps, EchoKeeps, StatusKeeps
  DEF Next

LEMMA InvAlways == Spec => []EncapsulatedInv
BY InvInit, InvStep, PTL DEF Spec

-----------------------------------------------------------------------------
(* The theorems.                                                            *)

\* Every variable keeps its type; in particular no zero chunk of the stream is
\* ever taken for data of a part (read_req_data, read_req_continue_data).
THEOREM TypeCorrect == Spec => []TypeOK
<1>1. EncapsulatedInv => TypeOK
  BY DEF EncapsulatedInv
<1> QED
  BY <1>1, InvAlways, PTL

\* No update_encapsulated moves an entity that the client declared, whatever
\* the client sends: parts of any size, bodies with or without their header.
THEOREM OffsetsCorrect == Spec => []OffsetsKept
<1>1. ASSUME EncapsulatedInv PROVE OffsetsKept
  <2>1. ASSUME at # "attach", NEW e \in Entities, Declared(message)[e] >= 0
        PROVE  encaps[e] = Declared(message)[e]
    <3>1. message \in Requests /\ at \in {"read", "update", "process", "rest",
                                          "modify", "answered"}
      BY <1>1, <2>1, TypeIs DEF EncapsulatedInv
    <3>2. CASE at = "read"
      BY <1>1, <3>2 DEF EncapsulatedInv, AtWork, InLoop
    <3>3. CASE at # "read"
      <4>1. Placed(message, encaps)
        BY <1>1, <2>1, <3>3 DEF EncapsulatedInv, AtWork
      <4>2. e \in HttpHeaders \/ e = message.body
            \/ (e \in Bodies \cup {"null-body"} /\ e # message.body)
        BY DEF Entities, Parts
      <4>3. e \in Bodies \cup {"null-body"} /\ e # message.body =>
              Declared(message)[e] = -1
        BY <3>1, DeclaredAs
      <4> QED
        BY <2>1, <3>1, <4>1, <4>2, <4>3, DeclaredAs DEF Placed
    <3> QED
      BY <3>2, <3>3
  <2> QED
    BY <2>1 DEF OffsetsKept
<1> QED
  BY <1>1, InvAlways, PTL

\* What the client sent is what a modifier gets, part by part and whole, and
\* nothing of it stays behind, however long the parts are and wherever a
\* preview ends; but the client must send a body with its HTTP header.
THEOREM PartsCorrect == ASSUME ~BareBodies PROVE Spec => []PartsRead
<1>1. ASSUME EncapsulatedInv PROVE PartsRead
  <2>1. ASSUME HasAll
        PROVE  /\ \A p \in Parts : payload[p] = Unit(p, message.size[p])
               /\ stream = <<>>
    <3>1. message \in Requests
      BY <1>1 DEF EncapsulatedInv
    <3>2. payload = Gathered(message, Whole(message)) /\ stream = <<>>
      BY <1>1, <2>1, AllIsThere
    <3>3. ASSUME NEW p \in Parts PROVE payload[p] = Unit(p, message.size[p])
      <4>1. CASE p \in HttpHeaders
        BY <3>2, <4>1 DEF Gathered
      <4>2. CASE p \in Bodies /\ p = message.body
        BY <3>2, <4>2 DEF Gathered, Whole, Bodies, HttpHeaders
      <4>3. CASE p \in Bodies /\ p # message.body
        <5>1. message.size[p] = 0 /\ p \notin HttpHeaders
          BY <3>1, <4>3, Sizes DEF Bodies, HttpHeaders
        <5>2. Unit(p, 0) = <<>>
          BY UnitIs
        <5> QED
          BY <3>2, <4>3, <5>1, <5>2 DEF Gathered
      <4> QED
        BY <4>1, <4>2, <4>3 DEF Parts
    <3> QED
      BY <3>2, <3>3
  <2> QED
    BY <2>1 DEF PartsRead
<1> QED
  BY <1>1, InvAlways, PTL

\* The rest of a body is looked for in its place, also when an update has added
\* a null-body at the same offset: the sort leaves the body last.
THEOREM LastCorrect == ASSUME ~BareBodies PROVE Spec => []LastIsKept
<1>1. ASSUME EncapsulatedInv PROVE LastIsKept
  <2>1. ASSUME at # "attach" PROVE Last(encaps, Entities) = message.body
    <3>1. message \in Requests /\ Placed(message, encaps)
      BY <1>1, <2>1, PlacedDeclared DEF EncapsulatedInv, AtWork, InLoop
    <3>2. encaps["null-body"] <= BodyAt(message)
      BY <3>1, BodyAtType DEF Placed
    <3> QED
      BY <3>1, <3>2, BodyLast
  <2> QED
    BY <2>1 DEF LastIsKept
<1> QED
  BY <1>1, InvAlways, PTL

\* The Encapsulated header of an answer, printed from sorted offsets, describes
\* the parts that send_response writes in their fixed order.
THEOREM ResponseCorrect == ASSUME ~BareBodies PROVE Spec => []ResponseDescribed
<1>1. EncapsulatedInv => ResponseDescribed
  BY DEF EncapsulatedInv, AtWork, ResponseDescribed
<1> QED
  BY <1>1, InvAlways, PTL
=============================================================================

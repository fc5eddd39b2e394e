------------------------- MODULE ConversationProofs -------------------------
(***************************************************************************)
(* Proofs about the conversation of a worker and its client, for every     *)
(* budget, every list of modules and every number of requests.             *)
(*                                                                         *)
(* While the connection works, the two are in step (Orderly): what is on   *)
(* the way and what the client has still to send make up the rest of one   *)
(* request, and that is what the worker reads next.  A body that the       *)
(* handler of its request does not read ends that (Stray); the worker then *)
(* meets what is left where it expects a header, and closes the connection.*)
(***************************************************************************)
EXTENDS SessionProofs

Chunk == Unit("chunk")
Final == Unit("last")
Part == Unit("part")
Ieof == Unit("ieof")
TheRest == <<Chunk, Final>>

\* A body or preview as the worker reads it: what may be left at a chunk.
Previews == BodyUnits(TRUE)
Rests == {TheRest, <<Final>>}

\* What the client has put, or will put, on the connection, and the worker
\* has not read.  What a client that may ask has left over is never sent.
Pending == IF peer = "idle" THEN stream ELSE stream \o todo

\* The units a client sends before the 100 of a preview that has a rest: the
\* client will stop three units before the end of this.
Holds(s) ==
    /\ Len(s) >= 3
    /\ s[Len(s) - 2].kind = "last"
    /\ s[Len(s) - 1] = Chunk /\ s[Len(s)] = Final
    /\ \A i \in 1 .. (Len(s) - 3) : s[i].kind # "last"

\* The units a client sends without stopping.
Plain(s) ==
    /\ s # <<>>
    /\ s[Len(s)].kind # "chunk"
    /\ \A i \in 1 .. (Len(s) - 1) : s[i].kind # "last"

\* The client is to wait for a 100.
Held == \/ at \in {"header", "find", "part", "chunks"} /\ Holds(Pending)
        \/ at = "preview" /\ got = "preview"

\* A client whose request has not been answered.
Asking ==
    \/ peer = "sending" /\ IF Held THEN Holds(todo) ELSE Plain(todo)
    \/ /\ peer = "paused" /\ todo = TheRest
       /\ Held \/ (at \in {"modify", "respond"} /\ stream = <<>>)
    \/ peer = "waiting" /\ todo = <<>> /\ ~Held

\* The headers a client may send, and what may come after one of them.
Sendable == {h \in Heads : /\ h.body /\ h.method # "MOD" => OddBodies
                           /\ h.body /\ ~h.http => BareBodies
                           /\ h.method # "MOD" => (h.http <=> h.body)
                                                  /\ ~h.preview}
BodyOf(h) == IF h.body THEN BodyUnits(h.preview) ELSE {<<>>}
After(h) ==
    {(IF h.http THEN <<Part>> ELSE <<>>) \o units : units \in BodyOf(h)}

\* What the worker does not read of a request that it answers.
Leftover ==
    \/ Pending = <<>>
    \/ peer = "paused" /\ stream = <<>>
    \/ /\ OddBodies \/ BareBodies
       /\ Pending # <<>> /\ Pending[1].kind # "head"

\* What is pending where the worker is.
AtHeader == \E h \in Sendable :
    h.id = asked /\ \E x \in After(h) : Pending = <<h>> \o x
AtFind == Pending \in After(req)
AtPart ==
    /\ \E x \in BodyOf(req) : Pending = <<Part>> \o x
    /\ req.http /\ module = 1
    /\ IF req.body THEN entity = "body" ELSE got = "whole" /\ entity = "null-body"
AtChunks ==
    /\ req.body /\ entity = "body" /\ module = 1
    /\ req.http \/ BareBodies
    /\ Pending \in IF req.preview THEN Previews ELSE Rests
AtRest == Pending \in Rests /\ got = "preview"
AtPreview ==
    /\ stream = <<>>
    /\ \/ /\ got = "preview" /\ peer = "paused" /\ ~ieof
          /\ entity = "body" \/ BareBodies
       \/ /\ got = "whole" /\ peer = "waiting"
          /\ ieof \/ entity = "null-body"
    /\ resp = "null" => \A m \in 1 .. (module - 1) : m \notin Loaded
AtModify == Leftover /\ (got = "whole" \/ Loaded = {} \/ BareBodies)

Idle == at = "header" /\ stream = <<>> /\ asked = Len(answers)

Reading ==
    /\ asked = Len(answers) + 1
    /\ Asking
    /\ at = "header" => AtHeader
    /\ at # "header" => req \in Sendable /\ req.id = asked
    /\ at = "find" => AtFind
    /\ at = "part" => AtPart
    /\ at = "chunks" => AtChunks
    /\ at = "rest" => AtRest
    /\ at = "preview" => AtPreview
    /\ at = "modify" => AtModify
    /\ at = "respond" => Leftover

Orderly == AnswersInOrder /\ IF peer = "idle" THEN Idle ELSE Reading

\* Out of step: the worker is about to read, or has read, what is no header.
Stray ==
    /\ OddBodies \/ BareBodies
    /\ \/ /\ at = "header"
          /\ Pending # <<>> /\ Pending[1].kind # "head"
          /\ peer = "sending" => todo # <<>> /\ todo[Len(todo)].kind # "chunk"
          /\ peer \in {"sending", "idle"} \/ ~NoHeader
       \/ at \in {"find", "respond"} /\ req.method = "OTHER" /\ ~req.keep

Serving == at \notin {"accept", "closing", "ended"} /\ ~broken

Talk == Serving => Orderly \/ Stray

InStep == ~OddBodies /\ ~BareBodies => AnswersInOrder

\* The inductive invariant.
CInv == IInv /\ Talk /\ InStep

-----------------------------------------------------------------------------
(* Sequences of units.                                                      *)

LEMMA UnitsOfKinds ==
    /\ Part \in Units /\ Chunk \in Units /\ Final \in Units /\ Ieof \in Units
    /\ Part.kind = "part" /\ Chunk.kind = "chunk"
    /\ Final.kind = "last" /\ Ieof.kind = "ieof"
  BY DEF Units, Unit, Part, Chunk, Final, Ieof

LEMMA ConsUnit ==
    ASSUME NEW u \in Units, NEW s \in Seq(Units)
    PROVE  /\ <<u>> \o s \in Seq(Units) /\ <<u>> \o s # <<>>
           /\ Len(<<u>> \o s) = Len(s) + 1
           /\ Head(<<u>> \o s) = u /\ (<<u>> \o s)[1] = u
           /\ Tail(<<u>> \o s) = s
           /\ \A i \in 1 .. Len(s) : (<<u>> \o s)[i + 1] = s[i]
<1> DEFINE c == <<u>> \o s
<1>1. /\ c \in Seq(Units) /\ Len(c) = Len(s) + 1 /\ Len(s) \in Nat
      /\ \A i \in 1 .. Len(c) :
            c[i] = IF i <= 1 THEN <<u>>[i] ELSE s[i - 1]
  BY ConcatProperties
<1>2. c # <<>> /\ c[1] = u
  BY <1>1
<1>3. \A i \in 1 .. Len(s) : c[i + 1] = s[i]
  BY <1>1
<1> HIDE DEF c
<1>4. Head(c) = u /\ Tail(c) \in Seq(Units) /\ Len(Tail(c)) = Len(s)
  BY <1>1, <1>2, HeadTailProperties
<1>5. \A i \in 1 .. Len(s) : Tail(c)[i] = c[i + 1]
  BY <1>1, <1>2, <1>4, HeadTailProperties
<1>6. Tail(c) = s
  BY <1>3, <1>4, <1>5, SeqEqual
<1> QED
  BY <1>1, <1>2, <1>3, <1>4, <1>6 DEF c

\* What is read is the first of what is pending.
LEMMA ReadUnit ==
    ASSUME NEW s \in Seq(Units), NEW t \in Seq(Units), s # <<>>
    PROVE  /\ s \o t # <<>> /\ (s \o t)[1] = Head(s)
           /\ Tail(s \o t) = Tail(s) \o t
           /\ Head(s) \in Units /\ Tail(s) \in Seq(Units)
<1>1. /\ Head(s) \in Units /\ Tail(s) \in Seq(Units) /\ Len(s) \in Nat \ {0}
      /\ Len(Tail(s)) = Len(s) - 1 /\ Head(s) = s[1]
      /\ \A i \in 1 .. (Len(s) - 1) : Tail(s)[i] = s[i + 1]
  BY HeadTailProperties, EmptySeq
<1> DEFINE c == s \o t
           d == Tail(s) \o t
<1>2. /\ c \in Seq(Units) /\ Len(c) = Len(s) + Len(t) /\ Len(t) \in Nat
      /\ \A i \in 1 .. Len(c) :
            c[i] = IF i <= Len(s) THEN s[i] ELSE t[i - Len(s)]
  BY ConcatProperties
<1>3. /\ d \in Seq(Units) /\ Len(d) = Len(s) - 1 + Len(t)
      /\ \A i \in 1 .. Len(d) :
            d[i] = IF i <= Len(s) - 1 THEN Tail(s)[i] ELSE t[i - (Len(s) - 1)]
  BY <1>1, ConcatProperties
<1> HIDE DEF c, d
<1>4. c # <<>> /\ c[1] = Head(s)
  BY <1>1, <1>2
<1>5. /\ Tail(c) \in Seq(Units) /\ Len(Tail(c)) = Len(d)
      /\ \A i \in 1 .. Len(d) : Tail(c)[i] = c[i + 1]
  BY <1>1, <1>2, <1>3, <1>4, HeadTailProperties
<1>6. \A i \in 1 .. Len(d) : c[i + 1] = d[i]
  BY <1>1, <1>2, <1>3
<1>7. Tail(c) = d
  BY <1>3, <1>5, <1>6, SeqEqual
<1> QED
  BY <1>1, <1>4, <1>7 DEF c, d

\* A unit that is sent stays pending.
LEMMA SentUnit ==
    ASSUME NEW s \in Seq(Units), NEW t \in Seq(Units), t # <<>>
    PROVE  /\ Append(s, Head(t)) \o Tail(t) = s \o t
           /\ Append(s, Head(t)) \in Seq(Units)
           /\ Head(t) \in Units /\ Tail(t) \in Seq(Units)
<1>1. /\ Head(t) \in Units /\ Tail(t) \in Seq(Units) /\ Len(t) \in Nat \ {0}
      /\ Len(Tail(t)) = Len(t) - 1 /\ Head(t) = t[1]
      /\ \A i \in 1 .. (Len(t) - 1) : Tail(t)[i] = t[i + 1]
  BY HeadTailProperties, EmptySeq
<1> DEFINE a == Append(s, Head(t))
           c == s \o t
           d == a \o Tail(t)
<1>2. /\ c \in Seq(Units) /\ Len(c) = Len(s) + Len(t) /\ Len(s) \in Nat
      /\ \A i \in 1 .. Len(c) :
            c[i] = IF i <= Len(s) THEN s[i] ELSE t[i - Len(s)]
  BY ConcatProperties
<1>3. /\ a \in Seq(Units) /\ Len(a) = Len(s) + 1
      /\ \A i \in 1 .. Len(s) : a[i] = s[i]
      /\ a[Len(s) + 1] = t[1]
  BY <1>1, AppendProperties
<1> HIDE DEF a
<1>4. /\ d \in Seq(Units) /\ Len(d) = Len(a) + Len(Tail(t))
      /\ \A i \in 1 .. Len(d) :
            d[i] = IF i <= Len(a) THEN a[i] ELSE Tail(t)[i - Len(a)]
  <2>1. a \in Seq(Units) /\ Tail(t) \in Seq(Units)
    BY <1>1, <1>3
  <2> HIDE DEF c
  <2> QED
    BY <2>1, ConcatProperties
<1> HIDE DEF c, d
<1>5. Len(d) = Len(c) /\ \A i \in 1 .. Len(c) : d[i] = c[i]
  <2>1. Len(d) = Len(c)
    BY <1>1, <1>2, <1>3, <1>4
  <2> SUFFICES ASSUME NEW i \in 1 .. Len(c) PROVE d[i] = c[i]
    BY <2>1
  <2>5. /\ i \in 1 .. Len(d) /\ i \in Nat /\ Len(a) = Len(s) + 1
        /\ Len(s) \in Nat
    BY <1>2, <1>3, <2>1
  <2>2. CASE i <= Len(s)
    <3>1. d[i] = a[i]
      BY <1>4, <2>2, <2>5
    <3>2. a[i] = s[i]
      BY <1>3, <2>2, <2>5
    <3> QED
      BY <1>2, <2>2, <3>1, <3>2
  <2>3. CASE i = Len(s) + 1
    <3>1. d[i] = t[1]
      BY <1>2, <1>3, <1>4, <2>1, <2>3
    <3>2. c[i] = t[i - Len(s)] /\ i - Len(s) = 1
      BY <1>2, <2>3
    <3> QED
      BY <3>1, <3>2
  <2>4. CASE i > Len(s) + 1
    <3>1. i - (Len(s) + 1) \in 1 .. (Len(t) - 1)
      BY <1>1, <1>2, <2>4
    <3>2. d[i] = Tail(t)[i - (Len(s) + 1)]
      BY <1>4, <2>4, <2>5
    <3>3. d[i] = t[i - (Len(s) + 1) + 1]
      BY <1>1, <3>1, <3>2
    <3>4. i - (Len(s) + 1) + 1 = i - Len(s)
      BY <1>2
    <3> QED
      BY <1>2, <2>4, <3>3, <3>4
  <2> QED
    BY <1>2, <2>2, <2>3, <2>4
<1>6. d = c
  BY <1>2, <1>4, <1>5, SeqEqual
<1> QED
  BY <1>1, <1>3, <1>6 DEF a, c, d

LEMMA ConcatEmpty ==
    ASSUME NEW s \in Seq(Units)
    PROVE  s \o <<>> = s /\ <<>> \o s = s
  BY ConcatEmptySeq

LEMMA ConsIs ==
    ASSUME NEW a \in Units, NEW s \in Seq(Units), NEW t \in Seq(Units),
           Len(t) = Len(s) + 1, t[1] = a,
           \A i \in 1 .. Len(s) : t[i + 1] = s[i]
    PROVE  <<a>> \o s = t
<1> DEFINE e == <<a>> \o s
<1>1. /\ e \in Seq(Units) /\ Len(e) = Len(s) + 1 /\ e[1] = a
      /\ \A i \in 1 .. Len(s) : e[i + 1] = s[i]
  BY ConsUnit
<1> HIDE DEF e
<1>2. ASSUME NEW i \in 1 .. Len(t) PROVE e[i] = t[i]
  <2>1. CASE i = 1
    BY <1>1, <2>1
  <2>2. CASE i # 1
    <3>1. i - 1 \in 1 .. Len(s) /\ i - 1 + 1 = i
      BY <2>2, LenProperties
    <3> QED
      BY <1>1, <3>1
  <2> QED
    BY <2>1, <2>2
<1>3. e = t
  BY <1>1, <1>2, SeqEqual
<1> QED
  BY <1>3 DEF e

LEMMA Pair ==
    ASSUME NEW a \in Units, NEW b \in Units
    PROVE  <<a>> \o <<b>> = <<a, b>>
<1> DEFINE s == <<b>>
           t == <<a, b>>
<1>1. s \in Seq(Units) /\ t \in Seq(Units) /\ Len(s) = 1 /\ Len(t) = Len(s) + 1
  OBVIOUS
<1>2. t[1] = a /\ \A i \in 1 .. Len(s) : t[i + 1] = s[i]
  OBVIOUS
<1> HIDE DEF s, t
<1>3. <<a>> \o s = t
  BY ConsIs, <1>1, <1>2
<1> QED
  BY <1>3 DEF s, t

LEMMA Triple ==
    ASSUME NEW a \in Units, NEW b \in Units, NEW c \in Units
    PROVE  <<a>> \o <<b, c>> = <<a, b, c>>
<1> DEFINE s == <<b, c>>
           t == <<a, b, c>>
<1>1. s \in Seq(Units) /\ t \in Seq(Units) /\ Len(s) = 2 /\ Len(t) = Len(s) + 1
  OBVIOUS
<1>2. t[1] = a /\ \A i \in 1 .. Len(s) : t[i + 1] = s[i]
  OBVIOUS
<1> HIDE DEF s, t
<1>3. <<a>> \o s = t
  BY ConsIs, <1>1, <1>2
<1> QED
  BY <1>3 DEF s, t

LEMMA Quadruple ==
    ASSUME NEW a \in Units, NEW b \in Units, NEW c \in Units, NEW d \in Units
    PROVE  <<a>> \o <<b, c, d>> = <<a, b, c, d>>
<1> DEFINE s == <<b, c, d>>
           t == <<a, b, c, d>>
<1>1. s \in Seq(Units) /\ t \in Seq(Units) /\ Len(s) = 3 /\ Len(t) = Len(s) + 1
  OBVIOUS
<1>2. t[1] = a /\ \A i \in 1 .. Len(s) : t[i + 1] = s[i]
  OBVIOUS
<1> HIDE DEF s, t
<1>3. <<a>> \o s = t
  BY ConsIs, <1>1, <1>2
<1> QED
  BY <1>3 DEF s, t

-----------------------------------------------------------------------------
(* Where a client stops.                                                    *)

LEMMA HeadAndTail ==
    ASSUME NEW s \in Seq(Units), s # <<>>
    PROVE  s = <<Head(s)>> \o Tail(s)
<1>1. <<>> \in Seq(Units)
  OBVIOUS
<1>2. Append(<<>>, Head(s)) \o Tail(s) = <<>> \o s
  BY <1>1, SentUnit
<1>3. Append(<<>>, Head(s)) = <<Head(s)>>
  OBVIOUS
<1> QED
  BY <1>2, <1>3, ConcatEmpty

LEMMA HoldsCons ==
    ASSUME NEW u \in Units, NEW s \in Seq(Units), u.kind # "last"
    PROVE  Holds(<<u>> \o s) <=> Holds(s)
<1> DEFINE c == <<u>> \o s
<1>1. /\ c \in Seq(Units) /\ Len(c) = Len(s) + 1 /\ c[1] = u
      /\ Len(s) \in Nat /\ \A i \in 1 .. Len(s) : c[i + 1] = s[i]
  BY ConsUnit
<1> HIDE DEF c
<1>2. ASSUME Holds(s) PROVE Holds(c)
  <2>1. Len(c) >= 3 /\ Len(c) - 3 = Len(s) - 2 /\ Len(s) >= 3
    BY <1>1, <1>2 DEF Holds
  <2>2. c[Len(c) - 2].kind = "last" /\ c[Len(c) - 1] = Chunk /\ c[Len(c)] = Final
    <3>1. /\ c[Len(s) - 2 + 1] = s[Len(s) - 2]
          /\ c[Len(s) - 1 + 1] = s[Len(s) - 1] /\ c[Len(s) + 1] = s[Len(s)]
      BY <1>1, <2>1
    <3>2. /\ Len(s) - 2 + 1 = Len(c) - 2 /\ Len(s) - 1 + 1 = Len(c) - 1
          /\ Len(s) + 1 = Len(c)
      BY <1>1
    <3> QED
      BY <1>2, <3>1, <3>2 DEF Holds
  <2>3. ASSUME NEW i \in 1 .. (Len(c) - 3) PROVE c[i].kind # "last"
    <3>1. CASE i = 1
      BY <1>1, <3>1
    <3>2. CASE i > 1
      <4>1. i - 1 \in 1 .. (Len(s) - 3) /\ i - 1 \in 1 .. Len(s)
        BY <1>1, <2>1, <3>2
      <4>2. c[i - 1 + 1] = s[i - 1] /\ i - 1 + 1 = i
        BY <1>1, <4>1
      <4> QED
        BY <1>2, <4>1, <4>2 DEF Holds
    <3> QED
      BY <3>1, <3>2
  <2> QED
    BY <2>1, <2>2, <2>3 DEF Holds
<1>3. ASSUME Holds(c) PROVE Holds(s)
  <2>1. Len(c) - 2 # 1
    BY <1>1, <1>3 DEF Holds
  <2>2. Len(s) >= 3 /\ Len(c) >= 3
    BY <1>1, <1>3, <2>1 DEF Holds
  <2>3. s[Len(s) - 2].kind = "last" /\ s[Len(s) - 1] = Chunk /\ s[Len(s)] = Final
    <3>1. /\ c[Len(s) - 2 + 1] = s[Len(s) - 2]
          /\ c[Len(s) - 1 + 1] = s[Len(s) - 1] /\ c[Len(s) + 1] = s[Len(s)]
      BY <1>1, <2>2
    <3>2. /\ Len(s) - 2 + 1 = Len(c) - 2 /\ Len(s) - 1 + 1 = Len(c) - 1
          /\ Len(s) + 1 = Len(c)
      BY <1>1
    <3> QED
      BY <1>3, <3>1, <3>2 DEF Holds
  <2>4. ASSUME NEW i \in 1 .. (Len(s) - 3) PROVE s[i].kind # "last"
    <3>1. i + 1 \in 1 .. (Len(c) - 3) /\ c[i + 1] = s[i]
      BY <1>1
    <3> QED
      BY <1>3, <3>1 DEF Holds
  <2> QED
    BY <2>2, <2>3, <2>4 DEF Holds
<1> QED
  BY <1>2, <1>3 DEF c

LEMMA PlainCons ==
    ASSUME NEW u \in Units, NEW s \in Seq(Units), u.kind # "last", Plain(s)
    PROVE  Plain(<<u>> \o s)
<1> DEFINE c == <<u>> \o s
<1>1. /\ c # <<>> /\ Len(c) = Len(s) + 1 /\ c[1] = u
      /\ Len(s) \in Nat /\ Len(s) # 0 /\ \A i \in 1 .. Len(s) : c[i + 1] = s[i]
  BY ConsUnit, EmptySeq DEF Plain
<1> HIDE DEF c
<1>2. c[Len(c)].kind # "chunk"
  <2>1. Len(s) \in 1 .. Len(s)
    BY <1>1
  <2>2. c[Len(s) + 1] = s[Len(s)]
    BY <1>1, <2>1
  <2> QED
    BY <1>1, <2>2 DEF Plain
<1>3. ASSUME NEW i \in 1 .. (Len(c) - 1) PROVE c[i].kind # "last"
  <2>1. CASE i = 1
    BY <1>1, <2>1
  <2>2. CASE i > 1
    <3>1. i - 1 \in 1 .. (Len(s) - 1) /\ i - 1 \in 1 .. Len(s)
      BY <1>1, <2>2
    <3>2. c[i - 1 + 1] = s[i - 1] /\ i - 1 + 1 = i
      BY <1>1, <3>1
    <3> QED
      BY <3>1, <3>2 DEF Plain
  <2> QED
    BY <2>1, <2>2
<1> QED
  BY <1>1, <1>2, <1>3 DEF c, Plain

\* Sending the first unit of what holds or is plain.
LEMMA HoldsTail ==
    ASSUME NEW s \in Seq(Units), Holds(s)
    PROVE  /\ s # <<>> /\ Len(s) >= 3 /\ s[Len(s)].kind # "chunk"
           /\ Tail(s) # <<>>
           /\ Head(s).kind = "last" => Tail(s) = TheRest
           /\ Head(s).kind # "last" => Holds(Tail(s))
<1> DEFINE u == Head(s)
           r == Tail(s)
<1>1. /\ s # <<>> /\ Len(s) >= 3 /\ Len(s) \in Nat
  BY EmptySeq DEF Holds
<1>2. /\ u \in Units /\ r \in Seq(Units) /\ u = s[1] /\ Len(r) = Len(s) - 1
      /\ \A i \in 1 .. Len(r) : r[i] = s[i + 1]
  BY <1>1, HeadTailProperties
<1>3. r # <<>>
  <2>1. Len(r) # 0
    BY <1>1, <1>2
  <2> HIDE DEF r
  <2> QED
    BY <2>1
<1>4. s = <<u>> \o r
  BY <1>1, HeadAndTail
<1>5. s[Len(s)].kind # "chunk"
  BY UnitsOfKinds DEF Holds
<1>6. ASSUME u.kind = "last" PROVE r = TheRest
  <2>1. Len(s) = 3
    <3> SUFFICES ASSUME Len(s) # 3 PROVE FALSE
      OBVIOUS
    <3>1. 1 \in 1 .. (Len(s) - 3)
      <4>1. \A n \in Nat : n >= 3 /\ n # 3 => 1 \in 1 .. (n - 3)
        OBVIOUS
      <4> QED
        BY <1>1, <4>1
    <3>2. s[1].kind # "last"
      BY <3>1 DEF Holds
    <3> QED
      BY <1>2, <1>6, <3>2
  <2>2. Len(r) = 2 /\ r[1] = Chunk /\ r[2] = Final
    <3>1. s[2] = Chunk /\ s[3] = Final
      BY <2>1 DEF Holds
    <3>4. Len(r) = 2
      BY <1>2, <2>1
    <3>2. 1 \in 1 .. Len(r) /\ 2 \in 1 .. Len(r)
      BY <3>4
    <3>3. r[1] = s[1 + 1] /\ r[2] = s[2 + 1]
      BY <1>2, <3>2
    <3>5. 1 + 1 = 2 /\ 2 + 1 = 3
      OBVIOUS
    <3> HIDE DEF r
    <3> QED
      BY <3>1, <3>3, <3>4, <3>5, Zenon
  <2>3. TheRest \in Seq(Units) /\ Len(TheRest) = 2 /\ TheRest[1] = Chunk
        /\ TheRest[2] = Final
    BY UnitsOfKinds DEF TheRest
  <2>4. \A i \in 1 .. Len(r) : r[i] = TheRest[i]
    BY <2>2, <2>3
  <2> HIDE DEF r
  <2> QED
    BY <1>2, <2>2, <2>3, <2>4, SeqEqual
<1>7. ASSUME u.kind # "last" PROVE Holds(r)
  BY <1>2, <1>4, <1>7, HoldsCons
<1> QED
  BY <1>1, <1>3, <1>5, <1>6, <1>7

LEMMA PlainTail ==
    ASSUME NEW s \in Seq(Units), Plain(s)
    PROVE  /\ s # <<>> /\ s[Len(s)].kind # "chunk"
           /\ Tail(s) # <<>> => Head(s).kind # "last" /\ Plain(Tail(s))
           /\ Tail(s) = <<>> => Head(s).kind # "chunk"
<1> DEFINE r == Tail(s)
<1>1. /\ s # <<>> /\ Len(s) \in Nat \ {0} /\ s[Len(s)].kind # "chunk"
  BY EmptySeq DEF Plain
<1>2. /\ r \in Seq(Units) /\ Head(s) = s[1] /\ Len(r) = Len(s) - 1
      /\ \A i \in 1 .. Len(r) : r[i] = s[i + 1]
  BY <1>1, HeadTailProperties
<1>3. ASSUME r # <<>> PROVE Head(s).kind # "last" /\ Plain(r)
  <2>1. Len(r) >= 1 /\ Len(r) \in Nat
    BY <1>2, <1>3, EmptySeq
  <2>2. 1 \in 1 .. (Len(s) - 1)
    BY <1>1, <1>2, <2>1
  <2>3. Head(s).kind # "last"
    BY <1>2, <2>2 DEF Plain
  <2> HIDE DEF r
  <2>4. r[Len(r)] = s[Len(r) + 1] /\ Len(r) + 1 = Len(s)
    BY <1>1, <1>2, <2>1
  <2>5. ASSUME NEW i \in 1 .. (Len(r) - 1) PROVE r[i].kind # "last"
    <3>1. i + 1 \in 1 .. (Len(s) - 1) /\ r[i] = s[i + 1]
      BY <1>1, <1>2, <2>1
    <3> QED
      BY <3>1 DEF Plain
  <2> QED
    BY <1>1, <1>3, <2>3, <2>4, <2>5 DEF Plain
<1>4. ASSUME r = <<>> PROVE Head(s).kind # "chunk"
  <2> HIDE DEF r
  <2>1. Len(s) = 1
    BY <1>1, <1>2, <1>4
  <2> QED
    BY <1>1, <1>2, <2>1
<1> QED
  BY <1>1, <1>3, <1>4

-----------------------------------------------------------------------------
(* The bodies and the requests of a client.                                 *)

LEMMA RestUnits ==
    /\ TheRest \in Seq(Units) /\ <<Final>> \in Seq(Units)
    /\ TheRest = <<Chunk>> \o <<Final>> /\ <<Final>> = <<Final>> \o <<>>
    /\ Len(TheRest) = 2 /\ Len(<<Final>>) = 1
    /\ TheRest # <<>> /\ <<Final>> # <<>>
    /\ TheRest[1] = Chunk /\ <<Final>>[1] = Final
<1>1. /\ TheRest \in Seq(Units) /\ <<Final>> \in Seq(Units)
      /\ <<>> \in Seq(Units)
  BY UnitsOfKinds DEF TheRest
<1>2. TheRest = <<Chunk>> \o <<Final>>
  BY Pair, Triple, UnitsOfKinds DEF TheRest
<1>3. <<Final>> = <<Final>> \o <<>>
  BY <1>1, ConcatEmpty
<1> QED
  BY <1>1, <1>2, <1>3 DEF TheRest

LEMMA RestReads ==
    ASSUME NEW x \in Rests
    PROVE  /\ x \in Seq(Units) /\ x # <<>> /\ Plain(x) /\ ~Holds(x)
           /\ Head(x) \in {Chunk, Final}
           /\ Head(x) = Chunk => Tail(x) \in Rests
           /\ Head(x) = Final => Tail(x) = <<>>
<1>1. CASE x = TheRest
  <2>1. /\ x # <<>> /\ Len(x) = 2 /\ x[1] = Chunk /\ x[2] = Final
    BY <1>1, RestUnits DEF TheRest
  <2>2. \A i \in 1 .. (Len(x) - 1) : i = 1
    BY <2>1
  <2>3. Plain(x) /\ ~Holds(x)
    BY <2>1, <2>2, UnitsOfKinds DEF Plain, Holds
  <2>4. Head(x) = Chunk /\ Tail(x) = <<Final>>
    BY <1>1, ConsUnit, RestUnits, UnitsOfKinds
  <2> QED
    BY <1>1, <2>1, <2>3, <2>4, RestUnits, UnitsOfKinds DEF Rests
<1>2. CASE x = <<Final>>
  <2>1. /\ x # <<>> /\ Len(x) = 1 /\ x[1] = Final
    BY <1>2
  <2>2. \A i \in 1 .. (Len(x) - 1) : FALSE
    BY <2>1
  <2>3. Plain(x) /\ ~Holds(x)
    BY <2>1, <2>2, UnitsOfKinds DEF Plain, Holds
  <2>4. Head(x) = Final /\ Tail(x) = <<>>
    <3>1. <<>> \in Seq(Units)
      OBVIOUS
    <3> QED
      BY <1>2, <3>1, ConsUnit, RestUnits, UnitsOfKinds
  <2> QED
    BY <1>2, <2>1, <2>3, <2>4, RestUnits, UnitsOfKinds DEF Rests
<1> QED
  BY <1>1, <1>2 DEF Rests

HeldRest == <<Final>> \o TheRest

LEMMA HeldRestHolds ==
    HeldRest \in Seq(Units) /\ HeldRest # <<>> /\ Holds(HeldRest)
<1>1. /\ HeldRest \in Seq(Units) /\ HeldRest # <<>>
      /\ Len(HeldRest) = 3 /\ HeldRest[1] = Final
      /\ \A i \in 1 .. Len(TheRest) : HeldRest[i + 1] = TheRest[i]
  BY ConsUnit, RestUnits, UnitsOfKinds DEF HeldRest
<1>2. 1 \in 1 .. Len(TheRest) /\ 2 \in 1 .. Len(TheRest)
  BY RestUnits
<1>3. HeldRest[1 + 1] = TheRest[1] /\ HeldRest[2 + 1] = TheRest[2]
  BY <1>1, <1>2
<1>4. HeldRest[2] = Chunk /\ HeldRest[3] = Final
  BY <1>3 DEF TheRest
<1> QED
  BY <1>1, <1>4, UnitsOfKinds DEF Holds

LEMMA PreviewReads ==
    ASSUME NEW x \in Previews
    PROVE  /\ x \in Seq(Units) /\ x # <<>>
           /\ Holds(x) \/ Plain(x)
           /\ Head(x) \in {Chunk, Final, Ieof}
           /\ Head(x) = Chunk => Tail(x) \in Previews
           /\ Head(x) = Final => Tail(x) = TheRest /\ Holds(x)
           /\ Head(x) = Ieof => Tail(x) = <<>>
<1> DEFINE eof == <<Ieof>>
<1>1. /\ eof \in Seq(Units) /\ eof # <<>> /\ Plain(eof)
      /\ Head(eof) = Ieof /\ Tail(eof) = <<>>
  <2>1. eof # <<>> /\ Len(eof) = 1 /\ eof[1] = Ieof /\ eof \in Seq(Units)
    BY UnitsOfKinds
  <2>2. \A i \in 1 .. (Len(eof) - 1) : FALSE
    BY <2>1
  <2>3. Plain(eof)
    BY <2>1, <2>2, UnitsOfKinds DEF Plain
  <2>4. <<>> \in Seq(Units) /\ eof = eof \o <<>>
    BY <2>1, ConcatEmpty
  <2> QED
    BY <2>1, <2>3, <2>4, ConsUnit, UnitsOfKinds
<1>2. Previews = {<<Chunk>> \o HeldRest, HeldRest, <<Chunk>> \o eof, eof}
  <2>2. HeldRest = <<Final, Chunk, Final>>
    BY Pair, Triple, UnitsOfKinds DEF HeldRest, TheRest
  <2>1. <<Chunk>> \o HeldRest = <<Chunk, Final, Chunk, Final>>
    <3>1. <<Chunk>> \o <<Final, Chunk, Final>> = <<Chunk, Final, Chunk, Final>>
      BY Quadruple, UnitsOfKinds
    <3> QED
      BY <2>2, <3>1, Zenon
  <2>3. <<Chunk>> \o eof = <<Chunk, Ieof>>
    BY Pair, Triple, UnitsOfKinds
  <2> QED
    BY <2>1, <2>2, <2>3, Zenon DEF Previews, BodyUnits, Chunk, Final, Ieof
<1> HIDE DEF eof
<1>3. CASE x = <<Chunk>> \o HeldRest
  <2>1. /\ x \in Seq(Units) /\ x # <<>> /\ Head(x) = Chunk /\ Tail(x) = HeldRest
    BY <1>3, ConsUnit, HeldRestHolds, UnitsOfKinds
  <2>2. Holds(x)
    BY <1>3, HoldsCons, HeldRestHolds, UnitsOfKinds
  <2> QED
    BY <1>2, <2>1, <2>2, UnitsOfKinds
<1>4. CASE x = HeldRest
  <2>1. Head(x) = Final /\ Tail(x) = TheRest
    BY <1>4, ConsUnit, RestUnits, UnitsOfKinds DEF HeldRest
  <2> QED
    BY <1>4, <2>1, HeldRestHolds, UnitsOfKinds
<1>5. CASE x = <<Chunk>> \o eof
  <2>1. /\ x \in Seq(Units) /\ x # <<>> /\ Head(x) = Chunk /\ Tail(x) = eof
    BY <1>1, <1>5, ConsUnit, UnitsOfKinds
  <2>2. Plain(x)
    BY <1>1, <1>5, PlainCons, UnitsOfKinds
  <2> QED
    BY <1>2, <2>1, <2>2, UnitsOfKinds
<1>6. CASE x = eof
  BY <1>1, <1>6, UnitsOfKinds DEF eof
<1> QED
  BY <1>2, <1>3, <1>4, <1>5, <1>6

\* What may follow a header.
LEMMA BodyReads ==
    ASSUME NEW h \in Heads, NEW x \in BodyOf(h)
    PROVE  /\ x \in Seq(Units)
           /\ x = <<>> \/ Holds(x) \/ Plain(x)
           /\ Holds(x) => h.preview
           /\ ~h.body => x = <<>>
           /\ h.body => IF h.preview THEN x \in Previews ELSE x = TheRest
           /\ x # <<>> => x[1].kind # "head"
<1>1. CASE ~h.body
  <2>1. x = <<>>
    BY <1>1 DEF BodyOf
  <2> QED
    BY <1>1, <2>1 DEF Holds
<1>2. CASE h.body /\ h.preview
  <2>1. x \in Previews
    BY <1>2 DEF BodyOf, Previews, Heads
  <2>2. x[1] = Head(x)
    BY <2>1, PreviewReads
  <2> QED
    BY <1>2, <2>1, <2>2, PreviewReads, UnitsOfKinds
<1>3. CASE h.body /\ ~h.preview
  <2>1. x = TheRest
    <3>1. TheRest = <<Unit("chunk"), Unit("last")>>
      BY DEF TheRest, Chunk, Final
    <3> QED
      BY <1>3, <3>1 DEF BodyOf, BodyUnits
  <2> QED
    BY <1>3, <2>1, RestReads, RestUnits, UnitsOfKinds DEF Rests
<1> QED
  BY <1>1, <1>2, <1>3

LEMMA AfterReads ==
    ASSUME NEW h \in Heads, NEW x \in After(h)
    PROVE  /\ x \in Seq(Units)
           /\ x = <<>> \/ Holds(x) \/ Plain(x)
           /\ Holds(x) => h.preview
           /\ h.http => \E y \in BodyOf(h) : x = <<Part>> \o y
           /\ ~h.http => x \in BodyOf(h)
           /\ x # <<>> => x[1].kind # "head"
<1>1. PICK y \in BodyOf(h) : x = (IF h.http THEN <<Part>> ELSE <<>>) \o y
  BY DEF After
<1>2. /\ y \in Seq(Units)
      /\ y = <<>> \/ Holds(y) \/ Plain(y)
      /\ Holds(y) => h.preview
      /\ y # <<>> => y[1].kind # "head"
  BY BodyReads
<1>3. CASE h.http
  <2>1. x = <<Part>> \o y
    BY <1>1, <1>3
  <2>2. x \in Seq(Units) /\ x[1] = Part /\ x # <<>>
    BY <1>2, <2>1, ConsUnit, UnitsOfKinds
  <2>3. Holds(x) <=> Holds(y)
    BY <1>2, <2>1, HoldsCons, UnitsOfKinds
  <2>4. Holds(x) \/ Plain(x)
    <3>1. CASE y = <<>>
      <4>1. x = <<Part>>
        BY <2>1, <3>1, UnitsOfKinds
      <4>2. Len(x) = 1 /\ x[1] = Part /\ \A i \in 1 .. (Len(x) - 1) : FALSE
        BY <4>1
      <4> QED
        BY <2>2, <4>2, UnitsOfKinds DEF Plain
    <3>2. CASE Holds(y)
      BY <2>3, <3>2
    <3>3. CASE Plain(y)
      BY <1>2, <2>1, <3>3, PlainCons, UnitsOfKinds
    <3> QED
      BY <1>2, <3>1, <3>2, <3>3
  <2> QED
    BY <1>2, <1>3, <2>1, <2>2, <2>3, <2>4, UnitsOfKinds
<1>4. CASE ~h.http
  <2>1. x = y
    BY <1>1, <1>2, <1>4, ConcatEmpty
  <2> QED
    BY <1>2, <1>4, <2>1
<1> QED
  BY <1>3, <1>4

\* A request as a whole.
LEMMA RequestReads ==
    ASSUME NEW h \in Heads, NEW x \in After(h)
    PROVE  /\ <<h>> \o x \in Seq(Units) /\ <<h>> \o x # <<>>
           /\ (<<h>> \o x)[1] = h /\ Head(<<h>> \o x) = h
           /\ Tail(<<h>> \o x) = x
           /\ Holds(<<h>> \o x) <=> Holds(x)
           /\ Holds(<<h>> \o x) \/ Plain(<<h>> \o x)
<1>1. h \in Units /\ h.kind = "head"
  BY DEF Units, Heads
<1>2. x \in Seq(Units) /\ (x = <<>> \/ Holds(x) \/ Plain(x))
  BY AfterReads
<1>3. /\ <<h>> \o x \in Seq(Units) /\ <<h>> \o x # <<>>
      /\ (<<h>> \o x)[1] = h /\ Head(<<h>> \o x) = h
      /\ Tail(<<h>> \o x) = x
  BY <1>1, <1>2, ConsUnit
<1>4. Holds(<<h>> \o x) <=> Holds(x)
  BY <1>1, <1>2, HoldsCons
<1>5. Holds(<<h>> \o x) \/ Plain(<<h>> \o x)
  <2>1. CASE x = <<>>
    <3>1. <<h>> \o x = <<h>>
      <4>1. <<h>> \in Seq(Units)
        BY <1>1
      <4> QED
        BY <2>1, <4>1, ConcatEmpty
    <3>2. Plain(<<h>>)
      <4>1. Len(<<h>>) = 1 /\ <<h>>[1] = h /\ <<h>> # <<>>
        OBVIOUS
      <4>2. \A i \in 1 .. (Len(<<h>>) - 1) : FALSE
        BY <4>1
      <4> QED
        BY <1>1, <4>1, <4>2 DEF Plain
    <3> QED
      BY <3>1, <3>2
  <2>2. CASE Holds(x)
    BY <1>4, <2>2
  <2>3. CASE Plain(x)
    BY <1>1, <1>2, <2>3, PlainCons
  <2> QED
    BY <1>2, <2>1, <2>2, <2>3
<1> QED
  BY <1>3, <1>4, <1>5

\* What a client asks.
LEMMA AskedReads ==
    ASSUME NEW h \in Heads,
           NEW r \in Requests(h.id, h.method, h.preview, h.keep, h.http, h.body)
    PROVE  \E x \in After(h) : r = <<h>> \o x
<1>1. h = HeadOf(h.id, h.method, h.preview, h.keep, h.http, h.body)
  BY DEF Heads, HeadOf
<1>2. PICK y \in BodyOf(h) :
         r = (<<h>> \o (IF h.http THEN <<Part>> ELSE <<>>)) \o y
  BY <1>1, Zenon DEF Requests, BodyOf, Part
<1> DEFINE p == IF h.http THEN <<Part>> ELSE <<>>
<1>3. /\ <<h>> \in Seq(Units) /\ p \in Seq(Units) /\ y \in Seq(Units)
  <2>1. h \in Units
    BY DEF Units
  <2>2. <<Part>> \in Seq(Units)
    BY UnitsOfKinds
  <2> QED
    BY <2>1, <2>2, BodyReads
<1>4. p \o y \in After(h)
  BY DEF After
<1> HIDE DEF p
<1>5. (<<h>> \o p) \o y = <<h>> \o (p \o y)
  BY <1>3, ConcatAssociative
<1> QED
  BY <1>2, <1>4, <1>5 DEF p

-----------------------------------------------------------------------------
(* Every step keeps the two in step, or ends with a stray connection.  In   *)
(* these lemmas the connection works after the step, and so did before it,  *)
(* unless it is new.                                                        *)

LEMMA AcceptTalk ==
    ASSUME Accept
    PROVE  Orderly'
<1>1. /\ at' = "header" /\ peer' = "idle" /\ stream' = <<>>
      /\ asked' = 0 /\ answers' = <<>>
  BY DEF Accept
<1>2. AnswersInOrder'
  BY <1>1 DEF AnswersInOrder
<1>3. Idle'
  BY <1>1 DEF Idle
<1> QED
  BY <1>1, <1>2, <1>3 DEF Orderly

LEMMA ReadHeaderTalk ==
    ASSUME IInv, Orderly \/ Stray, ReadHeader
    PROVE  Orderly'
<1>1. /\ at = "header" /\ stream # <<>> /\ Head(stream).kind = "head"
      /\ req' = Head(stream) /\ stream' = Tail(stream) /\ at' = "find"
      /\ UNCHANGED <<got, peer, todo, asked, answers>>
  BY DEF ReadHeader, Dry, clientVars, answerVars
<1>2. stream \in Seq(Units) /\ todo \in Seq(Units)
  BY DEF IInv, TypeOK
<1>3. /\ (stream \o todo)[1] = Head(stream)
      /\ Tail(stream \o todo) = Tail(stream) \o todo
  BY <1>1, <1>2, ReadUnit
<1>4. stream[1] = Head(stream)
  BY <1>1, <1>2
<1>5. ~Stray
  BY <1>1, <1>3, <1>4 DEF Stray, Pending
<1>6. peer # "idle" /\ Reading /\ AnswersInOrder
  BY <1>1, <1>5 DEF Orderly, Idle
<1>7. PICK h \in Sendable :
         h.id = asked /\ \E x \in After(h) : Pending = <<h>> \o x
  BY <1>1, <1>6 DEF Reading, AtHeader
<1> PICK x \in After(h) : Pending = <<h>> \o x
  BY <1>7
<1>8. h \in Heads
  BY DEF Sendable
<1>9. /\ (<<h>> \o x)[1] = h /\ Tail(<<h>> \o x) = x
      /\ Holds(<<h>> \o x) <=> Holds(x)
  BY <1>8, RequestReads
<1>10. req' = h /\ Pending' = x
  BY <1>1, <1>3, <1>6, <1>7, <1>9 DEF Pending
<1>11. Held' <=> Held
  BY <1>1, <1>7, <1>9, <1>10 DEF Held
<1>12. Asking'
  BY <1>1, <1>6, <1>11 DEF Reading, Asking
<1>13. AtFind'
  BY <1>10 DEF AtFind
<1>14. Reading'
  BY <1>1, <1>6, <1>7, <1>10, <1>12, <1>13 DEF Reading
<1> QED
  BY <1>1, <1>6, <1>14 DEF Orderly, AnswersInOrder

LEMMA ReadGarbageTalk ==
    ASSUME IInv, Orderly \/ Stray, ReadGarbage
    PROVE  Stray'
<1>1. /\ at = "header" /\ stream # <<>> /\ Head(stream).kind # "head"
      /\ req' = NoRequest /\ at' = "find"
  BY DEF ReadGarbage, Dry
<1>2. stream \in Seq(Units) /\ todo \in Seq(Units)
  BY DEF IInv, TypeOK
<1>3. ~Orderly
  <2> SUFFICES ASSUME Orderly PROVE FALSE
    OBVIOUS
  <2>1. peer # "idle" /\ AtHeader
    BY <1>1 DEF Orderly, Idle, Reading
  <2>2. (stream \o todo)[1] = Head(stream)
    BY <1>1, <1>2, ReadUnit
  <2>3. PICK h \in Sendable : \E x \in After(h) : Pending = <<h>> \o x
    BY <2>1 DEF AtHeader
  <2> PICK x \in After(h) : Pending = <<h>> \o x
    BY <2>3
  <2>4. h \in Heads
    BY DEF Sendable
  <2>5. (<<h>> \o x)[1] = h /\ h.kind = "head"
    BY <2>4, RequestReads DEF Heads
  <2> QED
    BY <1>1, <2>1, <2>2, <2>3, <2>5 DEF Pending
<1>4. OddBodies \/ BareBodies
  BY <1>3 DEF Stray
<1>5. NoRequest.method = "OTHER" /\ ~NoRequest.keep
  BY DEF NoRequest, HeadOf
<1> QED
  BY <1>1, <1>4, <1>5 DEF Stray

\* With nothing pending, a client that asks waits, unless it has paused.
LEMMA NothingPending ==
    ASSUME stream \in Seq(Units), todo \in Seq(Units), peer # "idle",
           Asking, Pending = <<>>
    PROVE  stream = <<>> /\ peer = "waiting" /\ todo = <<>> /\ ~Held
<1>1. stream \o todo = <<>>
  BY DEF Pending
<1>2. stream = <<>> /\ todo = <<>>
  <2>1. Len(stream) + Len(todo) = Len(stream \o todo)
        /\ Len(stream) \in Nat /\ Len(todo) \in Nat
    BY ConcatProperties
  <2>2. Len(stream \o todo) = 0
    BY <1>1
  <2>3. Len(stream) = 0 /\ Len(todo) = 0
    BY <2>1, <2>2
  <2> QED
    BY <2>3, EmptySeq
<1>3. TheRest # <<>>
  BY RestUnits
<1>4. ~Holds(todo) /\ ~Plain(todo)
  BY <1>2 DEF Holds, Plain
<1> QED
  BY <1>2, <1>3, <1>4 DEF Asking

LEMMA FindHandlerTalk ==
    ASSUME IInv, Orderly \/ Stray, FindHandler
    PROVE  Orderly' \/ Stray'
<1>1. /\ at = "find" /\ got' = (IF req.body THEN "nothing" ELSE "whole")
      /\ entity' = (IF req.body THEN "body" ELSE "null-body")
      /\ ieof' = FALSE /\ module' = 1
      /\ UNCHANGED <<req, stream, peer, todo, asked, answers>>
  BY DEF FindHandler, clientVars, answerVars
<1>2. /\ stream \in Seq(Units) /\ todo \in Seq(Units) /\ req \in Heads
  BY DEF IInv, TypeOK
<1>3. \/ /\ req.method = "MOD" /\ resp' = "null"
         /\ at' = (IF req.http THEN "part"
                   ELSE IF req.body THEN "chunks" ELSE Process)
      \/ req.method # "MOD" /\ at' = "respond"
  BY DEF FindHandler
<1>4. CASE Stray
  <2>1. req.method = "OTHER" /\ ~req.keep
    BY <1>1, <1>4 DEF Stray
  <2> QED
    BY <1>1, <1>3, <1>4, <2>1 DEF Stray
<1>5. CASE Orderly
  <2>1. /\ peer # "idle" /\ AnswersInOrder /\ asked = Len(answers) + 1
        /\ Asking /\ req \in Sendable /\ req.id = asked /\ Pending \in After(req)
    BY <1>1, <1>5 DEF Orderly, Idle, Reading, AtFind
  <2>2. Pending' = Pending
    BY <1>1 DEF Pending
  <2>3. /\ Holds(Pending) => req.preview
        /\ req.http => \E y \in BodyOf(req) : Pending = <<Part>> \o y
        /\ ~req.http => Pending \in BodyOf(req)
        /\ Pending # <<>> => Pending[1].kind # "head"
    BY <1>2, <2>1, AfterReads
  <2>4. SUFFICES /\ Asking' /\ at' \notin {"header", "find", "rest"}
                 /\ at' = "part" => AtPart'
                 /\ at' = "chunks" => AtChunks'
                 /\ at' = "preview" => AtPreview'
                 /\ at' = "modify" => AtModify'
                 /\ at' = "respond" => Leftover'
    BY <1>1, <2>1 DEF Orderly, Reading, AnswersInOrder
  <2>5. CASE req.method # "MOD"
    <3>1. at' = "respond"
      BY <1>3, <2>5
    <3>2. ~Held /\ ~Held'
      BY <1>1, <1>3, <2>1, <2>3, <2>5 DEF Held, Sendable
    <3>3. Asking'
      BY <1>1, <2>1, <3>2 DEF Asking
    <3>4. Leftover'
      <4>1. CASE req.body
        BY <1>1, <2>1, <2>2, <2>3, <2>5, <4>1 DEF Leftover, Sendable
      <4>2. CASE ~req.body
        <5>1. Pending \in BodyOf(req)
          BY <2>1, <2>3, <2>5, <4>2 DEF Sendable
        <5> QED
          BY <2>2, <4>2, <5>1 DEF Leftover, BodyOf
      <4> QED
        BY <4>1, <4>2
    <3> QED
      BY <3>1, <3>3, <3>4
  <2>6. CASE req.method = "MOD" /\ req.http
    <3>1. at' = "part"
      BY <1>3, <2>6
    <3>2. Held' <=> Held
      BY <1>1, <2>2, <3>1 DEF Held
    <3>3. Asking'
      BY <1>1, <2>1, <3>1, <3>2 DEF Asking
    <3>4. AtPart'
      BY <1>1, <2>2, <2>3, <2>6 DEF AtPart, BodyOf
    <3> QED
      BY <3>1, <3>3, <3>4
  <2>7. CASE req.method = "MOD" /\ ~req.http /\ req.body
    <3>1. at' = "chunks"
      BY <1>3, <2>7
    <3>2. Held' <=> Held
      BY <1>1, <2>2, <3>1 DEF Held
    <3>3. Asking'
      BY <1>1, <2>1, <3>1, <3>2 DEF Asking
    <3>4. Pending \in IF req.preview THEN Previews ELSE Rests
      BY <1>2, <2>3, <2>7, BodyReads DEF Rests
    <3>5. AtChunks'
      BY <1>1, <2>1, <2>2, <2>7, <3>4 DEF AtChunks, Sendable
    <3> QED
      BY <3>1, <3>3, <3>5
  <2>8. CASE req.method = "MOD" /\ ~req.http /\ ~req.body
    <3>1. at' \in {"preview", "modify"} /\ resp' = "null" /\ got' = "whole"
          /\ entity' = "null-body"
      BY <1>1, <1>3, <2>8 DEF Process
    <3>2. Pending = <<>>
      BY <2>3, <2>8 DEF BodyOf
    <3>3. stream = <<>> /\ peer = "waiting" /\ todo = <<>>
      BY <1>2, <2>1, <3>2, NothingPending
    <3>4. Asking'
      BY <1>1, <3>1, <3>3 DEF Asking, Held
    <3>5. AtPreview'
      BY <1>1, <3>1, <3>3 DEF AtPreview
    <3>6. AtModify'
      BY <2>2, <3>1, <3>2 DEF AtModify, Leftover
    <3> QED
      BY <3>1, <3>4, <3>5, <3>6
  <2> QED
    BY <2>5, <2>6, <2>7, <2>8
<1> QED
  BY <1>4, <1>5

LEMMA ReadPartTalk ==
    ASSUME IInv, Orderly \/ Stray, ReadPart
    PROVE  Orderly'
<1>1. /\ at = "part" /\ stream # <<>> /\ stream' = Tail(stream)
      /\ at' = (IF req.body THEN "chunks" ELSE Process)
      /\ UNCHANGED <<req, got, ieof, entity, module, resp, peer, todo, asked,
                     answers>>
  BY DEF ReadPart, Dry, clientVars, answerVars
<1>2. stream \in Seq(Units) /\ todo \in Seq(Units) /\ req \in Heads
  BY DEF IInv, TypeOK
<1>3. /\ peer # "idle" /\ AnswersInOrder /\ asked = Len(answers) + 1 /\ Asking
      /\ req \in Sendable /\ req.id = asked /\ AtPart
  BY <1>1 DEF Orderly, Stray, Idle, Reading
<1>4. PICK x \in BodyOf(req) : Pending = <<Part>> \o x
  BY <1>3 DEF AtPart
<1>5. /\ x \in Seq(Units)
      /\ ~req.body => x = <<>>
      /\ req.body => IF req.preview THEN x \in Previews ELSE x = TheRest
  BY <1>2, BodyReads
<1>6. Tail(Pending) = x /\ (Holds(Pending) <=> Holds(x))
  BY <1>4, <1>5, ConsUnit, HoldsCons, UnitsOfKinds
<1>7. stream' \in Seq(Units) /\ Pending' = x
  BY <1>1, <1>2, <1>3, <1>6, ReadUnit DEF Pending
<1>8. SUFFICES /\ Asking' /\ at' \in {"chunks", "preview", "modify"}
               /\ at' = "chunks" => AtChunks'
               /\ at' = "preview" => AtPreview'
               /\ at' = "modify" => AtModify'
  BY <1>1, <1>3 DEF Orderly, Reading, AnswersInOrder
<1>9. CASE req.body
  <2>1. at' = "chunks"
    BY <1>1, <1>9
  <2>2. Held' <=> Held
    BY <1>1, <1>6, <1>7, <2>1 DEF Held
  <2>3. Asking'
    BY <1>1, <1>3, <2>1, <2>2 DEF Asking
  <2>4. AtChunks'
    BY <1>1, <1>3, <1>5, <1>7, <1>9 DEF AtChunks, AtPart, Rests
  <2> QED
    BY <2>1, <2>3, <2>4
<1>10. CASE ~req.body
  <2>1. at' \in {"preview", "modify"}
    BY <1>1, <1>10 DEF Process
  <2>2. got = "whole" /\ entity = "null-body" /\ module = 1
    BY <1>3, <1>10 DEF AtPart
  <2>3. Pending' = <<>>
    BY <1>5, <1>7, <1>10
  <2>4. ~Holds(Pending)
    BY <1>5, <1>6, <1>10 DEF Holds
  <2>5. ~Held /\ ~Held'
    BY <1>1, <2>1, <2>2, <2>4 DEF Held
  <2>6. Asking'
    BY <1>1, <1>3, <2>5 DEF Asking
  <2>7. stream' = <<>> /\ peer' = "waiting" /\ todo' = <<>>
    <3>1. (peer = "sending" /\ Plain(todo)) \/ (peer = "waiting" /\ todo = <<>>)
      BY <1>1, <1>3, <2>5 DEF Asking
    <3>2. stream' \o todo = <<>> /\ stream' \in Seq(Units)
      BY <1>1, <1>3, <1>7, <2>3 DEF Pending
    <3>3. Len(stream') + Len(todo) = 0 /\ Len(stream') \in Nat /\ Len(todo) \in Nat
      BY <1>2, <3>2, ConcatProperties
    <3>4. Len(stream') = 0 /\ Len(todo) = 0
      BY <3>3
    <3> QED
      BY <1>1, <1>2, <3>1, <3>2, <3>4, EmptySeq DEF Plain
  <2>8. AtPreview'
    BY <1>1, <2>2, <2>7 DEF AtPreview
  <2>9. AtModify'
    BY <1>1, <2>2, <2>3 DEF AtModify, Leftover
  <2> QED
    BY <2>1, <2>6, <2>8, <2>9
<1> QED
  BY <1>9, <1>10

LEMMA ReadRestTalk ==
    ASSUME IInv, Orderly \/ Stray, ReadChunk, at = "rest"
    PROVE  Orderly'
<1>1. /\ stream # <<>> /\ stream' = Tail(stream)
      /\ \/ /\ Head(stream).kind = "chunk"
            /\ got' = got /\ at' = at
         \/ /\ Head(stream).kind \in {"last", "ieof"}
            /\ got' = "whole" /\ at' = "modify"
      /\ UNCHANGED <<req, module, resp, peer, todo, asked, answers>>
  BY DEF ReadChunk, Dry, clientVars, answerVars
<1>2. stream \in Seq(Units) /\ todo \in Seq(Units)
  BY DEF IInv, TypeOK
<1>3. /\ peer # "idle" /\ AnswersInOrder /\ asked = Len(answers) + 1 /\ Asking
      /\ req \in Sendable /\ req.id = asked /\ AtRest
  BY DEF Orderly, Stray, Idle, Reading
<1>4. Pending' = Tail(Pending) /\ Head(stream) = Head(Pending)
  <2>1. stream \o todo \in Seq(Units)
    BY <1>2, ConcatProperties
  <2>2. Head(stream) = (stream \o todo)[1] /\ stream \o todo # <<>>
        /\ Tail(stream \o todo) = Tail(stream) \o todo
    BY <1>1, <1>2, ReadUnit
  <2>3. Head(stream \o todo) = (stream \o todo)[1]
    BY <2>1, <2>2
  <2> QED
    BY <1>1, <1>3, <2>2, <2>3 DEF Pending
<1>5. /\ Head(Pending) \in {Chunk, Final}
      /\ Head(Pending) = Chunk => Tail(Pending) \in Rests
      /\ Head(Pending) = Final => Tail(Pending) = <<>>
  BY <1>3, RestReads DEF AtRest
<1>6. at' \in {"rest", "modify"} /\ Asking'
  <2>1. at' \in {"rest", "modify"}
    BY <1>1
  <2>2. ~Held /\ ~Held'
    BY <2>1 DEF Held
  <2> QED
    BY <1>1, <1>3, <2>1, <2>2 DEF Asking
<1>7. at' = "rest" => AtRest'
  BY <1>1, <1>3, <1>4, <1>5, UnitsOfKinds DEF AtRest
<1>8. at' = "modify" => AtModify'
  BY <1>1, <1>4, <1>5, UnitsOfKinds DEF AtModify, Leftover
<1> QED
  BY <1>1, <1>3, <1>6, <1>7, <1>8 DEF Orderly, Reading, AnswersInOrder

LEMMA ReadBodyTalk ==
    ASSUME IInv, Orderly \/ Stray, ReadChunk, at = "chunks"
    PROVE  Orderly'
<1>1. /\ stream # <<>> /\ stream' = Tail(stream)
      /\ \/ /\ Head(stream).kind = "chunk"
            /\ UNCHANGED <<at, ieof, entity>>
         \/ /\ Head(stream).kind \in {"last", "ieof"}
            /\ ieof' = (Head(stream).kind = "ieof")
            /\ got' = (IF req.preview /\ ~ieof' THEN "preview" ELSE "whole")
            /\ entity' = LastEntity
            /\ at' = Process
      /\ UNCHANGED <<req, module, resp, peer, todo, asked, answers>>
  BY DEF ReadChunk, Dry, clientVars, answerVars
<1>2. stream \in Seq(Units) /\ todo \in Seq(Units)
  BY DEF IInv, TypeOK
<1>3. /\ peer # "idle" /\ AnswersInOrder /\ asked = Len(answers) + 1 /\ Asking
      /\ req \in Sendable /\ req.id = asked /\ AtChunks
  BY DEF Orderly, Stray, Idle, Reading
<1>4. Pending' = Tail(Pending) /\ Head(stream) = Head(Pending)
      /\ stream' \in Seq(Units) /\ Pending \in Seq(Units) /\ Pending # <<>>
  <2>1. stream \o todo \in Seq(Units)
    BY <1>2, ConcatProperties
  <2>2. Head(stream) = (stream \o todo)[1] /\ stream \o todo # <<>>
        /\ Tail(stream \o todo) = Tail(stream) \o todo
        /\ Tail(stream) \in Seq(Units)
    BY <1>1, <1>2, ReadUnit
  <2>3. Head(stream \o todo) = (stream \o todo)[1]
    BY <2>1, <2>2
  <2> QED
    BY <1>1, <1>3, <2>1, <2>2, <2>3 DEF Pending
<1>5. /\ req.body /\ entity = "body" /\ module = 1 /\ (req.http \/ BareBodies)
      /\ Pending \in IF req.preview THEN Previews ELSE Rests
  BY <1>3 DEF AtChunks
<1>6. CASE Head(stream).kind = "chunk"
  <2>1. at' = "chunks" /\ entity' = entity
    BY <1>1, <1>6
  <2>2. Head(Pending) = Chunk
    BY <1>4, <1>5, <1>6, PreviewReads, RestReads, UnitsOfKinds
  <2>3. Pending' \in IF req.preview THEN Previews ELSE Rests
    BY <1>4, <1>5, <2>2, PreviewReads, RestReads
  <2>4. Pending = <<Chunk>> \o Pending' /\ Pending' \in Seq(Units)
    BY <1>4, <2>2, HeadAndTail, HeadTailProperties
  <2>5. Held' <=> Held
    BY <2>1, <2>4, HoldsCons, UnitsOfKinds DEF Held
  <2>6. Asking'
    BY <1>1, <1>3, <2>1, <2>5 DEF Asking
  <2>7. AtChunks'
    BY <1>1, <1>5, <2>1, <2>3 DEF AtChunks
  <2> QED
    BY <1>1, <1>3, <2>1, <2>6, <2>7 DEF Orderly, Reading, AnswersInOrder
<1>7. CASE Head(stream).kind # "chunk"
  <2>1. /\ ieof' = (Head(stream).kind = "ieof")
        /\ got' = (IF req.preview /\ ~ieof' THEN "preview" ELSE "whole")
        /\ entity' = LastEntity /\ at' = Process
    BY <1>1, <1>7
  <2>2. entity' = "body" \/ BareBodies
    BY <1>5, <2>1 DEF LastEntity
  <2>3. ASSUME Pending' = <<>>, ~Held
        PROVE  stream' = <<>> /\ peer = "waiting" /\ todo = <<>>
    <3>1. (peer = "sending" /\ Plain(todo)) \/ (peer = "waiting" /\ todo = <<>>)
      BY <1>3, <2>3 DEF Asking
    <3>2. stream' \o todo = <<>>
      BY <1>1, <1>3, <2>3 DEF Pending
    <3>3. Len(stream') + Len(todo) = 0 /\ Len(stream') \in Nat /\ Len(todo) \in Nat
      BY <1>2, <1>4, <3>2, ConcatProperties
    <3>4. Len(stream') = 0 /\ Len(todo) = 0
      BY <3>3
    <3> QED
      BY <1>2, <1>4, <3>1, <3>4, EmptySeq DEF Plain
  <2>4. CASE ~req.preview
    <3>1. Head(Pending) = Final /\ Pending' = <<>> /\ ~Holds(Pending)
      BY <1>4, <1>5, <1>7, <2>4, RestReads, UnitsOfKinds
    <3>2. at' = "modify" /\ got' = "whole" /\ ~Held
      BY <2>1, <2>4, <3>1 DEF Process, Held
    <3>3. peer = "waiting" /\ todo = <<>>
      BY <2>3, <3>1, <3>2
    <3>4. Asking'
      BY <1>1, <3>2, <3>3 DEF Asking, Held
    <3>5. AtModify'
      BY <3>1, <3>2 DEF AtModify, Leftover
    <3> QED
      BY <1>1, <1>3, <3>2, <3>4, <3>5 DEF Orderly, Reading, AnswersInOrder
  <2>5. CASE req.preview /\ Head(stream).kind = "ieof"
    <3>1. Head(Pending) = Ieof /\ Pending' = <<>>
      BY <1>4, <1>5, <2>5, PreviewReads, UnitsOfKinds
    <3>2. ~Holds(Pending)
      BY <1>4, <3>1, HoldsTail
    <3>3. at' = "preview" /\ got' = "whole" /\ ieof' /\ ~Held
      BY <2>1, <2>5, <3>2 DEF Process, Held
    <3>4. stream' = <<>> /\ peer = "waiting" /\ todo = <<>>
      BY <2>3, <3>1, <3>3
    <3>5. Asking'
      BY <1>1, <3>3, <3>4 DEF Asking, Held
    <3>6. AtPreview'
      BY <1>1, <1>5, <3>3, <3>4 DEF AtPreview
    <3> QED
      BY <1>1, <1>3, <3>3, <3>5, <3>6 DEF Orderly, Reading, AnswersInOrder
  <2>6. CASE req.preview /\ Head(stream).kind # "ieof"
    <3>1. Head(Pending) = Final /\ Pending' = TheRest /\ Holds(Pending)
      BY <1>4, <1>5, <1>7, <2>6, PreviewReads, UnitsOfKinds
    <3>2. at' = "preview" /\ got' = "preview" /\ ~ieof' /\ Held
      BY <2>1, <2>6, <3>1 DEF Process, Held
    <3>3. stream' \o todo = TheRest /\ Len(stream') + Len(todo) = 2
          /\ Len(stream') \in Nat /\ Len(todo) \in Nat
      BY <1>1, <1>2, <1>3, <1>4, <3>1, ConcatProperties, RestUnits DEF Pending
    <3>4. peer = "paused" /\ todo = TheRest
      <4>1. ~Holds(todo)
        BY <3>3 DEF Holds
      <4> QED
        BY <1>3, <3>2, <4>1 DEF Asking
    <3>5. stream' = <<>>
      <4>1. Len(stream') = 0
        BY <3>3, <3>4, RestUnits
      <4> QED
        BY <1>4, <4>1, EmptySeq
    <3>6. Asking'
      BY <1>1, <3>2, <3>4 DEF Asking, Held
    <3>7. AtPreview'
      BY <1>1, <1>5, <2>2, <3>2, <3>4, <3>5 DEF AtPreview
    <3> QED
      BY <1>1, <1>3, <3>2, <3>6, <3>7 DEF Orderly, Reading, AnswersInOrder
  <2> QED
    BY <2>4, <2>5, <2>6
<1> QED
  BY <1>6, <1>7

\* The loops over the modules.
LEMMA ModulesTalk ==
    ASSUME IInv, Orderly \/ Stray,
           \/ PassOver \/ Preview \/ RefuseContinue \/ Continue \/ PreviewEnds
           \/ Modify \/ ModifyEnds,
           ~broken
    PROVE  Orderly'
<1> USE DEF clientVars, answerVars
<1>1. /\ at \in {"preview", "modify"}
      /\ at' \in {"preview", "modify", "rest", "respond"}
      /\ UNCHANGED <<req, got, ieof, entity, stream, todo, asked, answers>>
      /\ (Continue /\ peer' = (IF peer = "paused" THEN "sending" ELSE peer))
         \/ UNCHANGED peer
  BY DEF PassOver, Preview, RefuseContinue, Continue, PreviewEnds, Modify,
         ModifyEnds
<1>2. stream \in Seq(Units) /\ todo \in Seq(Units) /\ module \in Nat
  BY DEF IInv, TypeOK
<1>3. /\ peer # "idle" /\ AnswersInOrder /\ asked = Len(answers) + 1 /\ Asking
      /\ req \in Sendable /\ req.id = asked
      /\ at = "preview" => AtPreview
      /\ at = "modify" => AtModify
  BY <1>1 DEF Orderly, Stray, Idle, Reading
<1>4. peer' # "idle" /\ Pending' = Pending
  BY <1>1, <1>3 DEF Pending
<1>5. SUFFICES /\ Asking'
               /\ at' = "rest" => AtRest'
               /\ at' = "preview" => AtPreview'
               /\ at' = "modify" => AtModify'
               /\ at' = "respond" => Leftover'
  BY <1>1, <1>3, <1>4 DEF Orderly, Reading, AnswersInOrder
<1>6. CASE at = "modify"
  <2>1. at' \in {"modify", "respond"} /\ peer' = peer
    BY <1>1, <1>6 DEF PassOver, Preview, RefuseContinue, Continue, PreviewEnds,
                      Modify, ModifyEnds
  <2>2. ~Held /\ ~Held'
    BY <1>6, <2>1 DEF Held
  <2>3. Asking'
    BY <1>1, <1>3, <1>6, <2>1, <2>2 DEF Asking
  <2>4. Leftover'
    BY <1>1, <1>3, <1>4, <1>6, <2>1 DEF AtModify, Leftover
  <2> QED
    BY <1>1, <1>3, <1>6, <2>1, <2>3, <2>4 DEF AtModify
<1>7. CASE at = "preview"
  <2>1. /\ stream = <<>>
        /\ \/ /\ got = "preview" /\ peer = "paused" /\ todo = TheRest /\ ~ieof
              /\ entity = "body" \/ BareBodies
           \/ /\ got = "whole" /\ peer = "waiting" /\ todo = <<>>
              /\ ieof \/ entity = "null-body"
        /\ resp = "null" => \A m \in 1 .. (module - 1) : m \notin Loaded
    BY <1>3, <1>7 DEF AtPreview, Asking
  <2>2. Pending = todo
    BY <1>2, <1>3, <2>1, ConcatEmpty DEF Pending
  <2>3. ASSUME UNCHANGED peer, at' \in {"modify", "respond"}
        PROVE  Asking' /\ Leftover'
    <3>1. ~Held'
      BY <2>3 DEF Held
    <3>2. Asking'
      BY <1>1, <2>1, <2>3, <3>1 DEF Asking
    <3>3. Leftover'
      BY <1>1, <1>4, <2>1, <2>2, <2>3 DEF Leftover
    <3> QED
      BY <3>2, <3>3
  <2>4. ASSUME UNCHANGED <<peer, at>> PROVE Asking'
    <3>1. Held' <=> Held
      BY <1>1, <1>7, <2>4 DEF Held
    <3> QED
      BY <1>1, <1>3, <1>7, <2>4, <3>1 DEF Asking
  <2>5. CASE PassOver
    <3>1. at' = "preview" /\ UNCHANGED <<resp, peer, at>> /\ module' = module + 1
          /\ module \notin Loaded
      BY <1>7, <2>5 DEF PassOver
    <3>2. resp' = "null" => \A m \in 1 .. (module' - 1) : m \notin Loaded
      <4> SUFFICES ASSUME resp' = "null", NEW m \in 1 .. (module' - 1)
                   PROVE  m \notin Loaded
        OBVIOUS
      <4>1. m = module \/ m \in 1 .. (module - 1)
        BY <1>2, <3>1
      <4> QED
        BY <2>1, <3>1, <4>1
    <3>3. AtPreview'
      BY <1>1, <2>1, <3>1, <3>2 DEF AtPreview
    <3> QED
      BY <2>4, <3>1, <3>3
  <2>6. CASE Preview
    <3>1. resp' # "null" /\ UNCHANGED peer
          /\ (at' = "respond" \/ UNCHANGED at)
      BY <2>6 DEF Preview, PreviewStatus
    <3>2. AtPreview'
      BY <1>1, <2>1, <3>1 DEF AtPreview
    <3> QED
      BY <1>7, <2>3, <2>4, <3>1, <3>2
  <2>7. CASE RefuseContinue
    BY <2>3, <2>7 DEF RefuseContinue
  <2>8. CASE Continue
    <3>1. ~ieof /\ at' = (IF entity = "body" THEN "rest" ELSE "modify")
      BY <2>8 DEF Continue
    <3>2. CASE got = "preview"
      <4>1. peer' = "sending" /\ ~Held'
        BY <1>1, <2>1, <2>8, <3>1, <3>2 DEF Held, Continue
      <4>2. Asking'
        BY <1>1, <2>1, <3>2, <4>1, RestReads DEF Asking, Rests
      <4>3. at' = "rest" => AtRest'
        BY <1>1, <1>4, <2>1, <2>2, <3>2 DEF AtRest, Rests
      <4>4. at' = "modify" => AtModify'
        <5>1. Pending' = TheRest
          BY <1>4, <2>1, <2>2, <3>2
        <5> QED
          BY <2>1, <3>1, <3>2, <5>1, RestUnits, UnitsOfKinds DEF AtModify, Leftover
      <4> QED
        BY <3>1, <4>2, <4>3, <4>4
    <3>3. CASE got # "preview"
      <4>1. at' = "modify" /\ UNCHANGED peer /\ got' = "whole"
        BY <1>1, <2>1, <2>8, <3>1, <3>3 DEF Continue
      <4>2. AtModify'
        BY <2>3, <4>1 DEF AtModify
      <4> QED
        BY <2>3, <4>1, <4>2
    <3> QED
      BY <3>2, <3>3
  <2>9. CASE PreviewEnds
    <3>1. module > NumModules /\ UNCHANGED peer
          /\ at' = (IF resp = "null" THEN "modify" ELSE "respond")
      BY <1>2, <2>9, SessionAssumption DEF PreviewEnds, Untried
    <3>2. at' = "modify" => Loaded = {}
      <4> SUFFICES ASSUME at' = "modify", NEW m \in Loaded PROVE FALSE
        OBVIOUS
      <4>1. m \in 1 .. (module - 1)
        BY <1>2, <3>1, SessionAssumption
      <4> QED
        BY <2>1, <3>1, <4>1
    <3>3. at' = "modify" => AtModify'
      BY <2>3, <3>1, <3>2 DEF AtModify
    <3> QED
      BY <2>3, <3>1, <3>3
  <2>10. CASE Modify \/ ModifyEnds
    BY <1>7, <2>10 DEF Modify, ModifyEnds
  <2> QED
    BY <2>5, <2>6, <2>7, <2>8, <2>9, <2>10
<1> QED
  BY <1>1, <1>6, <1>7

LEMMA AnswerGiven ==
    ASSUME NEW S, NEW s \in Seq(S), NEW e \in S, \A k \in DOMAIN s : s[k] = k,
           e = Len(s) + 1
    PROVE  /\ \A k \in DOMAIN Append(s, e) : Append(s, e)[k] = k
           /\ Len(Append(s, e)) = e
<1>1. /\ Append(s, e) \in Seq(S) /\ Len(Append(s, e)) = Len(s) + 1
      /\ \A i \in 1 .. Len(s) : Append(s, e)[i] = s[i]
      /\ Append(s, e)[Len(s) + 1] = e /\ Len(s) \in Nat
  BY AppendProperties
<1>2. DOMAIN Append(s, e) = 1 .. (Len(s) + 1) /\ DOMAIN s = 1 .. Len(s)
  BY <1>1
<1> QED
  BY <1>1, <1>2

LEMMA RespondTalk ==
    ASSUME IInv, Orderly \/ Stray, Respond, ~broken, at' # "closing"
    PROVE  Orderly' \/ Stray'
<1>1. /\ at = "respond" /\ at' = "header" /\ req.keep
      /\ answers' = Append(answers, req.id)
      /\ peer' = (IF peer # "sending" /\ req.id = asked THEN "idle" ELSE peer)
      /\ UNCHANGED <<req, stream, todo, asked>>
  BY DEF Respond
<1>2. /\ stream \in Seq(Units) /\ todo \in Seq(Units)
      /\ answers \in Seq(0 .. MaxAsked) /\ asked \in 0 .. MaxAsked
  BY DEF IInv, TypeOK
<1>3. /\ peer # "idle" /\ AnswersInOrder /\ asked = Len(answers) + 1 /\ Asking
      /\ req.id = asked /\ Leftover
  BY <1>1 DEF Orderly, Stray, Idle, Reading
<1>4. AnswersInOrder' /\ Len(answers') = asked'
  BY <1>1, <1>2, <1>3, AnswerGiven DEF AnswersInOrder
<1>5. ~Held
  BY <1>1 DEF Held
<1>6. ASSUME stream = <<>>, peer # "sending" PROVE Orderly'
  BY <1>1, <1>3, <1>4, <1>6 DEF Orderly, Idle
<1>7. CASE Pending = <<>>
  BY <1>2, <1>3, <1>6, <1>7, NothingPending
<1>8. CASE peer = "paused"
  <2>1. stream = <<>>
    BY <1>3, <1>5, <1>8 DEF Asking
  <2> QED
    BY <1>6, <1>8, <2>1
<1>9. CASE /\ OddBodies \/ BareBodies
           /\ Pending # <<>> /\ Pending[1].kind # "head"
           /\ peer = "sending"
  <2>1. Plain(todo)
    BY <1>3, <1>5, <1>9 DEF Asking
  <2>2. todo # <<>> /\ todo[Len(todo)].kind # "chunk"
    BY <1>2, <2>1, PlainTail
  <2>3. Pending' = Pending /\ peer' = "sending"
    BY <1>1, <1>9 DEF Pending
  <2> QED
    BY <1>1, <1>9, <2>2, <2>3 DEF Stray
<1>10. CASE /\ OddBodies \/ BareBodies
            /\ Pending # <<>> /\ Pending[1].kind # "head"
            /\ peer = "waiting"
  <2>1. todo = <<>>
    BY <1>3, <1>10 DEF Asking
  <2>2. Pending = stream /\ peer' = "idle" /\ Pending' = stream
    BY <1>1, <1>2, <1>3, <1>10, <2>1, ConcatEmpty DEF Pending
  <2> QED
    BY <1>1, <1>10, <2>2 DEF Stray
<1>11. peer \in {"sending", "paused", "waiting"}
  BY <1>3 DEF Asking
<1> QED
  BY <1>3, <1>7, <1>8, <1>9, <1>10, <1>11 DEF Leftover

LEMMA AskTalk ==
    ASSUME IInv, Orderly \/ Stray, Ask
    PROVE  Orderly' \/ Stray'
<1>1. /\ peer = "idle" /\ peer' = "sending" /\ asked' = asked + 1
      /\ UNCHANGED <<at, req, got, ieof, entity, module, resp, broken, stream,
                     answers>>
  BY DEF Ask, workerVars, answerVars
<1>2. /\ stream \in Seq(Units) /\ asked + 1 \in 0 .. MaxAsked
  BY SessionAssumption DEF IInv, TypeOK, Ask
<1>3. PICK method \in Methods, preview \in BOOLEAN, keep \in BOOLEAN,
           http \in BOOLEAN, body \in BOOLEAN :
          /\ body /\ method # "MOD" => OddBodies
          /\ body /\ ~http => BareBodies
          /\ method # "MOD" => (http <=> body) /\ ~preview
          /\ todo' \in Requests(asked + 1, method, preview, keep, http, body)
  BY DEF Ask
<1> DEFINE h == HeadOf(asked + 1, method, preview, keep, http, body)
<1>4. h \in Heads
  BY <1>2, HeadOfType
<1>5. /\ h.id = asked + 1 /\ h.method = method /\ h.preview = preview
      /\ h.keep = keep /\ h.http = http /\ h.body = body
  BY DEF HeadOf
<1>6. h \in Sendable
  BY <1>3, <1>4, <1>5 DEF Sendable
<1> HIDE DEF h
<1>7. PICK x \in After(h) : todo' = <<h>> \o x
  BY <1>3, <1>4, <1>5, AskedReads
<1>8. /\ todo' \in Seq(Units) /\ todo' # <<>>
      /\ Holds(todo') \/ Plain(todo')
  BY <1>4, <1>7, RequestReads
<1>9. CASE Orderly
  <2>1. /\ at = "header" /\ stream = <<>> /\ asked = Len(answers)
        /\ AnswersInOrder
    BY <1>1, <1>9 DEF Orderly, Idle
  <2>2. Pending' = todo'
    <3>1. <<>> \o todo' = todo'
      BY <1>8, ConcatEmpty
    <3> QED
      BY <1>1, <2>1, <3>1 DEF Pending
  <2>3. AtHeader'
    BY <1>1, <1>5, <1>6, <1>7, <2>2 DEF AtHeader
  <2>4. Held' <=> Holds(todo')
    BY <1>1, <2>1, <2>2 DEF Held
  <2>5. Asking'
    BY <1>1, <1>8, <2>4 DEF Asking
  <2>6. Reading'
    BY <1>1, <2>1, <2>3, <2>5 DEF Reading
  <2> QED
    BY <1>1, <2>1, <2>6 DEF Orderly, AnswersInOrder
<1>10. CASE Stray
  <2>1. CASE at # "header"
    BY <1>1, <1>10, <2>1 DEF Stray
  <2>2. CASE at = "header"
    <3>1. stream # <<>> /\ stream[1].kind # "head"
      BY <1>1, <1>10, <2>2 DEF Stray, Pending
    <3>2. stream \o todo' # <<>> /\ (stream \o todo')[1] = Head(stream)
      BY <1>2, <1>8, <3>1, ReadUnit
    <3>3. Head(stream) = stream[1]
      BY <1>2, <3>1
    <3>4. Pending' # <<>> /\ Pending'[1].kind # "head"
      BY <1>1, <3>1, <3>2, <3>3 DEF Pending
    <3>5. todo'[Len(todo')].kind # "chunk"
      BY <1>8, HoldsTail, PlainTail
    <3> QED
      BY <1>1, <1>8, <1>10, <2>2, <3>4, <3>5 DEF Stray
  <2> QED
    BY <2>1, <2>2
<1> QED
  BY <1>9, <1>10

\* What the client does once it has sent a unit.
LEMMA AfterUnit ==
    ASSUME SendUnit
    PROVE  /\ todo' = <<>> /\ asked \in ToSet(answers) => peer' = "idle"
           /\ todo' = <<>> /\ asked \notin ToSet(answers) => peer' = "waiting"
           /\ todo' # <<>> /\ Head(todo).kind = "last" => peer' = "paused"
           /\ todo' # <<>> /\ Head(todo).kind # "last" => peer' = "sending"
  BY Zenon DEF SendUnit

LEMMA SendUnitTalk ==
    ASSUME IInv, Orderly \/ Stray, SendUnit
    PROVE  Orderly' \/ Stray'
<1>1. /\ peer = "sending" /\ stream' = Append(stream, Head(todo))
      /\ todo' = Tail(todo) /\ todo # <<>>
      /\ UNCHANGED <<at, req, got, ieof, entity, module, resp, broken, asked,
                     answers>>
  BY DEF SendUnit, IInv, Unsent, workerVars, answerVars
<1>2. /\ stream \in Seq(Units) /\ todo \in Seq(Units)
      /\ answers \in Seq(0 .. MaxAsked)
  BY DEF IInv, TypeOK
<1>3. /\ stream' \o todo' = stream \o todo
      /\ stream' \in Seq(Units) /\ todo' \in Seq(Units) /\ Head(todo) \in Units
  BY <1>1, <1>2, SentUnit
<1>4. Pending' = Pending
  <2>1. CASE peer' = "idle"
    <3>1. todo' = <<>>
      BY <2>1, AfterUnit
    <3> QED
      BY <1>1, <1>3, <2>1, <3>1, ConcatEmpty DEF Pending
  <2>2. CASE peer' # "idle"
    BY <1>1, <1>3, <2>2 DEF Pending
  <2> QED
    BY <2>1, <2>2
<1>5. CASE Orderly
  <2>1. Reading /\ AnswersInOrder
    BY <1>1, <1>5 DEF Orderly
  <2>2. Asking /\ asked = Len(answers) + 1
    BY <2>1 DEF Reading
  <2>3. asked \notin ToSet(answers)
    <3>1. \A k \in 1 .. Len(answers) : answers[k] = k
      BY <1>2, <2>1 DEF AnswersInOrder
    <3>2. ToSet(answers) = {answers[k] : k \in 1 .. Len(answers)}
      BY <1>2 DEF ToSet
    <3>3. Len(answers) \in Nat
      BY <1>2
    <3> QED
      BY <2>2, <3>1, <3>2, <3>3
  <2>4. Held' <=> Held
    BY <1>1, <1>4 DEF Held
  <2>6. Asking' /\ peer' # "idle"
    <3>1. CASE Held
      <4>1. Holds(todo)
        BY <1>1, <2>2, <3>1 DEF Asking
      <4>2. /\ todo' # <<>>
            /\ Head(todo).kind = "last" => todo' = TheRest
            /\ Head(todo).kind # "last" => Holds(todo')
        BY <1>1, <1>2, <4>1, HoldsTail
      <4> QED
        BY <2>4, <3>1, <4>2, AfterUnit DEF Asking
    <3>2. CASE ~Held
      <4>1. Plain(todo)
        BY <1>1, <2>2, <3>2 DEF Asking
      <4>2. todo' # <<>> => Head(todo).kind # "last" /\ Plain(todo')
        BY <1>1, <1>2, <4>1, PlainTail
      <4> QED
        BY <2>3, <2>4, <3>2, <4>2, AfterUnit DEF Asking
    <3> QED
      BY <3>1, <3>2
  <2>7. at # "preview"
    BY <1>1, <2>1 DEF Reading, AtPreview
  <2>8. at \in {"modify", "respond"} /\ Leftover => Leftover'
    BY <1>1, <1>4 DEF Leftover
  <2>9. at = "modify" => AtModify'
    BY <1>1, <2>1, <2>8 DEF Reading, AtModify
  <2>10. /\ at = "header" => AtHeader'
         /\ at = "find" => AtFind'
    BY <1>1, <1>4, <2>1 DEF Reading, AtHeader, AtFind
  <2>11. /\ at = "part" => AtPart'
         /\ at = "chunks" => AtChunks'
         /\ at = "rest" => AtRest'
    BY <1>1, <1>4, <2>1 DEF Reading, AtPart, AtChunks, AtRest
  <2>12. Reading'
    BY <1>1, <2>1, <2>2, <2>6, <2>7, <2>8, <2>9, <2>10, <2>11 DEF Reading
  <2> QED
    BY <1>1, <2>1, <2>6, <2>12 DEF Orderly, AnswersInOrder
<1>6. CASE Stray
  <2>1. CASE at # "header"
    BY <1>1, <1>6, <2>1 DEF Stray
  <2>2. CASE at = "header"
    <3>1. Pending # <<>> /\ Pending[1].kind # "head"
          /\ todo[Len(todo)].kind # "chunk"
      BY <1>1, <1>6, <2>2 DEF Stray
    <3>2. peer' = "sending" => todo' # <<>> /\ todo'[Len(todo')].kind # "chunk"
      <4> SUFFICES ASSUME peer' = "sending"
                   PROVE  todo' # <<>> /\ todo'[Len(todo')].kind # "chunk"
        OBVIOUS
      <4>1. todo' # <<>>
        BY AfterUnit
      <4>2. /\ Len(todo') = Len(todo) - 1 /\ Len(todo') \in 1 .. Len(todo')
            /\ \A i \in 1 .. Len(todo') : todo'[i] = todo[i + 1]
        <5>1. Len(todo') \in Nat /\ Len(todo') # 0
          BY <1>3, <4>1, EmptySeq
        <5>2. /\ Len(Tail(todo)) = Len(todo) - 1
              /\ \A i \in 1 .. Len(Tail(todo)) : Tail(todo)[i] = todo[i + 1]
          BY <1>1, <1>2, HeadTailProperties
        <5>3. Len(todo') \in 1 .. Len(todo')
          BY <5>1
        <5> QED
          BY <1>1, <5>2, <5>3, Zenon
      <4>3. todo'[Len(todo')] = todo[Len(todo)]
        BY <1>2, <4>2, LenProperties
      <4> QED
        BY <3>1, <4>1, <4>3
    <3>3. peer' \in {"waiting", "paused"} => ~NoHeader'
      <4> SUFFICES ASSUME peer' \in {"waiting", "paused"} PROVE ~NoHeader'
        OBVIOUS
      <4>1. Head(todo).kind # "chunk"
        <5>1. CASE todo' = <<>>
          <6>1. Len(todo) = 1
            <7>1. Len(todo') = Len(todo) - 1 /\ Len(todo) \in Nat
              BY <1>1, <1>2, HeadTailProperties, LenProperties
            <7>2. Len(todo') = 0
              BY <5>1
            <7> QED
              BY <7>1, <7>2
          <6> QED
            BY <1>1, <1>2, <3>1, <6>1
        <5>2. CASE todo' # <<>>
          BY <5>2, AfterUnit
        <5> QED
          BY <5>1, <5>2
      <4>2. /\ Len(stream') = Len(stream) + 1 /\ Len(stream) \in Nat
            /\ stream'[Len(stream) + 1] = Head(todo)
        BY <1>1, <1>2, <1>3, AppendProperties, LenProperties
      <4>3. Len(stream) + 1 \in DOMAIN stream'
        BY <1>3, <4>2, LenProperties
      <4> QED
        BY <4>1, <4>2, <4>3 DEF NoHeader, EndsHeader
    <3>4. peer' \in {"idle", "waiting", "paused", "sending"}
      BY AfterUnit
    <3> QED
      BY <1>1, <1>4, <1>6, <2>2, <3>1, <3>2, <3>3, <3>4 DEF Stray
  <2> QED
    BY <2>1, <2>2
<1> QED
  BY <1>5, <1>6

\* The client hangs up, or nothing happens.
LEMMA SameTalk ==
    ASSUME UNCHANGED <<at, req, got, ieof, entity, module, resp, stream, peer,
                       todo, asked, answers>>,
           Orderly \/ Stray
    PROVE  Orderly' \/ Stray'
<1>1. (Pending' = Pending) /\ (Held' <=> Held)
  BY DEF Pending, Held
<1>2. Asking' <=> Asking
  BY <1>1 DEF Asking
<1>3. CASE Orderly
  <2>1. /\ at = "header" => AtHeader' \/ peer = "idle"
        /\ at = "find" => AtFind'
        /\ at = "part" => AtPart'
    BY <1>1, <1>3 DEF Orderly, Idle, Reading, AtHeader, AtFind, AtPart
  <2>2. /\ at = "chunks" => AtChunks'
        /\ at = "rest" => AtRest'
        /\ at = "preview" => AtPreview'
        /\ at = "modify" => AtModify'
        /\ at = "respond" => Leftover'
    BY <1>1, <1>3
       DEF Orderly, Idle, Reading, AtChunks, AtRest, AtPreview, AtModify, Leftover
  <2> QED
    BY <1>2, <1>3, <2>1, <2>2 DEF Orderly, Idle, Reading, AnswersInOrder
<1>4. CASE Stray
  BY <1>1, <1>4 DEF Stray, NoHeader
<1> QED
  BY <1>3, <1>4

LEMMA TalkStep ==
    ASSUME IInv, Talk, [Next]_vars
    PROVE  Talk'
<1> USE DEF Talk, Serving
<1> SUFFICES ASSUME Serving' PROVE Orderly' \/ Stray'
  OBVIOUS
<1>1. CASE Accept
  BY <1>1, AcceptTalk
<1>2. CASE AcceptFails \/ Close \/ HeaderEnds \/ HeaderTimesOut \/ DataFails
  BY <1>2 DEF AcceptFails, Close, HeaderEnds, HeaderTimesOut, DataFails,
              NextClient
<1>3. CASE ReadHeader
  BY <1>3, ReadHeaderTalk DEF ReadHeader
<1>4. CASE ReadGarbage
  BY <1>4, ReadGarbageTalk DEF ReadGarbage
<1>5. CASE FindHandler
  BY <1>5, FindHandlerTalk DEF FindHandler
<1>6. CASE ReadPart
  BY <1>6, ReadPartTalk DEF ReadPart
<1>7. CASE ReadChunk
  BY <1>7, ReadRestTalk, ReadBodyTalk DEF ReadChunk
<1>8. CASE \/ PassOver \/ Preview \/ RefuseContinue \/ Continue \/ PreviewEnds
           \/ Modify \/ ModifyEnds
  <2>1. at \in {"preview", "modify"} /\ broken' = broken
    BY <1>8 DEF PassOver, Preview, RefuseContinue, Continue, PreviewEnds,
                Modify, ModifyEnds
  <2> QED
    BY <1>8, <2>1, ModulesTalk
<1>9. CASE Respond
  BY <1>9, RespondTalk DEF Respond
<1>10. CASE Ask
  BY <1>10, AskTalk DEF Ask, workerVars
<1>11. CASE SendUnit
  BY <1>11, SendUnitTalk DEF SendUnit, workerVars
<1>12. CASE HangUp
  BY <1>12, SameTalk DEF HangUp, workerVars, answerVars
<1>13. CASE UNCHANGED vars
  BY <1>13, SameTalk DEF vars, workerVars, clientVars, answerVars
<1> QED
  BY <1>1, <1>2, <1>3, <1>4, <1>5, <1>6, <1>7, <1>8, <1>9, <1>10, <1>11,
     <1>12, <1>13 DEF Next, WorkerStep

\* Only a response adds to the answers; a stray one is out of order.
LEMMA InStepStep ==
    ASSUME IInv, Talk, InStep, [Next]_vars
    PROVE  InStep'
<1> SUFFICES ASSUME ~OddBodies, ~BareBodies PROVE AnswersInOrder'
  BY DEF InStep
<1>1. AnswersInOrder
  BY DEF InStep
<1>2. CASE Accept
  BY <1>2, AcceptTalk DEF Orderly
<1>3. CASE Respond /\ ~broken
  <2>1. /\ at = "respond" /\ answers' = Append(answers, req.id)
    BY <1>3 DEF Respond
  <2>2. req.id = Len(answers) + 1
    BY <1>3, <2>1 DEF Talk, Serving, Stray, Orderly, Idle, Reading
  <2>3. answers \in Seq(0 .. MaxAsked) /\ req.id \in 0 .. MaxAsked
    BY DEF IInv, TypeOK, Heads
  <2> QED
    BY <1>1, <2>1, <2>2, <2>3, AnswerGiven DEF AnswersInOrder
<1>4. CASE UNCHANGED answers
  BY <1>1, <1>4 DEF AnswersInOrder
<1>5. Accept \/ (Respond /\ ~broken) \/ UNCHANGED answers
  BY DEF Next, WorkerStep, AcceptFails, Close, ReadHeader, ReadGarbage,
         HeaderEnds, HeaderTimesOut, FindHandler, ReadPart, ReadChunk, DataFails,
         PassOver, Preview, RefuseContinue, Continue, PreviewEnds, Modify,
         ModifyEnds, Respond, Ask, SendUnit, HangUp, vars, answerVars
<1> QED
  BY <1>2, <1>3, <1>4, <1>5

LEMMA Conversation == Spec => []CInv
<1>1. Init => CInv
  <2> SUFFICES ASSUME Init PROVE CInv
    OBVIOUS
  <2>1. ~Serving /\ answers = <<>>
    BY DEF Init, Serving
  <2> QED
    BY <2>1, InitIInv DEF CInv, Talk, InStep, AnswersInOrder
<1>2. CInv /\ [Next]_vars => CInv'
  BY TypeStep, BudgetStep, UnsentStep, TalkStep, InStepStep DEF CInv, IInv
<1> QED
  BY <1>1, <1>2, PTL DEF Spec

-----------------------------------------------------------------------------
\* The k-th answer on a connection is the answer to the k-th request, for
\* every client that sends a body only where its request has one to be read
\* (serve_client, RequestHandler::process).  Clients that do otherwise get
\* out of step: that is what the two assumptions exclude.
THEOREM AnswersCorrect ==
    ASSUME ~OddBodies, ~BareBodies
    PROVE  Spec => []AnswersInOrder
<1>1. CInv => AnswersInOrder
  BY DEF CInv, InStep
<1> QED
  BY Conversation, <1>1, PTL

\* What a worker waits for, its client can send: for every client, those that
\* send stray bodies included (read_req_header, read_chunked_payload,
\* preview_continue).
THEOREM NeverMutual == Spec => []NoMutualWait
<1>1. CInv => NoMutualWait
  <2> SUFFICES ASSUME CInv, WaitsForClient PROVE peer \in {"sending", "idle"}
    BY DEF NoMutualWait
  <2>1. /\ stream \in Seq(Units) /\ todo \in Seq(Units)
    BY DEF CInv, IInv, TypeOK
  <2>2. Serving
    BY DEF WaitsForClient, Serving
  <2>3. CASE Stray
    BY <2>3 DEF WaitsForClient, Stray
  <2>4. CASE Orderly /\ peer # "idle"
    <3>1. Reading /\ Asking
      BY <2>4 DEF Orderly, Reading
    <3>2. CASE at = "header"
      <4>1. PICK h \in Sendable : \E x \in After(h) : Pending = <<h>> \o x
        BY <3>1, <3>2 DEF Reading, AtHeader
      <4> PICK x \in After(h) : Pending = <<h>> \o x
        BY <4>1
      <4>2. h \in Heads /\ h.kind = "head"
        BY DEF Sendable, Heads
      <4>3. Pending # <<>> /\ Pending[1] = h
        BY <4>2, RequestReads
      <4>4. stream = <<>>
        <5> SUFFICES ASSUME stream # <<>> PROVE FALSE
          OBVIOUS
        <5>1. stream[1] = h /\ 1 \in DOMAIN stream
          BY <2>1, <2>4, <4>3, ReadUnit, EmptySeq, LenProperties DEF Pending
        <5> QED
          BY <3>2, <4>2, <5>1 DEF WaitsForClient, NoHeader, EndsHeader
      <4>5. todo = Pending
        BY <2>1, <2>4, <4>4, ConcatEmpty DEF Pending
      <4> QED
        BY <3>1, <4>2, <4>3, <4>5, RestUnits, UnitsOfKinds DEF Asking
    <3>3. CASE at \in {"part", "chunks", "rest"}
      <4>1. stream = <<>>
        BY <3>3 DEF WaitsForClient, Dry
      <4>2. todo = Pending
        BY <2>1, <2>4, <4>1, ConcatEmpty DEF Pending
      <4>3. CASE at = "part"
        <5>1. PICK x \in BodyOf(req) : Pending = <<Part>> \o x
          BY <3>1, <4>3 DEF Reading, AtPart
        <5>2. x \in Seq(Units)
          <6>1. req \in Heads
            BY DEF CInv, IInv, TypeOK
          <6> QED
            BY <6>1, BodyReads
        <5>3. Pending # <<>> /\ Pending[1] = Part
          BY <5>1, <5>2, ConsUnit, UnitsOfKinds
        <5> QED
          BY <3>1, <4>2, <5>3, RestUnits, UnitsOfKinds DEF Asking
      <4>4. CASE at = "chunks"
        <5>1. Pending \in Previews \cup Rests
          BY <3>1, <4>4 DEF Reading, AtChunks
        <5>2. Pending # <<>> /\ ~(Pending = TheRest /\ Holds(Pending))
          BY <5>1, PreviewReads, RestReads DEF Rests
        <5> QED
          BY <3>1, <4>2, <4>4, <5>2 DEF Asking, Held
      <4>5. CASE at = "rest"
        <5>1. Pending # <<>>
          BY <3>1, <4>5, RestReads DEF Reading, AtRest
        <5> QED
          BY <3>1, <4>2, <4>5, <5>1 DEF Asking, Held
      <4> QED
        BY <3>3, <4>3, <4>4, <4>5
    <3> QED
      BY <3>2, <3>3 DEF WaitsForClient
  <2> QED
    BY <2>2, <2>3, <2>4 DEF CInv, Talk
<1> QED
  BY Conversation, <1>1, PTL

\* Modifier::modify is given the whole body, for every client that announces
\* the HTTP headers of the bodies it sends (update_encapsulated otherwise
\* takes the body for one that has ended).
THEOREM WholeCorrect ==
    ASSUME ~BareBodies
    PROVE  Spec => []WholeBody
<1>1. CInv => WholeBody
  <2> SUFFICES ASSUME CInv, Modifies, ~broken PROVE got = "whole"
    BY DEF WholeBody
  <2>1. at = "modify" /\ Loaded # {}
    BY DEF Modifies
  <2>2. Orderly /\ peer # "idle"
    BY <2>1 DEF CInv, Talk, Serving, Stray, Orderly, Idle
  <2> QED
    BY <2>1, <2>2 DEF Orderly, Reading, AtModify
<1> QED
  BY Conversation, <1>1, PTL

\* After a 100 the worker goes on to wait for a rest only if the client has
\* paused before one, for every client, odd and bare bodies included: a preview
\* that was the whole body is never followed by such a wait (preview_continue).
\* A 100 that is followed by no read is not restricted.
THEOREM ContinueCorrect == Spec => ContinueProper
<1>1. CInv /\ [Next]_vars
        => [at = "preview" /\ at' = "rest" => peer = "paused" \/ broken]_vars
  <2> SUFFICES ASSUME CInv, [Next]_vars, at = "preview", at' = "rest", ~broken
               PROVE  peer = "paused"
    OBVIOUS
  <2>1. entity = "body" /\ ~ieof
    BY DEF Next, WorkerStep, Accept, AcceptFails, Close, ReadHeader, ReadGarbage,
         HeaderEnds, HeaderTimesOut, FindHandler, ReadPart, ReadChunk, DataFails,
         PassOver, Preview, RefuseContinue, Continue, PreviewEnds, Modify,
         ModifyEnds, Respond, Ask, SendUnit, HangUp, vars, workerVars,
         NextClient
  <2>2. Orderly /\ peer # "idle"
    BY DEF CInv, Talk, Serving, Stray, Orderly, Idle
  <2>3. AtPreview
    BY <2>2 DEF Orderly, Reading
  <2> QED
    BY <2>1, <2>3 DEF AtPreview
<1> QED
  BY Conversation, <1>1, PTL DEF Spec, ContinueProper
=============================================================================

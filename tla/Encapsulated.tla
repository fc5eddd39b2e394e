---------------------------- MODULE Encapsulated -----------------------------
(***************************************************************************)
(* The Encapsulated header: how a request is taken apart by the offsets    *)
(* the client declares, what update_encapsulated makes of them, and what   *)
(* the header of a response says of the payload that is sent after it      *)
(* (lib/icap/header.cpp, lib/icap/util.cpp, modules/echo/echo.cpp).        *)
(*                                                                         *)
(* A unit of input is a byte of a part, or the zero chunk that ends a      *)
(* body; how a body is divided into chunks is the subject of Chunked.  The *)
(* entity opt-body, which neither side writes, is left out.                *)
(***************************************************************************)
EXTENDS Integers, Sequences

CONSTANTS
    MaxSize,      \* bound: the bytes of a part
    BareBodies    \* clients send bodies without the HTTP header they belong to

ASSUME EncapsulatedAssumption == MaxSize \in Nat /\ BareBodies \in BOOLEAN

HttpHeaders == {"req-hdr", "res-hdr"}
Bodies == {"req-body", "res-body"}
Parts == HttpHeaders \cup Bodies
Entities == Parts \cup {"null-body"}
HeaderOf == [b \in Bodies |-> IF b = "req-body" THEN "req-hdr" ELSE "res-hdr"]

\* The order of the keys of the map: std::sort leaves it to entities with equal
\* offsets, as it sorts so few by insertion.
KeyOrder == <<"null-body", "req-body", "req-hdr", "res-body", "res-hdr">>
Place(e) == CHOOSE i \in DOMAIN KeyOrder : KeyOrder[i] = e

\* The parts of a message come in one order, with some length ahead of each.
Ahead(length, p) ==
    (IF p # "req-hdr" THEN length["req-hdr"] ELSE 0)
    + (IF p \in {"res-hdr", "res-body"} THEN length["req-body"] ELSE 0)
    + (IF p = "res-body" THEN length["res-hdr"] ELSE 0)
Total(length) == Ahead(length, "res-body") + length["res-body"]

-----------------------------------------------------------------------------
(* The requests of a client, after the grammar in encapsulated_header_str.  *)

Messages ==
    [method : {"REQMOD", "RESPMOD"}, size : [Parts -> 0 .. MaxSize],
     body : Bodies \cup {"null-body"},
     preview : BOOLEAN, shown : 0 .. MaxSize, ieof : BOOLEAN]

HasParts(m) ==
    /\ m.body \in {IF m.method = "REQMOD" THEN "req-body" ELSE "res-body",
                   "null-body"}
    /\ m.method = "REQMOD" => m.size["res-hdr"] = 0
    /\ \A p \in Bodies \ {m.body} : m.size[p] = 0
    /\ m.body \in Bodies => BareBodies \/ m.size[HeaderOf[m.body]] > 0

\* A preview shows the beginning of the body; ieof says that it is all of it.
HasPreview(m) ==
    /\ m.shown <= (IF m.preview /\ m.body \in Bodies THEN m.size[m.body] ELSE 0)
    /\ m.ieof => m.preview /\ m.body \in Bodies /\ m.shown = m.size[m.body]

\* The offsets that the client declares: those of the parts that are there.
Declared(m) ==
    [e \in Entities |->
        IF e \in HttpHeaders /\ m.size[e] > 0 THEN Ahead(m.size, e)
        ELSE IF e # m.body THEN -1
        ELSE IF e \in Bodies THEN Ahead(m.size, e)
        ELSE m.size["req-hdr"] + m.size["res-hdr"]]

Unit(p, n) == [i \in 1 .. n |-> p]
Headers(m) ==
    Unit("req-hdr", m.size["req-hdr"]) \o Unit("res-hdr", m.size["res-hdr"])

\* What the client sends at once, and what it keeps for a 100.
FirstPart(m) ==
    Headers(m) \o
        IF m.body = "null-body" THEN <<>>
        ELSE Unit(m.body, IF m.preview THEN m.shown ELSE m.size[m.body])
                \o <<IF m.ieof THEN "ieof" ELSE "end">>
SecondPart(m) ==
    IF m.body = "null-body" THEN <<>>
    ELSE Unit(m.body, m.size[m.body] - m.shown) \o <<"end">>

-----------------------------------------------------------------------------
VARIABLES
    message,   \* the request of the client
    stream,    \* what it has sent and the worker has not read
    at,        \* where the worker is
    left,      \* the sorted entities from the one at the loop's iterator on
    encaps,    \* _encapsulated of the request header
    payload,   \* the payload of the request
    ieof,      \* payload.ieof
    list,      \* the Encapsulated header of the response
    output     \* what follows the response header

vars == <<message, stream, at, left, encaps, payload, ieof, list, output>>

NoPayload == [p \in Parts |-> <<>>]
NoOffsets == [e \in Entities |-> -1]

TypeOK ==
    /\ message \in Messages
    /\ stream \in Seq(Parts \cup {"end", "ieof"})
    /\ at \in {"attach", "read", "update", "process", "rest", "modify", "answered"}
    /\ left \in SUBSET Entities
    /\ encaps \in [Entities -> Nat \cup {-1}]
    /\ payload \in [Parts -> Seq(Parts)]
    /\ ieof \in BOOLEAN
    /\ list \in [Entities -> Nat \cup {-1}]
    /\ output \in Seq(Parts \cup {"end"})

Init ==
    /\ message \in {m \in Messages : HasParts(m) /\ HasPreview(m)}
    /\ stream = FirstPart(message)
    /\ at = "attach" /\ left = Entities
    /\ encaps = NoOffsets /\ payload = NoPayload /\ ieof = FALSE
    /\ list = NoOffsets /\ output = <<>>

-----------------------------------------------------------------------------
(* Header::attach_encapsulated and sort_encapsulated_header.                *)

AttachEncapsulated ==
    /\ at = "attach"
    /\ encaps' = [e \in Entities |-> IF Declared(message)[e] >= 0
                                     THEN Declared(message)[e] ELSE encaps[e]]
    /\ at' = "read"
    /\ UNCHANGED <<message, stream, left, payload, ieof, list, output>>

Precedes(offsets, a, b) ==
    \/ offsets[a] < offsets[b]
    \/ offsets[a] = offsets[b] /\ Place(a) < Place(b)

\* Where a loop over the sorted entities begins and where it ends.
First(offsets, entities) ==
    CHOOSE e \in entities :
        \A d \in entities \ {e} : Precedes(offsets, e, d)
Last(offsets, entities) ==
    CHOOSE e \in entities :
        \A d \in entities \ {e} : Precedes(offsets, d, e)

-----------------------------------------------------------------------------
(* read_req_data and read_req_continue_data.                                *)

Entity == First(encaps, left)
NextEntity == First(encaps, left \ {Entity})
IsLast == left = {Entity}

\* Mutant: the offset of the next entity for the length of this one.
DataLengthToNext == encaps[NextEntity]

DataLength == encaps[NextEntity] - encaps[Entity]

\* read_chunked_payload: what comes before the zero chunk.
BodyEnds(i) == stream[i] \in {"end", "ieof"}

\* Mutant: the zero chunk counts as data.
ReadBodyWithEnd(body) ==
    \E i \in DOMAIN stream :
        /\ BodyEnds(i) /\ \A j \in 1 .. (i - 1) : ~BodyEnds(j)
        /\ payload' = [payload EXCEPT ![body] = @ \o SubSeq(stream, 1, i)]
        /\ ieof' = (stream[i] = "ieof")
        /\ stream' = SubSeq(stream, i + 1, Len(stream))

ReadBody(body) ==
    \E i \in DOMAIN stream :
        /\ BodyEnds(i) /\ \A j \in 1 .. (i - 1) : ~BodyEnds(j)
        /\ payload' = [payload EXCEPT ![body] = @ \o SubSeq(stream, 1, i - 1)]
        /\ ieof' = (stream[i] = "ieof")
        /\ stream' = SubSeq(stream, i + 1, Len(stream))

\* One round of the loop: an entity that is not there, one that extends to the
\* offset of the next, or the last one.
SkipEntity ==
    /\ at = "read"
    /\ ~IsLast
    /\ encaps[Entity] < 0 \/ DataLength <= 0 \/ Entity \notin Parts
    /\ left' = left \ {Entity}
    /\ UNCHANGED <<message, stream, at, encaps, payload, ieof, list, output>>

ReadEntity ==
    /\ at = "read"
    /\ ~IsLast
    /\ encaps[Entity] >= 0 /\ DataLength > 0 /\ Entity \in Parts
    /\ Len(stream) >= DataLength
    /\ payload' = [payload EXCEPT ![Entity] = SubSeq(stream, 1, DataLength)]
    /\ stream' = SubSeq(stream, DataLength + 1, Len(stream))
    /\ left' = left \ {Entity}
    /\ UNCHANGED <<message, at, encaps, ieof, list, output>>

ReadLastEntity ==
    /\ at = "read"
    /\ IsLast
    /\ IF Entity \in Bodies /\ encaps[Entity] >= 0
       THEN ReadBody(Entity)
       ELSE UNCHANGED <<payload, ieof, stream>>
    /\ at' = "update"
    /\ UNCHANGED <<message, left, encaps, list, output>>

-----------------------------------------------------------------------------
(* Request::payload, Response::payload: update_encapsulated.                *)

Lengths(parts) == [p \in Parts |-> Len(parts[p])]

\* Mutant: the guard of the null-body is gone.
DataOffsetIsAnything(parts) == TRUE

\* data_offset is that of the last part that is there.
DataOffsetIsZero(parts) ==
    \A p \in Parts : parts[p] # <<>> => Ahead(Lengths(parts), p) = 0

\* Mutant: the length is added before the offset is set.
UpdateEncapsulatedLate(offsets, parts) ==
    [e \in Entities |->
        IF e \in Parts
        THEN IF parts[e] # <<>>
             THEN Ahead(Lengths(parts), e) + Len(parts[e]) ELSE offsets[e]
        ELSE IF DataOffsetIsZero(parts)
             THEN Total(Lengths(parts)) ELSE offsets[e]]

UpdateEncapsulated(offsets, parts) ==
    [e \in Entities |->
        IF e \in Parts
        THEN IF parts[e] # <<>>
             THEN Ahead(Lengths(parts), e) ELSE offsets[e]
        ELSE IF DataOffsetIsZero(parts)
             THEN Total(Lengths(parts)) ELSE offsets[e]]

UpdateRequest ==
    /\ at = "update"
    /\ encaps' = UpdateEncapsulated(encaps, payload)
    /\ at' = "process"
    /\ UNCHANGED <<message, stream, left, payload, ieof, list, output>>

\* A module answers a preview with 100: the client sends the rest, which is
\* read into the last entity.
MoreToCome == message.preview /\ message.body \in Bodies /\ ~message.ieof

\* Mutant: a module's 100 is obeyed also after ieof.
ContinueAfterEof ==
    /\ at = "process" /\ message.preview
    /\ stream' = stream \o (IF MoreToCome THEN SecondPart(message) ELSE <<>>)
    /\ at' = "rest"
    /\ UNCHANGED <<message, left, encaps, payload, ieof, list, output>>

Continue ==
    /\ at = "process" /\ message.preview /\ ~ieof
    /\ stream' = stream \o (IF MoreToCome THEN SecondPart(message) ELSE <<>>)
    /\ at' = "rest"
    /\ UNCHANGED <<message, left, encaps, payload, ieof, list, output>>

\* A rest is looked for where the updated header has its last entity.
ReadRest ==
    /\ at = "rest"
    /\ LET last == Last(encaps, Entities) IN
         IF last \in Bodies THEN ReadBody(last)
         ELSE UNCHANGED <<payload, ieof, stream>>
    /\ encaps' = UpdateEncapsulated(encaps, payload')
    /\ at' = "modify"
    /\ UNCHANGED <<message, left, list, output>>

-----------------------------------------------------------------------------
(* The answer: Echo::modify, or a status alone, and send_response.          *)

\* Mutant: the parts of the request come back in a RESPMOD answer too.
EchoPayloadWhole == payload

EchoPayload ==
    [p \in Parts |-> IF p \in {"req-hdr", "req-body"} /\ message.method # "REQMOD"
                     THEN <<>> ELSE payload[p]]

\* The header lists the entities that are there, in their order.
There(offsets) == {e \in Entities : offsets[e] >= 0}
EncapsulatedList(offsets) ==
    IF There(offsets) = {} THEN [NoOffsets EXCEPT !["null-body"] = 0]
    ELSE offsets

Sent(parts, p) ==
    IF p \in Bodies /\ parts[p] # <<>> THEN Append(parts[p], "end") ELSE parts[p]
SendContent(parts) ==
    Sent(parts, "req-hdr") \o Sent(parts, "req-body")
        \o Sent(parts, "res-hdr") \o Sent(parts, "res-body")

HasAll == at = "modify" \/ (at = "process" /\ ~message.preview)

Echo ==
    /\ HasAll
    /\ list' = EncapsulatedList(UpdateEncapsulated(NoOffsets, EchoPayload))
    /\ output' = SendContent(EchoPayload)
    /\ at' = "answered"
    /\ UNCHANGED <<message, stream, left, encaps, payload, ieof>>

\* 204, or the 500 where no module answers or a 100 is out of place.
AnswerStatus ==
    /\ at \in {"process", "modify"}
    /\ list' = EncapsulatedList(NoOffsets)
    /\ at' = "answered"
    /\ UNCHANGED <<message, stream, left, encaps, payload, ieof, output>>

-----------------------------------------------------------------------------

Next ==
    \/ AttachEncapsulated
    \/ SkipEntity \/ ReadEntity \/ ReadLastEntity
    \/ UpdateRequest
    \/ Continue \/ ReadRest
    \/ Echo \/ AnswerStatus

Spec == Init /\ [][Next]_vars

\* A worker goes on as long as it can; it cannot where it reads what the
\* client does not send.
FairSpec == Spec /\ WF_vars(Next)

-----------------------------------------------------------------------------
(* Properties.                                                              *)

\* A modifier gets every part that the client sent, each in its place and
\* whole, and nothing of the request stays on the connection, where it would be
\* read as the next one: read_req_data cuts by the differences of the sorted
\* offsets, read_req_continue_data by the last of them.
PartsRead ==
    HasAll =>
        /\ \A p \in Parts : payload[p] = Unit(p, message.size[p])
        /\ stream = <<>>

\* Request::payload writes the offsets anew from what was read. An entity
\* the client declared keeps its offset, be it for a preview or for the whole.
OffsetsKept ==
    at # "attach" =>
        \A e \in Entities :
            Declared(message)[e] >= 0 => encaps[e] = Declared(message)[e]

\* The body that the client announced is the last entity, also after the
\* update for a preview has added a null-body at the offset of an empty one:
\* read_req_continue_data looks for the rest there.
LastIsKept == at # "attach" => Last(encaps, Entities) = message.body

\* The Encapsulated header of a response describes what follows it, by the
\* grammar in encapsulated_header_str: headers first, each from its offset to
\* the next one's, then a body that ends with a zero chunk, or a null-body
\* where there is no more.
Describes(offsets, out) ==
    LET there == There(offsets)
        last == Last(offsets, there)
        After(e) == First(offsets, {d \in there : Precedes(offsets, e, d)})
    IN  /\ offsets[First(offsets, there)] = 0
        /\ \A e \in there \ {last} :
              /\ e \in HttpHeaders
              /\ SubSeq(out, offsets[e] + 1, offsets[After(e)])
                    = Unit(e, offsets[After(e)] - offsets[e])
        /\ IF last = "null-body" THEN Len(out) = offsets[last]
           ELSE /\ last \in Bodies
                /\ out = SubSeq(out, 1, offsets[last])
                           \o Unit(last, Len(out) - offsets[last] - 1)
                           \o <<"end">>
ResponseDescribed == at = "answered" => Describes(list, output)

\* The worker never reads beyond what the client sends, and waits for it: every
\* request is answered.
Answered == <>(at = "answered")
=============================================================================

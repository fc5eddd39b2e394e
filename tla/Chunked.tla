------------------------------- MODULE Chunked -------------------------------
(***************************************************************************)
(* The body of a message, byte by byte: a client sends it in the chunked   *)
(* coding, read_chunked_payload reads it, and send_chunked sends it back   *)
(* when a modifier such as echo answers with the payload that it was given *)
(* (lib/icap/util.cpp, modules/echo/echo.cpp).                             *)
(*                                                                         *)
(* The client divides its data into chunks as it likes, gives them         *)
(* extensions or none, and may stop at any byte: it closes the connection, *)
(* or comm_timeout strikes, which is the same to the reader.               *)
(***************************************************************************)
EXTENDS Integers, Sequences, SequencesExt

CONSTANTS
    Buffer,    \* ICAP_BUFFER_SIZE, 1024
    Base,      \* the base in which sizes are written, 16
    MaxData    \* bound: bytes in the body

ASSUME ChunkedAssumption ==
    Buffer \in Nat \ {0} /\ Base \in Nat \ {0, 1} /\ MaxData \in Nat

VARIABLES
    data,      \* what the client has to send
    last,      \* it marks the end of its body with ieof
    sent,      \* how many bytes of the data it has put on the connection
    client,    \* "sending", "done", or "gone" before it was done
    input,     \* what it has sent and the worker has not read
    at,        \* where the worker is
    broken,    \* a read has failed: the socket stream does nothing any more
    size,      \* chunk.size
    mark,      \* chunk.extention, as far as it is "ieof"
    chunk,     \* chunk.data
    payload,   \* the payload read so far
    ieof,      \* payload.ieof
    offset,    \* send_chunked: the bytes of the payload it has sent
    chunks,    \* send_chunked: the chunks it has still to send
    output     \* what the client gets back

clientVars == <<data, last, sent, client>>
readVars == <<size, mark, chunk, payload, ieof>>
sendVars == <<offset, chunks, output>>
vars == <<clientVars, input, at, broken, readVars, sendVars>>

\* std::min.
Lower(a, b) == IF a < b THEN a ELSE b

-----------------------------------------------------------------------------
(* Bytes, and the chunked coding as a client writes it.                     *)

Byte(kind, n) == [kind |-> kind, n |-> n]
CR == Byte("CR", 0)
LF == Byte("LF", 0)
CRLF == <<CR, LF>>
Semicolon == Byte("semicolon", 0)
\* The names of extensions are one unit each, with the blanks around them.
Ieof == Byte("ieof", 0)
OtherExtension == Byte("extension", 0)
Data(n) == [i \in 1 .. n |-> Byte("data", i)]

Bytes == [kind : {"CR", "LF", "semicolon", "ieof", "extension"}, n : {0}]
            \cup [kind : {"digit"}, n : 0 .. (Base - 1)]
            \cup [kind : {"data"}, n : 1 .. MaxData]

\* dectohex: the digits of a number, the last one last.
Digits[n \in Nat] ==
    IF n < Base THEN <<Byte("digit", n)>>
    ELSE Append(Digits[n \div Base], Byte("digit", n % Base))

SizeAndData(bytes) == Digits[Len(bytes)] \o CRLF \o bytes
ZeroChunk == Digits[0] \o CRLF \o CRLF

\* What the client sends for its next n bytes: size, extension, data.
Extensions == {<<>>, <<Semicolon, OtherExtension>>}
ClientChunk(n, extension) ==
    Digits[n] \o extension \o CRLF \o SubSeq(data, sent + 1, sent + n) \o CRLF
ClientEnd ==
    Digits[0] \o (IF last THEN <<Semicolon, Ieof>> ELSE <<>>) \o CRLF \o CRLF

-----------------------------------------------------------------------------
TypeOK ==
    /\ data \in Seq(Bytes) /\ last \in BOOLEAN /\ sent \in 0 .. Len(data)
    /\ client \in {"sending", "done", "gone"}
    /\ input \in Seq(Bytes)
    /\ at \in {"header", "data", "end", "modify", "send", "finish", "done"}
    /\ broken \in BOOLEAN
    /\ size \in Nat /\ mark \in BOOLEAN
    /\ chunk \in Seq(Bytes) /\ Len(chunk) <= size
    /\ payload \in Seq(Bytes) /\ ieof \in BOOLEAN
    /\ offset \in 0 .. Len(payload) /\ chunks \in Int
    /\ output \in Seq(Bytes)

Init ==
    /\ \E n \in 0 .. MaxData : data = Data(n)
    /\ last \in BOOLEAN
    /\ sent = 0 /\ client = "sending" /\ input = <<>>
    /\ at = "header" /\ broken = FALSE
    /\ size = 0 /\ mark = FALSE /\ chunk = <<>>
    /\ payload = <<>> /\ ieof = FALSE
    /\ offset = 0 /\ chunks = 0 /\ output = <<>>

-----------------------------------------------------------------------------
(* The client.                                                              *)

Unsent == 1 .. (Len(data) - sent)

ClientSendsChunk ==
    /\ client = "sending"
    /\ \E n \in Unsent, extension \in Extensions :
          /\ input' = input \o ClientChunk(n, extension)
          /\ sent' = sent + n
    /\ UNCHANGED <<data, last, client, at, broken, readVars, sendVars>>

ClientEnds ==
    /\ client = "sending" /\ sent = Len(data)
    /\ input' = input \o ClientEnd
    /\ client' = "done"
    /\ UNCHANGED <<data, last, sent, at, broken, readVars, sendVars>>

\* It stops somewhere in what it would have sent next.
SendsPartOf(bytes) ==
    \E n \in 0 .. (Len(bytes) - 1) : input' = input \o SubSeq(bytes, 1, n)

ClientGoes ==
    /\ client = "sending"
    /\ \/ \E n \in Unsent, extension \in Extensions :
             SendsPartOf(ClientChunk(n, extension))
       \/ sent = Len(data) /\ SendsPartOf(ClientEnd)
    /\ client' = "gone"
    /\ UNCHANGED <<data, last, sent, at, broken, readVars, sendVars>>

-----------------------------------------------------------------------------
(* read_line, read_data, read_chunk and read_chunked_payload.               *)

\* A read that needs bytes that will never come fails.
Fails(missing) == broken \/ (client = "gone" /\ missing)

LineEnds(i) == i + 1 \in DOMAIN input /\ input[i] = CR /\ input[i + 1] = LF
NoLine == \A i \in DOMAIN input : ~LineEnds(i)
FirstLineEnds(i) == LineEnds(i) /\ \A j \in 1 .. (i - 1) : ~LineEnds(j)

\* hextodec of what precedes the first ";": the number that a line begins with,
\* up to the first byte that is no digit, and 0 when it begins with none.
Begins(line, n) ==
    /\ IsPrefix(Digits[n], line)
    /\ LET next == Len(Digits[n]) + 1
       IN  next \in DOMAIN line => line[next].kind # "digit"
Value(line) ==
    IF \E n \in 0 .. MaxData : Begins(line, n)
    THEN CHOOSE n \in 0 .. MaxData : Begins(line, n)
    ELSE 0

\* read_chunk_header, for a chunk that is initialised before.
Header(line) ==
    /\ size' = Value(line)
    /\ mark' = (Ieof \in ToSet(line))
    /\ chunk' = <<>>
    /\ at' = (IF size' > 0 THEN "data" ELSE "end")

ReadHeader ==
    /\ at = "header"
    /\ \/ /\ ~broken
          /\ \E i \in DOMAIN input :
                /\ FirstLineEnds(i)
                /\ Header(SubSeq(input, 1, i - 1))
                /\ input' = SubSeq(input, i + 2, Len(input))
          /\ UNCHANGED broken
       \/ /\ Fails(NoLine)
          /\ Header(IF broken THEN <<>> ELSE input)
          /\ input' = <<>>
          /\ broken' = TRUE
    /\ UNCHANGED <<clientVars, payload, ieof, sendVars>>

\* Mutant: a full buffer is asked for whatever is left of the chunk.
WantedBuffer == Buffer

\* read_data takes at most a buffer at a time, and nothing of the buffer that
\* fails.
Wanted == Lower(size - Len(chunk), Buffer)

\* Mutant: one buffer is all that is read of a chunk.
IsReadAtOnce(bytes) == TRUE
IsRead(bytes) == Len(bytes) = size

ReadData ==
    /\ at = "data"
    /\ \/ /\ ~broken /\ Len(input) >= Wanted
          /\ chunk' = chunk \o SubSeq(input, 1, Wanted)
          /\ input' = SubSeq(input, Wanted + 1, Len(input))
          /\ at' = (IF IsRead(chunk') THEN "end" ELSE "data")
          /\ UNCHANGED broken
       \/ /\ Fails(Len(input) < Wanted)
          /\ input' = <<>> /\ broken' = TRUE
          /\ at' = "end"
          /\ UNCHANGED chunk
    /\ UNCHANGED <<clientVars, size, mark, payload, ieof, sendVars>>

\* Mutants: a chunk replaces the payload; the zero chunk does not end it.
GatheredLast == chunk
MoreChunksAlways == Len(chunk) = size

Gathered == payload \o chunk
MoreChunks == Len(chunk) = size /\ size > 0

\* The two bytes after the chunk, and the loop of read_chunked_payload.
ReadEnd ==
    /\ at = "end"
    /\ \/ /\ ~broken /\ Len(input) >= 2
          /\ input' = SubSeq(input, 3, Len(input))
          /\ UNCHANGED broken
       \/ /\ Fails(Len(input) < 2)
          /\ input' = <<>> /\ broken' = TRUE
    /\ payload' = Gathered
    /\ \/ MoreChunks /\ at' = "header" /\ UNCHANGED ieof
       \/ ~MoreChunks /\ at' = "modify" /\ ieof' = mark
    /\ UNCHANGED <<clientVars, size, mark, chunk, sendVars>>

-----------------------------------------------------------------------------
(* The answer: echo gives the payload back, and send_response sends a body  *)
(* that is not empty with send_chunked.  What a broken stream is given to   *)
(* write is lost.                                                           *)

Write(bytes) == output' = output \o (IF broken THEN <<>> ELSE bytes)

\* send_chunked begins.  One chunk is sent even when none is counted.
StartSending ==
    /\ at = "modify"
    /\ at' = (IF payload = <<>> THEN "done" ELSE "send")
    /\ chunks' = (IF Len(payload) > Buffer THEN Len(payload) \div Buffer ELSE 0)
    /\ offset' = 0
    /\ UNCHANGED <<clientVars, input, broken, readVars, output>>

\* Mutant: the offset stays where it is.
SendChunkKeepsOffset ==
    /\ at = "send"
    /\ LET piece == SubSeq(payload, offset + 1,
                           Lower(offset + Buffer, Len(payload)))
       IN  /\ Write(SizeAndData(piece))
           /\ UNCHANGED offset
    /\ chunks' = chunks - 1
    /\ at' = (IF chunks' > 0 THEN "send" ELSE "finish")
    /\ UNCHANGED <<clientVars, input, broken, readVars>>

\* One round of its loop: a size, a line end, the data.
SendChunk ==
    /\ at = "send"
    /\ LET piece == SubSeq(payload, offset + 1,
                           Lower(offset + Buffer, Len(payload)))
       IN  /\ Write(SizeAndData(piece))
           /\ offset' = offset + Len(piece)
    /\ chunks' = chunks - 1
    /\ at' = (IF chunks' > 0 THEN "send" ELSE "finish")
    /\ UNCHANGED <<clientVars, input, broken, readVars>>

\* Mutant: no line end after the data.
SendEndBare ==
    /\ at = "finish"
    /\ Write(ZeroChunk)
    /\ at' = "done"
    /\ UNCHANGED <<clientVars, input, broken, readVars, offset, chunks>>

SendEnd ==
    /\ at = "finish"
    /\ Write(CRLF \o ZeroChunk)
    /\ at' = "done"
    /\ UNCHANGED <<clientVars, input, broken, readVars, offset, chunks>>

Read == ReadHeader \/ ReadData \/ ReadEnd
Send == StartSending \/ SendChunk \/ SendEnd
Client == ClientSendsChunk \/ ClientEnds \/ ClientGoes
Next == Client \/ Read \/ Send
Spec == Init /\ [][Next]_vars

-----------------------------------------------------------------------------
(* Properties.                                                              *)

\* However the data is divided into chunks and buffers, and wherever the
\* connection stops, the payload is a beginning of what the client sent: no
\* byte of the coding gets into it, none is read twice or out of turn.
PayloadIsPrefix == IsPrefix(payload, data)

HasRead == at \notin {"header", "data", "end"}

\* A body that did not stop half way is read to its last byte and no further,
\* and ieof is what the client marked it with: the next read on the connection
\* begins with the next message.
ReadExactly ==
    HasRead /\ ~broken => payload = data /\ input = <<>> /\ ieof = last

\* The worker never waits for more than a whole body holds: it would wait for
\* a client that waits for the answer.
NeverStarves ==
    client = "done" /\ ~broken =>
        /\ at = "header" => ~NoLine
        /\ at = "data" => Len(input) >= Wanted
        /\ at = "end" => Len(input) >= 2

\* A body of no more than one buffer is sent as one chunk and the zero chunk,
\* and every byte of it once.
SmallIsSentWhole ==
    at = "done" /\ ~broken /\ Len(payload) \in 1 .. Buffer =>
        output = SizeAndData(payload) \o (CRLF \o ZeroChunk)

\* Whatever the size of a body, what is sent of it is a beginning of it, and
\* less than a buffer is missing at the end.
DataOf(bytes) ==
    LET Upto[n \in 0 .. Len(bytes)] ==
            IF n = 0 THEN <<>>
            ELSE IF bytes[n].kind = "data" THEN Append(Upto[n - 1], bytes[n])
            ELSE Upto[n - 1]
    IN  Upto[Len(bytes)]
SentInOrder ==
    at = "done" /\ ~broken =>
        /\ IsPrefix(DataOf(output), payload)
        /\ Len(payload) - Len(DataOf(output)) < Buffer

-----------------------------------------------------------------------------
(* What a comment promises and the code does not do.                        *)

\* "Send / write data to the socket using chunked transfer encoding" (util.h,
\* send_chunked): all of the data is sent, whatever its size.
AllIsSent == at = "done" /\ ~broken => DataOf(output) = payload
=============================================================================

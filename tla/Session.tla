------------------------------ MODULE Session -------------------------------
(***************************************************************************)
(* A worker process and the ICAP client it serves: Worker::run and         *)
(* serve_client (src/bitz/worker.cpp), RequestHandler::process with its    *)
(* preview and modify loops (src/bitz/request_handler.cpp), and the order  *)
(* in which they read the connection (lib/icap/util.cpp).                  *)
(*                                                                         *)
(* The connection is a sequence of the units the worker reads at once: the *)
(* ICAP header of a request, the encapsulated HTTP headers ("part"), a     *)
(* chunk, and the zero chunk that ends a body, a preview ("last") or a     *)
(* body that is complete within its preview ("ieof").  REQMOD and RESPMOD  *)
(* are handled alike and are the method "MOD".                             *)
(***************************************************************************)
EXTENDS Integers, Sequences, SequencesExt

CONSTANTS
    MaxRequests,   \* config.max_worker_requests
    CommTimeouts,  \* the values of (config.comm_timeout > 0) to consider
    NumModules,    \* the modifier modules configured for the method
    Loaded,        \* those that could be loaded
    OddBodies,     \* clients send bodies with OPTIONS or unknown methods
    BareBodies,    \* clients send bodies without encapsulated HTTP headers
    MaxAsked,      \* bound: requests a client sends on one connection
    MaxClients     \* bound: connections that are made

ASSUME SessionAssumption ==
    /\ MaxRequests \in Nat /\ NumModules \in Nat
    /\ MaxAsked \in Nat /\ MaxClients \in Nat
    /\ Loaded \subseteq 1 .. NumModules
    /\ CommTimeouts \subseteq BOOLEAN
    /\ OddBodies \in BOOLEAN /\ BareBodies \in BOOLEAN

VARIABLES
    comm_timeout, \* whether the worker's reads time out (comm_timeout > 0)
    at,        \* where the worker is
    budget,    \* max_requests
    req,       \* the request header read last
    got,       \* how much of its body the worker has
    ieof,      \* payload.ieof
    entity,    \* the last entity of the encapsulated header
    module,    \* the index of the loop over the modifier modules
    resp,      \* the response they gave so far, or "null"
    stream,    \* what the client has sent and the worker has not read
    broken,    \* a read has failed: the socket stream does nothing any more
    peer,      \* what the client does
    todo,      \* what it has still to send of its request
    hangup,    \* the client has closed the connection
    asked,     \* the number of requests sent on this connection
    more,      \* the client has asked to keep the connection
    answers,   \* the final responses sent on it, as request numbers
    served,    \* the requests this worker has answered (history)
    clients    \* the connections accepted so far

workerVars == <<at, budget, req, got, ieof, entity, module, resp, broken>>
clientVars == <<peer, todo, hangup, asked, more, clients>>
answerVars == <<answers, served>>
vars == <<comm_timeout, workerVars, stream, clientVars, answerVars>>

Unit(kind) == [kind |-> kind]
HeadOf(id, method, preview, keep, http, body) ==
    [kind |-> "head", id |-> id, method |-> method, preview |-> preview,
     keep |-> keep, http |-> http, body |-> body]

\* What read_req_header makes of input that is no request, or of none.
NoRequest == HeadOf(0, "OTHER", FALSE, FALSE, FALSE, FALSE)

Methods == {"MOD", "OPTIONS", "OTHER"}
Heads == [kind : {"head"}, id : 0 .. MaxAsked, method : Methods,
          preview : BOOLEAN, keep : BOOLEAN, http : BOOLEAN, body : BOOLEAN]
Units == Heads \cup [kind : {"part", "chunk", "last", "ieof"}]

\* The statuses a modifier may return, as far as the handler tells them apart.
PreviewStatus == {"continue", "ok", "nocontent", "error"}
ModifyStatus == {"ok", "nocontent", "error"}

TypeOK ==
    /\ comm_timeout \in BOOLEAN
    /\ at \in {"accept", "header", "find", "part", "chunks", "rest",
               "preview", "modify", "respond", "closing", "ended"}
    /\ budget \in 0 .. MaxRequests
    /\ req \in Heads
    /\ got \in {"nothing", "some", "preview", "whole", "cut"}
    /\ ieof \in BOOLEAN
    /\ entity \in {"body", "null-body"}
    /\ module \in 1 .. (NumModules + 1)
    /\ resp \in PreviewStatus \cup {"null", "notallowed"}
    /\ stream \in Seq(Units)
    /\ broken \in BOOLEAN
    /\ peer \in {"idle", "sending", "paused", "waiting"}
    /\ todo \in Seq(Units)
    /\ hangup \in BOOLEAN /\ more \in BOOLEAN
    /\ asked \in 0 .. MaxAsked
    /\ answers \in Seq(0 .. MaxAsked)
    /\ served \in 0 .. MaxRequests
    /\ clients \in 0 .. MaxClients

Init ==
    /\ comm_timeout \in CommTimeouts
    /\ at = (IF MaxRequests > 0 THEN "accept" ELSE "ended")
    /\ budget = MaxRequests
    /\ req = NoRequest /\ got = "whole" /\ ieof = FALSE
    /\ entity = "null-body"
    /\ module = 1 /\ resp = "null"
    /\ stream = <<>> /\ broken = FALSE
    /\ peer = "idle" /\ todo = <<>> /\ hangup = FALSE
    /\ asked = 0 /\ more = TRUE
    /\ answers = <<>> /\ served = 0 /\ clients = 0

-----------------------------------------------------------------------------
(* Worker::run.                                                             *)

Accept ==
    /\ at = "accept" /\ clients < MaxClients
    /\ at' = "header" /\ clients' = clients + 1
    /\ stream' = <<>> /\ broken' = FALSE
    /\ peer' = "idle" /\ todo' = <<>> /\ hangup' = FALSE
    /\ asked' = 0 /\ more' = TRUE /\ answers' = <<>>
    /\ UNCHANGED <<comm_timeout, budget, req, got, ieof, entity, module, resp,
                   served>>

NextClient(left) == IF left > 0 THEN "accept" ELSE "ended"

\* accept() has failed: that counts as a request.
AcceptFails ==
    /\ at = "accept"
    /\ budget' = budget - 1
    /\ at' = NextClient(budget')
    /\ UNCHANGED <<comm_timeout, req, got, ieof, entity, module, resp, broken,
                   stream, clientVars, answerVars>>

\* serve_client has returned: the connection is closed, whatever the client
\* has sent meanwhile.
Close ==
    /\ at = "closing"
    /\ at' = NextClient(budget)
    /\ UNCHANGED <<comm_timeout, budget, req, got, ieof, entity, module, resp,
                   broken, stream, clientVars, answerVars>>

-----------------------------------------------------------------------------
(* Reading the connection.  A read that finds the end of the connection, or *)
(* that times out, leaves the socket stream in a failed state: from then on *)
(* reads return nothing and writes write nothing.                           *)

Dry == stream = <<>>
\* The units that end with an empty line.
EndsHeader(unit) == unit.kind # "chunk"
NoHeader == \A i \in DOMAIN stream : ~EndsHeader(stream[i])

ReadHeader ==
    /\ at = "header" /\ ~broken /\ ~Dry
    /\ Head(stream).kind = "head"
    /\ req' = Head(stream)
    /\ stream' = Tail(stream)
    /\ at' = "find"
    /\ UNCHANGED <<comm_timeout, budget, got, ieof, entity, module, resp,
                   broken, clientVars, answerVars>>

\* What is left over from the request before is read up to the next empty
\* line, and is no request.
ReadGarbage ==
    /\ at = "header" /\ ~broken /\ ~Dry
    /\ Head(stream).kind # "head"
    /\ \E n \in DOMAIN stream :
          /\ EndsHeader(stream[n])
          /\ \A i \in 1 .. (n - 1) : ~EndsHeader(stream[i])
          /\ stream' = SubSeq(stream, n + 1, Len(stream))
    /\ req' = NoRequest
    /\ at' = "find"
    /\ UNCHANGED <<comm_timeout, budget, got, ieof, entity, module, resp,
                   broken, clientVars, answerVars>>

\* Mutant: an empty header is not a request, and the next one is read.
HeaderEndsRetried ==
    /\ at = "header"
    /\ broken \/ (NoHeader /\ hangup)
    /\ broken' = TRUE
    /\ UNCHANGED <<comm_timeout, at, budget, req, got, ieof, entity, module,
                   resp, stream, clientVars, answerVars>>

\* The client has closed: nothing is read, or part of a header.
HeaderEnds ==
    /\ at = "header"
    /\ \/ broken /\ req' = NoRequest
       \/ /\ NoHeader /\ hangup
          /\ \/ req' = NoRequest
             \/ /\ todo # <<>> /\ Head(todo).kind = "head"
                /\ \E keep \in {FALSE, Head(todo).keep} :
                      req' = HeadOf(0, Head(todo).method, FALSE, keep, FALSE,
                                    FALSE)
    /\ broken' = TRUE
    /\ at' = "find"
    /\ UNCHANGED <<comm_timeout, budget, got, ieof, entity, module, resp,
                   stream, clientVars, answerVars>>

\* client_sock->timedout() after the header: the connection is closed.  After
\* a timeout in the body of the request before, the flag may still be set.
HeaderTimesOut ==
    /\ at = "header" /\ comm_timeout
    /\ broken \/ NoHeader
    /\ at' = "closing" /\ budget' = budget - 1
    /\ UNCHANGED <<comm_timeout, req, got, ieof, entity, module, resp, broken,
                   stream, clientVars, answerVars>>

\* Where RequestHandler::process goes once it has the data it can get.
Process == IF req.preview THEN "preview" ELSE "modify"

\* util::find_req_handler; the handler of OPTIONS reads nothing.
FindHandler ==
    /\ at = "find"
    /\ got' = (IF req.body THEN "nothing" ELSE "whole")
    /\ entity' = (IF req.body THEN "body" ELSE "null-body")
    /\ ieof' = FALSE /\ module' = 1
    /\ \/ /\ req.method = "MOD" /\ resp' = "null"
          /\ at' = (IF req.http THEN "part"
                    ELSE IF req.body THEN "chunks" ELSE Process)
       \/ req.method = "OPTIONS" /\ at' = "respond" /\ resp' = "ok"
       \/ req.method = "OTHER" /\ at' = "respond" /\ resp' = "notallowed"
    /\ UNCHANGED <<comm_timeout, budget, req, broken, stream, clientVars,
                   answerVars>>

ReadPart ==
    /\ at = "part" /\ ~broken /\ ~Dry
    /\ stream' = Tail(stream)
    /\ at' = (IF req.body THEN "chunks" ELSE Process)
    /\ UNCHANGED <<comm_timeout, budget, req, got, ieof, entity, module, resp,
                   broken, clientVars, answerVars>>

\* Mutant: every body that has been read gets a null-body entity after it.
LastEntityAlways == IF got = "some" THEN "null-body" ELSE entity

\* update_encapsulated, for the payload that has been read: a body that no
\* HTTP header precedes gets a null-body entity after it.  (For an empty one
\* both have the same offset, and the sort leaves the body last.)
LastEntity == IF got = "some" /\ ~req.http THEN "null-body" ELSE entity

\* read_chunked_payload: up to the zero chunk.
ReadChunk ==
    /\ at \in {"chunks", "rest"} /\ ~broken /\ ~Dry
    /\ stream' = Tail(stream)
    /\ \/ /\ Head(stream).kind = "chunk"
          /\ got' = (IF at = "chunks" THEN "some" ELSE got)
          /\ UNCHANGED <<at, ieof, entity>>
       \/ /\ Head(stream).kind \in {"last", "ieof"}
          /\ ieof' = (Head(stream).kind = "ieof")
          /\ got' = (IF req.preview /\ at = "chunks" /\ ~ieof'
                     THEN "preview" ELSE "whole")
          /\ entity' = LastEntity
          /\ at' = (IF at = "chunks" THEN Process ELSE "modify")
    /\ UNCHANGED <<comm_timeout, budget, req, module, resp, broken,
                   clientVars, answerVars>>

\* Mutant: a timeout in a body is not noticed, only the end of the connection.
DataFailsUntimed ==
    /\ at \in {"part", "chunks", "rest"}
    /\ broken \/ (Dry /\ hangup)
    /\ broken' = TRUE
    /\ got' = (IF req.body THEN "cut" ELSE got)
    /\ ieof' = FALSE
    /\ entity' = LastEntity
    /\ at' = (IF at = "rest" THEN "modify" ELSE Process)
    /\ UNCHANGED <<comm_timeout, budget, req, module, resp, stream, clientVars,
                   answerVars>>

\* The data does not come: read_req_data and read_req_continue_data return
\* true all the same, and what has been read is processed.
DataFails ==
    /\ at \in {"part", "chunks", "rest"}
    /\ broken \/ (Dry /\ (hangup \/ comm_timeout))
    /\ broken' = TRUE
    /\ got' = (IF req.body THEN "cut" ELSE got)
    /\ ieof' = FALSE
    /\ entity' = LastEntity
    /\ at' = (IF at = "rest" THEN "modify" ELSE Process)
    /\ UNCHANGED <<comm_timeout, budget, req, module, resp, stream,
                   clientVars, answerVars>>

-----------------------------------------------------------------------------
(* The modifier modules.                                                    *)

\* Mutant: the loops run over one module too many.
UntriedOneMore == module <= NumModules + 1

Untried == module <= NumModules

\* A module that could not be loaded is passed over.
PassOver ==
    /\ at \in {"preview", "modify"} /\ Untried /\ module \notin Loaded
    /\ module' = module + 1
    /\ UNCHANGED <<comm_timeout, at, budget, req, got, ieof, entity, resp,
                   broken, stream, clientVars, answerVars>>

\* process_preview, one module: 200 and 204 decide; anything else but 100 is
\* kept, and the next module is asked.
Preview ==
    /\ at = "preview" /\ Untried /\ module \in Loaded
    /\ resp' \in PreviewStatus \ {"continue"}
    /\ \/ resp' \in {"ok", "nocontent"} /\ at' = "respond" /\ UNCHANGED module
       \/ resp' = "error" /\ module' = module + 1 /\ UNCHANGED at
    /\ UNCHANGED <<comm_timeout, budget, req, got, ieof, entity, broken,
                   stream, clientVars, answerVars>>

\* Mutant: an ieof is not looked at.
RefuseContinueMissing ==
    /\ at = "preview" /\ Untried /\ module \in Loaded
    /\ ieof
    /\ resp' = "null" /\ module' = 1 /\ at' = "rest"
    /\ UNCHANGED <<comm_timeout, budget, req, got, ieof, entity, broken,
                   stream, clientVars, answerVars>>

\* The module says 100 though the preview was the whole body.
RefuseContinue ==
    /\ at = "preview" /\ Untried /\ module \in Loaded
    /\ ieof
    /\ resp' = "error" /\ at' = "respond"
    /\ UNCHANGED <<comm_timeout, budget, req, got, ieof, entity, module,
                   broken, stream, clientVars, answerVars>>

\* Mutants: the rest is not read; the 100 stays in the buffer of the stream.
ContinueWithoutRest ==
    /\ at = "preview" /\ Untried /\ module \in Loaded
    /\ ~ieof
    /\ resp' = "null" /\ module' = 1 /\ at' = "modify"
    /\ peer' = (IF peer = "paused" /\ ~broken THEN "sending" ELSE peer)
    /\ UNCHANGED <<comm_timeout, budget, req, got, ieof, entity, broken,
                   stream, todo, hangup, asked, more, clients, answerVars>>
ContinueUnflushed ==
    /\ at = "preview" /\ Untried /\ module \in Loaded
    /\ ~ieof
    /\ resp' = "null" /\ module' = 1
    /\ at' = (IF entity = "body" THEN "rest" ELSE "modify")
    /\ UNCHANGED <<comm_timeout, budget, req, got, ieof, entity, broken,
                   stream, clientVars, answerVars>>

\* preview_continue: 100 is sent and the rest of the last entity is read.
\* A client that has nothing left to send ignores the 100.
Continue ==
    /\ at = "preview" /\ Untried /\ module \in Loaded
    /\ ~ieof
    /\ resp' = "null" /\ module' = 1
    /\ at' = (IF entity = "body" THEN "rest" ELSE "modify")
    /\ peer' = (IF peer = "paused" /\ ~broken THEN "sending" ELSE peer)
    /\ UNCHANGED <<comm_timeout, budget, req, got, ieof, entity, broken,
                   stream, todo, hangup, asked, more, clients, answerVars>>

\* The loop over the previews is done, or there is no module.
PreviewEnds ==
    /\ at = "preview" /\ ~Untried
    /\ module' = 1
    /\ at' = (IF resp = "null" THEN "modify" ELSE "respond")
    /\ UNCHANGED <<comm_timeout, budget, req, got, ieof, entity, resp, broken,
                   stream, clientVars, answerVars>>

\* process_modify, one module: only 200 ends the loop.
Modify ==
    /\ at = "modify" /\ Untried /\ module \in Loaded
    /\ resp' \in ModifyStatus
    /\ \/ resp' = "ok" /\ at' = "respond" /\ UNCHANGED module
       \/ resp' # "ok" /\ module' = module + 1 /\ UNCHANGED at
    /\ UNCHANGED <<comm_timeout, budget, req, got, ieof, entity, broken,
                   stream, clientVars, answerVars>>

\* The last response is the answer, or a server error when there is none.
ModifyEnds ==
    /\ at = "modify" /\ ~Untried
    /\ resp' = (IF resp = "null" THEN "error" ELSE resp)
    /\ at' = "respond"
    /\ UNCHANGED <<comm_timeout, budget, req, got, ieof, entity, module,
                   broken, stream, clientVars, answerVars>>

-----------------------------------------------------------------------------
(* send_response, and the end of the loop of serve_client.                  *)

\* Mutants: a request of a kept connection is not counted; nothing is sent.
RespondFree ==
    /\ at = "respond"
    /\ \/ broken /\ UNCHANGED <<answers, served, peer>>
       \/ /\ ~broken
          /\ answers' = Append(answers, req.id)
          /\ served' = (IF req.id = 0 THEN served ELSE served + 1)
          /\ peer' = (IF peer # "sending" /\ req.id = asked
                      THEN "idle" ELSE peer)
    /\ budget' = (IF req.keep THEN budget ELSE budget - 1)
    /\ at' = (IF budget' > 0 /\ req.keep THEN "header" ELSE "closing")
    /\ UNCHANGED <<comm_timeout, req, got, ieof, entity, module, resp, broken,
                   stream, todo, hangup, asked, more, clients>>
RespondUnflushed ==
    /\ at = "respond"
    /\ UNCHANGED <<answers, served, peer>>
    /\ budget' = budget - 1
    /\ at' = (IF budget' > 0 /\ req.keep THEN "header" ELSE "closing")
    /\ UNCHANGED <<comm_timeout, req, got, ieof, entity, module, resp, broken,
                   stream, todo, hangup, asked, more, clients>>

Respond ==
    /\ at = "respond"
    /\ \/ broken /\ UNCHANGED <<answers, served, peer>>
       \/ /\ ~broken
          /\ answers' = Append(answers, req.id)
          /\ served' = (IF req.id = 0 THEN served ELSE served + 1)
          /\ peer' = (IF peer # "sending" /\ req.id = asked
                      THEN "idle" ELSE peer)
    /\ budget' = budget - 1
    /\ at' = (IF budget' > 0 /\ req.keep THEN "header" ELSE "closing")
    /\ UNCHANGED <<comm_timeout, req, got, ieof, entity, module, resp, broken,
                   stream, todo, hangup, asked, more, clients>>

WorkerStep ==
    \/ Accept \/ AcceptFails \/ Close
    \/ ReadHeader \/ ReadGarbage \/ HeaderEnds \/ HeaderTimesOut \/ FindHandler
    \/ ReadPart \/ ReadChunk \/ DataFails
    \/ PassOver \/ Preview \/ RefuseContinue \/ Continue \/ PreviewEnds
    \/ Modify \/ ModifyEnds \/ Respond

-----------------------------------------------------------------------------
(* The client: one request at a time, each answered before the next.        *)

Connected == at \notin {"accept", "ended"}

\* The units of a body: as a whole; as a preview that may be empty, and the
\* rest that follows a 100; and as a preview that is the whole body.
BodyUnits(preview) ==
    IF preview
    THEN {<<Unit("chunk"), Unit("last"), Unit("chunk"), Unit("last")>>,
          <<Unit("last"), Unit("chunk"), Unit("last")>>,
          <<Unit("chunk"), Unit("ieof")>>, <<Unit("ieof")>>}
    ELSE {<<Unit("chunk"), Unit("last")>>}

\* What the client may put on the connection for one request.
Requests(id, method, preview, keep, http, body) ==
    {<<HeadOf(id, method, preview, keep, http, body)>>
        \o (IF http THEN <<Unit("part")>> ELSE <<>>) \o units :
           units \in IF body THEN BodyUnits(preview) ELSE {<<>>}}

Ask ==
    /\ Connected /\ peer = "idle" /\ ~hangup /\ more /\ asked < MaxAsked
    /\ \E method \in Methods, preview, keep, http, body \in BOOLEAN :
          /\ body /\ method # "MOD" => OddBodies
          /\ body /\ ~http => BareBodies
          /\ method # "MOD" => (http <=> body) /\ ~preview
          /\ todo' \in Requests(asked + 1, method, preview, keep, http, body)
          /\ more' = keep
    /\ asked' = asked + 1 /\ peer' = "sending"
    /\ UNCHANGED <<comm_timeout, workerVars, stream, hangup, clients,
                   answerVars>>

\* After the zero chunk of a preview the client waits for the server.
SendUnit ==
    /\ Connected /\ peer = "sending" /\ ~hangup
    /\ stream' = Append(stream, Head(todo))
    /\ todo' = Tail(todo)
    /\ peer' = (CASE todo' = <<>> /\ asked \in ToSet(answers) -> "idle"
                  [] todo' = <<>> /\ asked \notin ToSet(answers) -> "waiting"
                  [] todo' # <<>> /\ Head(todo).kind = "last" -> "paused"
                  [] OTHER -> "sending")
    /\ UNCHANGED <<comm_timeout, workerVars, hangup, asked, more, clients,
                   answerVars>>

HangUp ==
    /\ Connected /\ ~hangup
    /\ hangup' = TRUE
    /\ UNCHANGED <<comm_timeout, workerVars, stream, peer, todo, asked, more,
                   clients, answerVars>>

Next == WorkerStep \/ Ask \/ SendUnit \/ HangUp
Spec == Init /\ [][Next]_vars

\* The worker runs.  Where its reads do not time out, a client goes on sending
\* what it has begun to send; where they do, a client may fall silent.
LiveSpec ==
    /\ Spec
    /\ WF_vars(WorkerStep)
    /\ WF_vars(~comm_timeout /\ SendUnit)

-----------------------------------------------------------------------------
(* Properties.                                                              *)

\* The k-th answer on a connection is the answer to the k-th request sent on
\* it: nothing that is left of a request is ever taken for the next one, and
\* none is answered twice (the loop of serve_client, lib/icap/util.cpp).
AnswersInOrder == \A k \in DOMAIN answers : answers[k] = k

WaitsForClient ==
    /\ ~broken
    /\ \/ at = "header" /\ NoHeader
       \/ at \in {"part", "chunks", "rest"} /\ Dry

\* The worker and its client never wait for each other: when a read of the
\* worker finds nothing, the client is sending, may ask, or has gone.
NoMutualWait ==
    Connected /\ WaitsForClient => hangup \/ peer \in {"sending", "idle"}

\* A worker answers at most max_worker_requests requests in its life, however
\* they are spread over connections (max_requests in worker.cpp).
BudgetHolds == served + budget <= MaxRequests

Modifies == at = "modify" /\ module \in Loaded

\* Modifier::modify is given the whole body, with a preview and without,
\* unless the connection failed.
WholeBody == Modifies /\ ~broken => got = "whole"

\* A worker that goes on to wait for the rest of a body waits for a client
\* that has paused after its preview, so the 100 sets it sending again: never
\* for one whose preview was the whole body (preview_continue, payload.ieof).
\* (A 100 to a preview without a body, which no client waits for, is sent all
\* the same; nothing is read after it.)
ContinueProper ==
    [][at = "preview" /\ at' = "rest" => peer = "paused" \/ broken]_vars

\* A client that has gone, and any client if there is a comm_timeout, does not
\* hold a worker: wherever the client left it or fell silent, between two
\* requests or in the middle of one, the worker gets to its next accept().
WorkerReleased == Connected /\ (hangup \/ comm_timeout) ~> ~Connected

\* A request is answered or the connection ends: the worker does not keep a
\* client that has sent what it had to without an answer, nor, if there is a
\* comm_timeout, one that has stopped in the middle of its request.
Answered ==
    \A n \in 1 .. MaxAsked :
        asked = n ~>
            n \in ToSet(answers) \/ hangup \/ asked # n \/ ~Connected
=============================================================================

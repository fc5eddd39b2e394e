--------------------------- MODULE SessionProofs ----------------------------
(***************************************************************************)
(* Proofs about Session, for every request budget, every list of modules   *)
(* and every client, odd and bare bodies included.                         *)
(***************************************************************************)
EXTENDS Session, SequenceTheorems, TLAPS

\* A request is only read while there is a request left in the budget.
Budgeted == at \notin {"closing", "ended"} => budget > 0

\* A client that is sending, or has paused, has something left to send.
Unsent == peer \in {"sending", "paused"} => todo # <<>>

IInv == TypeOK /\ Budgeted /\ BudgetHolds /\ Unsent

-----------------------------------------------------------------------------
(* The units on a connection.                                               *)

LEMMA HeadOfType ==
    ASSUME NEW id \in 0 .. MaxAsked, NEW method \in Methods,
           NEW preview \in BOOLEAN, NEW keep \in BOOLEAN,
           NEW http \in BOOLEAN, NEW body \in BOOLEAN
    PROVE  HeadOf(id, method, preview, keep, http, body) \in Heads
  BY DEF HeadOf, Heads

LEMMA NoRequestType == NoRequest \in Heads
  BY SessionAssumption DEF NoRequest, HeadOf, Heads, Methods

\* A unit of the kind of a header is one.
LEMMA HeadUnit ==
    ASSUME NEW u \in Units, u.kind = "head"
    PROVE  u \in Heads
  BY DEF Units

\* What Ask puts on the connection.
LEMMA AskedUnits ==
    ASSUME NEW id \in 0 .. MaxAsked, NEW method \in Methods,
           NEW preview \in BOOLEAN, NEW keep \in BOOLEAN,
           NEW http \in BOOLEAN, NEW body \in BOOLEAN,
           NEW r \in Requests(id, method, preview, keep, http, body)
    PROVE  r \in Seq(Units) /\ r # <<>>
<1> DEFINE head == HeadOf(id, method, preview, keep, http, body)
           parts == IF http THEN <<Unit("part")>> ELSE <<>>
<1> PICK units \in (IF body THEN BodyUnits(preview) ELSE {<<>>}) :
       r = <<head>> \o parts \o units
  BY DEF Requests
<1>1. /\ Unit("part") \in Units /\ Unit("chunk") \in Units
      /\ Unit("last") \in Units /\ Unit("ieof") \in Units
  BY DEF Units, Unit
<1>2. units \in Seq(Units)
  <2>1. CASE ~body
    BY <2>1
  <2>2. CASE body /\ ~preview
    <3>1. units = <<Unit("chunk"), Unit("last")>>
      BY <2>2 DEF BodyUnits
    <3> QED
      BY <1>1, <3>1
  <2>3. CASE body /\ preview
    <3>1. \/ units = <<Unit("chunk"), Unit("last"), Unit("chunk"), Unit("last")>>
          \/ units = <<Unit("last"), Unit("chunk"), Unit("last")>>
          \/ units = <<Unit("chunk"), Unit("ieof")>>
          \/ units = <<Unit("ieof")>>
      BY <2>3 DEF BodyUnits
    <3>2. \A a, b, c, d \in Units :
             /\ <<a>> \in Seq(Units) /\ <<a, b>> \in Seq(Units)
             /\ <<a, b, c>> \in Seq(Units) /\ <<a, b, c, d>> \in Seq(Units)
      OBVIOUS
    <3> QED
      BY <1>1, <3>1, <3>2
  <2> QED
    BY <2>1, <2>2, <2>3
<1>3. parts \in Seq(Units)
  BY <1>1
<1>4. head \in Units
  BY HeadOfType DEF Units
<1> HIDE DEF head, parts
<1>5. <<head>> \in Seq(Units) /\ <<head>> # <<>>
  BY <1>4
<1>6. (<<head>> \o parts) \o units \in Seq(Units)
  BY <1>2, <1>3, <1>5, ConcatProperties
<1>7. (<<head>> \o parts) \o units # <<>>
  BY <1>2, <1>3, <1>5, ConcatProperties, EmptySeq
<1> QED
  BY <1>6, <1>7

-----------------------------------------------------------------------------
(* Every step preserves the types, given the budget.                        *)

LEMMA TypeStep ==
    ASSUME IInv, [Next]_vars
    PROVE  TypeOK'
<1> USE SessionAssumption DEF IInv, TypeOK, workerVars, clientVars, answerVars
<1>1. CASE Accept
  <2>1. stream' \in Seq(Units) /\ todo' \in Seq(Units)
         /\ answers' \in Seq(0 .. MaxAsked)
    BY <1>1 DEF Accept
  <2>2. clients' \in 0 .. MaxClients
    BY <1>1 DEF Accept
  <2>3. /\ at' = "header" /\ peer' = "idle" /\ asked' = 0
        /\ broken' \in BOOLEAN /\ hangup' \in BOOLEAN /\ more' \in BOOLEAN
    BY <1>1 DEF Accept
  <2>4. UNCHANGED <<comm_timeout, budget, req, got, ieof, entity, module, resp,
                    served>>
    BY <1>1 DEF Accept
  <2> QED
    BY <2>1, <2>2, <2>3, <2>4
<1>2. CASE AcceptFails
  BY <1>2 DEF AcceptFails, NextClient, Budgeted
<1>3. CASE Close
  BY <1>3 DEF Close, NextClient
<1>4. CASE ReadHeader
  BY <1>4, HeadUnit, HeadTailProperties DEF ReadHeader, Dry
<1>5. CASE ReadGarbage
  BY <1>5, NoRequestType, SubSeqProperties DEF ReadGarbage, Dry
<1>6. CASE HeaderEnds
  <2>1. req' \in Heads
    <3>1. CASE req' = NoRequest
      BY <3>1, NoRequestType
    <3>2. ASSUME todo # <<>>, Head(todo).kind = "head",
                 NEW keep \in {FALSE, Head(todo).keep},
                 req' = HeadOf(0, Head(todo).method, FALSE, keep, FALSE, FALSE)
          PROVE  req' \in Heads
      <4>1. Head(todo) \in Heads
        BY <3>2, HeadUnit, HeadTailProperties
      <4>2. Head(todo).method \in Methods /\ keep \in BOOLEAN
        BY <4>1 DEF Heads
      <4> QED
        BY <3>2, <4>2 DEF HeadOf, Heads
    <3> QED
      BY <1>6, <3>1, <3>2 DEF HeaderEnds
  <2> QED
    BY <1>6, <2>1 DEF HeaderEnds
<1>7. CASE HeaderTimesOut
  BY <1>7 DEF HeaderTimesOut, Budgeted
<1>8. CASE FindHandler
  <2>1. at' \in {"part", "chunks", "preview", "modify", "respond"}
    BY <1>8, Zenon DEF FindHandler, Process
  <2>2. got' \in {"nothing", "whole"} /\ entity' \in {"body", "null-body"}
    BY <1>8 DEF FindHandler
  <2>3. resp' \in {"null", "ok", "notallowed"}
    BY <1>8, Zenon DEF FindHandler
  <2>4. ieof' \in BOOLEAN /\ module' \in 1 .. (NumModules + 1)
    <3>1. ieof' = FALSE /\ module' = 1
      BY <1>8, Zenon DEF FindHandler
    <3>2. 1 \in 1 .. (NumModules + 1)
      OBVIOUS
    <3> QED
      BY <3>1, <3>2, Zenon
  <2>5. UNCHANGED <<comm_timeout, budget, req, broken, stream, clientVars,
                    answerVars>>
    BY <1>8 DEF FindHandler
  <2> QED
    BY <2>1, <2>2, <2>3, <2>4, <2>5 DEF PreviewStatus
<1>9. CASE ReadPart
  BY <1>9, HeadTailProperties DEF ReadPart, Process, Dry
<1>10. CASE ReadChunk
  <2>1. stream' \in Seq(Units)
    BY <1>10, HeadTailProperties DEF ReadChunk, Dry
  <2>2. entity' \in {"body", "null-body"} /\ ieof' \in BOOLEAN
    BY <1>10 DEF ReadChunk, LastEntity
  <2>3. /\ at' \in {"chunks", "rest", "preview", "modify"}
        /\ got' \in {"nothing", "some", "preview", "whole", "cut"}
    BY <1>10 DEF ReadChunk, Process
  <2>4. UNCHANGED <<comm_timeout, budget, req, module, resp, broken,
                    clientVars, answerVars>>
    BY <1>10 DEF ReadChunk
  <2> QED
    BY <2>1, <2>2, <2>3, <2>4
<1>11. CASE DataFails
  BY <1>11 DEF DataFails, Process, LastEntity
<1>12. CASE PassOver
  BY <1>12 DEF PassOver, Untried
<1>13. CASE Preview
  BY <1>13 DEF Preview, PreviewStatus, Untried
<1>14. CASE RefuseContinue
  BY <1>14 DEF RefuseContinue, PreviewStatus
<1>15. CASE Continue
  BY <1>15 DEF Continue, PreviewStatus
<1>16. CASE PreviewEnds
  BY <1>16 DEF PreviewEnds
<1>17. CASE Modify
  BY <1>17 DEF Modify, ModifyStatus, PreviewStatus, Untried
<1>18. CASE ModifyEnds
  BY <1>18 DEF ModifyEnds, PreviewStatus
<1>19. CASE Respond
  <2>1. req.id \in 0 .. MaxAsked
    BY DEF Heads
  <2>2. answers' \in Seq(0 .. MaxAsked)
    <3>1. Append(answers, req.id) \in Seq(0 .. MaxAsked)
      BY <2>1, AppendProperties
    <3> QED
      BY <1>19, <3>1 DEF Respond
  <2>3. budget > 0
    BY <1>19 DEF Respond, Budgeted
  <2> QED
    BY <1>19, <2>2, <2>3 DEF Respond, BudgetHolds
<1>20. CASE Ask
  <2>1. PICK method \in Methods, preview \in BOOLEAN, keep \in BOOLEAN,
             http \in BOOLEAN, body \in BOOLEAN :
          /\ todo' \in Requests(asked + 1, method, preview, keep, http, body)
          /\ more' = keep
    BY <1>20 DEF Ask
  <2>2. asked + 1 \in 0 .. MaxAsked
    BY <1>20 DEF Ask
  <2>3. todo' \in Seq(Units)
    BY <2>1, <2>2, AskedUnits
  <2> QED
    BY <1>20, <2>1, <2>2, <2>3 DEF Ask
<1>21. CASE SendUnit
  <2>1. todo # <<>>
    BY <1>21 DEF SendUnit, Unsent
  <2>2. Head(todo) \in Units /\ todo' \in Seq(Units)
    BY <1>21, <2>1, HeadTailProperties DEF SendUnit
  <2>3. stream' \in Seq(Units)
    BY <1>21, <2>2, AppendProperties DEF SendUnit
  <2> QED
    BY <1>21, <2>2, <2>3 DEF SendUnit
<1>22. CASE HangUp
  BY <1>22 DEF HangUp
<1>23. CASE UNCHANGED vars
  BY <1>23 DEF vars
<1> QED
  BY <1>1, <1>2, <1>3, <1>4, <1>5, <1>6, <1>7, <1>8, <1>9, <1>10, <1>11,
     <1>12, <1>13, <1>14, <1>15, <1>16, <1>17, <1>18, <1>19, <1>20, <1>21,
     <1>22, <1>23 DEF Next, WorkerStep

-----------------------------------------------------------------------------
(* Every step keeps the budget: served only grows when budget shrinks.      *)

LEMMA BudgetStep ==
    ASSUME IInv, [Next]_vars
    PROVE  (Budgeted /\ BudgetHolds)'
<1> USE SessionAssumption
    DEF IInv, TypeOK, Budgeted, BudgetHolds, workerVars, clientVars, answerVars
<1>1. CASE Accept
  BY <1>1 DEF Accept
<1>2. CASE AcceptFails
  BY <1>2 DEF AcceptFails, NextClient
<1>3. CASE Close
  BY <1>3 DEF Close, NextClient
<1>4. CASE ReadHeader
  BY <1>4 DEF ReadHeader
<1>5. CASE ReadGarbage
  BY <1>5 DEF ReadGarbage
<1>6. CASE HeaderEnds
  BY <1>6 DEF HeaderEnds
<1>7. CASE HeaderTimesOut
  BY <1>7 DEF HeaderTimesOut
<1>8. CASE FindHandler
  BY <1>8 DEF FindHandler, Process
<1>9. CASE ReadPart
  BY <1>9 DEF ReadPart, Process
<1>10. CASE ReadChunk
  BY <1>10 DEF ReadChunk, Process
<1>11. CASE DataFails
  BY <1>11 DEF DataFails, Process
<1>12. CASE PassOver
  BY <1>12 DEF PassOver
<1>13. CASE Preview
  BY <1>13 DEF Preview
<1>14. CASE RefuseContinue
  BY <1>14 DEF RefuseContinue
<1>15. CASE Continue
  BY <1>15 DEF Continue
<1>16. CASE PreviewEnds
  BY <1>16 DEF PreviewEnds
<1>17. CASE Modify
  BY <1>17 DEF Modify
<1>18. CASE ModifyEnds
  BY <1>18 DEF ModifyEnds
<1>19. CASE Respond
  BY <1>19 DEF Respond
<1>20. CASE Ask
  BY <1>20 DEF Ask
<1>21. CASE SendUnit
  BY <1>21 DEF SendUnit
<1>22. CASE HangUp
  BY <1>22 DEF HangUp
<1>23. CASE UNCHANGED vars
  BY <1>23 DEF vars
<1> QED
  BY <1>1, <1>2, <1>3, <1>4, <1>5, <1>6, <1>7, <1>8, <1>9, <1>10, <1>11,
     <1>12, <1>13, <1>14, <1>15, <1>16, <1>17, <1>18, <1>19, <1>20, <1>21,
     <1>22, <1>23 DEF Next, WorkerStep

(* Only the client, and the 100 that it waits for, change what is unsent.   *)

LEMMA UnsentStep ==
    ASSUME IInv, [Next]_vars
    PROVE  Unsent'
<1> USE DEF IInv, Unsent, workerVars, clientVars, answerVars
<1>1. CASE Accept
  BY <1>1 DEF Accept
<1>2. CASE AcceptFails
  BY <1>2 DEF AcceptFails
<1>3. CASE Close
  BY <1>3 DEF Close
<1>4. CASE ReadHeader
  BY <1>4 DEF ReadHeader
<1>5. CASE ReadGarbage
  BY <1>5 DEF ReadGarbage
<1>6. CASE HeaderEnds
  BY <1>6 DEF HeaderEnds
<1>7. CASE HeaderTimesOut
  BY <1>7 DEF HeaderTimesOut
<1>8. CASE FindHandler
  BY <1>8 DEF FindHandler
<1>9. CASE ReadPart
  BY <1>9 DEF ReadPart
<1>10. CASE ReadChunk
  BY <1>10 DEF ReadChunk
<1>11. CASE DataFails
  BY <1>11 DEF DataFails
<1>12. CASE PassOver
  BY <1>12 DEF PassOver
<1>13. CASE Preview
  BY <1>13 DEF Preview
<1>14. CASE RefuseContinue
  BY <1>14 DEF RefuseContinue
<1>15. CASE Continue
  BY <1>15 DEF Continue
<1>16. CASE PreviewEnds
  BY <1>16 DEF PreviewEnds
<1>17. CASE Modify
  BY <1>17 DEF Modify
<1>18. CASE ModifyEnds
  BY <1>18 DEF ModifyEnds
<1>19. CASE Respond
  BY <1>19 DEF Respond
<1>20. CASE Ask
  <2>1. PICK method \in Methods, preview \in BOOLEAN, keep \in BOOLEAN,
             http \in BOOLEAN, body \in BOOLEAN :
          todo' \in Requests(asked + 1, method, preview, keep, http, body)
    BY <1>20 DEF Ask
  <2>2. asked + 1 \in 0 .. MaxAsked
    BY <1>20, SessionAssumption DEF Ask, TypeOK
  <2> QED
    BY <2>1, <2>2, AskedUnits
<1>21. CASE SendUnit
  BY <1>21 DEF SendUnit
<1>22. CASE HangUp
  BY <1>22 DEF HangUp
<1>23. CASE UNCHANGED vars
  BY <1>23 DEF vars
<1> QED
  BY <1>1, <1>2, <1>3, <1>4, <1>5, <1>6, <1>7, <1>8, <1>9, <1>10, <1>11,
     <1>12, <1>13, <1>14, <1>15, <1>16, <1>17, <1>18, <1>19, <1>20, <1>21,
     <1>22, <1>23 DEF Next, WorkerStep

-----------------------------------------------------------------------------
LEMMA InitIInv == Init => IInv
<1> SUFFICES ASSUME Init PROVE IInv
  OBVIOUS
<1>1. at \in {"accept", "ended"} /\ (at = "accept" => budget > 0)
  BY SessionAssumption DEF Init
<1>2. <<>> \in Seq(Units) /\ <<>> \in Seq(0 .. MaxAsked)
  OBVIOUS
<1>3. 1 \in 1 .. (NumModules + 1) /\ 0 \in 0 .. MaxAsked
      /\ 0 \in 0 .. MaxClients /\ 0 \in 0 .. MaxRequests
      /\ MaxRequests \in 0 .. MaxRequests
  BY SessionAssumption
<1>4. TypeOK
  <2>1. comm_timeout \in BOOLEAN
    BY SessionAssumption DEF Init
  <2> QED
    BY <1>1, <1>2, <1>3, <2>1, NoRequestType, Zenon DEF Init, TypeOK
<1> QED
  BY <1>1, <1>4, SessionAssumption
     DEF Init, IInv, Budgeted, BudgetHolds, Unsent

\* The invariant holds in every behaviour.
LEMMA Invariance == Spec => []IInv
<1>1. IInv /\ [Next]_vars => IInv'
  BY TypeStep, BudgetStep, UnsentStep DEF IInv
<1> QED
  BY InitIInv, <1>1, PTL DEF Spec

\* The worker and its clients keep the types of Session (worker.cpp,
\* request_handler.cpp), whatever the constants.
THEOREM TypeCorrect == Spec => []TypeOK
<1>1. IInv => TypeOK
  BY DEF IInv
<1> QED
  BY Invariance, <1>1, PTL

\* A worker never answers more than max_worker_requests requests, for every
\* budget, every modifier and every client (worker.cpp, run, serve_client).
THEOREM BudgetCorrect == Spec => []BudgetHolds
<1>1. IInv => BudgetHolds
  BY DEF IInv
<1> QED
  BY Invariance, <1>1, PTL
=============================================================================

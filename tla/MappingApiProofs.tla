-------------------------- MODULE MappingApiProofs --------------------------
(***************************************************************************)
(* What TLAPS proves of MappingApi, for every set of clients and routes    *)
(* and whatever may fail.                                                  *)
(***************************************************************************)
EXTENDS MappingApi, SequenceTheorems, TLAPS

USE DEF Modes, Replies

(* The handler's part of the type invariant. *)
HandlerTyped ==
  /\ asked \in [Clients -> AllRoutes \cup {"none"}]
  /\ client \in Clients \cup {NoClient}
  /\ svc \in Services \cup {"none"}
  /\ phase \in Phases
  /\ wasRunning \in BOOLEAN /\ exportOk \in BOOLEAN
  /\ reply \in Replies

(* The counts of the status stay within their bounds. *)
CountsTyped == nodes \in 0..MaxNodes /\ loops \in 0..MaxLoops

(* Answering a request leaves the handler well typed. *)
LEMMA AnswerTyped ==
  ASSUME TypeOK, NEW code \in Replies, Answer(code)
  PROVE  HandlerTyped'
BY DEF Answer, HandlerTyped, TypeOK, Phases

(* Starting a service call leaves the handler well typed. *)
LEMMA CallTyped ==
  ASSUME TypeOK, NEW s \in Services, Call(s), wasRunning' \in BOOLEAN
  PROVE  HandlerTyped'
BY DEF Call, HandlerTyped, TypeOK, Phases

(* Every continuation of a service call keeps the handler, the mode and    *)
(* the history of acknowledged modes well typed.                           *)
LEMMA ReturnsTyped ==
  ASSUME TypeOK, NEW ok \in BOOLEAN, Returns(ok)
  PROVE  HandlerTyped' /\ ms' \in Modes /\ wanted' \in Modes /\ CountsTyped'
<1>0. CountsTyped'
  <2>1. CASE UNCHANGED counts
    BY <2>1 DEF counts, CountsTyped, TypeOK
  <2>2. CASE RestartReturns(ok)
    <3>1. 0 \in 0..MaxNodes /\ 0 \in 0..MaxLoops
      BY MappingAssumption
    <3> QED  BY <2>2, <3>1 DEF RestartReturns, counts, CountsTyped, TypeOK
  <2> QED  BY <2>1, <2>2 DEF Returns
<1> SUFFICES HandlerTyped' /\ ms' \in Modes /\ wanted' \in Modes
  BY <1>0
<1>1. Code(ok) \in Replies /\ Code(exportOk) \in Replies
  BY DEF Code
<1>2. CASE GoReturns(ok)
  BY <1>1, <1>2, AnswerTyped DEF GoReturns, TypeOK
<1>3. CASE PauseReturns(ok)
  BY <1>1, <1>3, AnswerTyped DEF PauseReturns, TypeOK
<1>4. CASE RestartResumed(ok)
  BY <1>4 DEF RestartResumed, TypeOK, HandlerTyped, Phases
<1>5. CASE RestartReturns(ok)
  BY <1>1, <1>5, AnswerTyped DEF RestartReturns, TypeOK
<1>6. CASE ExportPaused(ok)
  BY <1>6 DEF ExportPaused, TypeOK, HandlerTyped, Phases
<1>7. CASE ExportResumed(ok)
  <2>1. (IF ok THEN Code(exportOk) ELSE "warned") \in Replies
    BY <1>1
  <2>2. HandlerTyped'
    BY <1>7, <2>1, AnswerTyped DEF ExportResumed
  <2> QED  BY <1>7, <2>2 DEF ExportResumed, TypeOK
<1>8. CASE OtherReturns(ok)
  BY <1>1, <1>8, AnswerTyped DEF OtherReturns, TypeOK
<1> QED  BY <1>2, <1>3, <1>4, <1>5, <1>6, <1>7, <1>8 DEF Returns

(* Dispatching a request keeps the handler well typed. *)
LEMMA DispatchTyped ==
  ASSUME TypeOK, Dispatch
  PROVE  HandlerTyped' /\ wanted' \in Modes
<1>1. {"resume", "pause", "reset", "trigger_new_map", "set_parameters"}
        \subseteq Services
  BY DEF Services
<1>2. wasRunning \in BOOLEAN /\ wanted \in Modes
  BY DEF TypeOK
<1>3. CASE (\E code \in Replies : Answer(code)) /\ wanted' \in Modes
  BY <1>3, AnswerTyped
<1>4. CASE /\ \E s \in Services : Call(s)
           /\ wasRunning' \in BOOLEAN /\ wanted' \in Modes
  BY <1>4, CallTyped
<1>5. CASE /\ wasRunning' = PauseForExport /\ phase' = "exporting"
           /\ UNCHANGED <<asked, client, reply, svc, exportOk, wanted>>
  BY <1>2, <1>5 DEF PauseForExport, HandlerTyped, TypeOK, Phases
<1>6. CASE BeginGo
  BY <1>1, <1>2, <1>3, <1>4, <1>6 DEF BeginGo
<1>7. CASE BeginPause
  BY <1>1, <1>2, <1>3, <1>4, <1>7 DEF BeginPause
<1>8. CASE BeginRestart
  BY <1>1, <1>2, <1>4, <1>8 DEF BeginRestart
<1>9. CASE BeginExport
  <2>1. CASE Answer("error")
    BY <1>2, <1>3, <1>9, <2>1 DEF BeginExport
  <2>2. CASE wasRunning' = PauseForExport /\ Call("pause")
    BY <1>1, <1>2, <1>4, <1>9, <2>2 DEF BeginExport, PauseForExport
  <2>3. CASE /\ wasRunning' = PauseForExport /\ phase' = "exporting"
             /\ UNCHANGED <<asked, client, reply, svc, exportOk>>
    BY <1>5, <1>9, <2>3 DEF BeginExport
  <2> QED  BY <1>9, <2>1, <2>2, <2>3 DEF BeginExport
<1>10. CASE BeginConfig
  BY <1>1, <1>2, <1>3, <1>4, <1>10 DEF BeginConfig
<1>11. CASE (Answer("ok") \/ Answer("notfound")) /\ UNCHANGED wanted
  BY <1>2, <1>3, <1>11
<1>12. CASE Call("trigger_new_map") /\ UNCHANGED <<wanted, wasRunning>>
  BY <1>1, <1>2, <1>4, <1>12
<1> QED
  BY <1>6, <1>7, <1>8, <1>9, <1>10, <1>11, <1>12 DEF Dispatch

(* A request left behind stays within the bound of late requests. *)
LEMMA AbandonTyped ==
  ASSUME TypeOK, NEW l, l = Abandon
  PROVE  l \in [Services -> 0..MaxLate]
<1>1. late \in [Services -> 0..MaxLate] /\ MaxLate \in Nat
  BY MappingAssumption DEF TypeOK
<1>2. CASE svc \in Services
  <2>1. late[svc] \in 0..MaxLate
    BY <1>1, <1>2
  <2>2. (IF late[svc] < MaxLate THEN late[svc] + 1 ELSE late[svc])
          \in 0..MaxLate
    BY <1>1, <2>1
  <2> QED  BY <1>1, <1>2, <2>2 DEF Abandon
<1>3. CASE svc \notin Services
  BY <1>1, <1>3 DEF Abandon
<1> QED  BY <1>2, <1>3

(* Having no late request at all is within it. *)
LEMMA NoneLate == [s \in Services |-> 0] \in [Services -> 0..MaxLate]
<1>1. 0 \in 0..MaxLate
  BY MappingAssumption
<1> QED  BY <1>1

(* The initial states are well typed. *)
LEMMA TypeInit == Init => TypeOK
<1> SUFFICES ASSUME Init PROVE TypeOK
  OBVIOUS
<1>1. queue \in Seq(Clients)
  BY DEF Init
<1>2. 0 \in 0..MaxNodes /\ 0 \in 0..MaxLoops
  BY MappingAssumption
<1> QED  BY <1>1, <1>2, NoneLate DEF Init, TypeOK, Phases

(* Every step keeps every variable well typed. *)
LEMMA TypeStep == TypeOK /\ [Next]_vars => TypeOK'
<1> SUFFICES ASSUME TypeOK, [Next]_vars PROVE TypeOK'
  OBVIOUS
<1> USE DEF httpVars, handlerVars, counts, serverVars, rtVars, Infos
<1>1. ASSUME NEW c \in Clients, NEW r \in Routes, Request(c, r)
      PROVE  TypeOK'
  <2>1. queue' \in Seq(Clients)
    BY <1>1 DEF Request, TypeOK
  <2> QED  BY <1>1, <2>1, MappingAssumption DEF Request, TypeOK
<1>2. CASE Accept
  <2>1. client' \in Clients /\ queue' \in Seq(Clients)
    BY <1>2 DEF Accept, TypeOK
  <2> QED  BY <1>2, <2>1 DEF Accept, TypeOK, Phases
<1>21. CASE ClientSends \/ ClientLeaves
  BY <1>21 DEF ClientSends, ClientLeaves, TypeOK, Phases
<1>22. CASE Abort
  BY <1>22, AnswerTyped DEF Abort, TypeOK, HandlerTyped
<1>23. CASE Dispatch
  BY <1>23, DispatchTyped DEF Dispatch, TypeOK, HandlerTyped
<1>3. CASE Send
  BY <1>3 DEF Send, TypeOK, Phases
<1>4. CASE NotAvailable
  BY <1>4, ReturnsTyped DEF NotAvailable, TypeOK, HandlerTyped, CountsTyped
<1>5. CASE CallOk
  BY <1>5, ReturnsTyped DEF CallOk, TypeOK, HandlerTyped, CountsTyped
<1>6. CASE CallRaises
  BY <1>6, ReturnsTyped DEF CallRaises, TypeOK, HandlerTyped, CountsTyped
<1>7. CASE TimedOut
  <2>1. late' \in [Services -> 0..MaxLate]
    BY <1>7, AbandonTyped DEF TimedOut, TypeOK
  <2>2. stray' \in BOOLEAN
    BY <1>7 DEF TimedOut, TypeOK
  <2>3. HandlerTyped' /\ ms' \in Modes /\ wanted' \in Modes /\ CountsTyped'
    BY <1>7, ReturnsTyped DEF TimedOut
  <2> QED  BY <1>7, <2>1, <2>2, <2>3 DEF TimedOut, TypeOK, HandlerTyped, CountsTyped
<1>8. CASE Settled
  BY <1>8 DEF Settled, TypeOK, Phases, Services
<1>9. CASE Exported
  <2>1. PICK ok \in BOOLEAN :
          IF wasRunning
          THEN /\ exportOk' = ok /\ svc' = "resume" /\ phase' = "discover"
               /\ UNCHANGED <<asked, reply, client, wasRunning>>
          ELSE Answer(Code(ok))
    BY <1>9 DEF Exported
  <2>2. Code(ok) \in Replies
    BY DEF Code
  <2>3. HandlerTyped'
    BY <2>1, <2>2, AnswerTyped DEF HandlerTyped, TypeOK, Phases, Services
  <2> QED  BY <1>9, <2>3 DEF Exported, TypeOK, HandlerTyped
<1>10. CASE ExportFails
  BY <1>10, AnswerTyped DEF ExportFails, TypeOK, HandlerTyped
<1>0. /\ 0 \in 0..MaxNodes /\ 0 \in 0..MaxLoops
      /\ MaxNodes \in Nat /\ MaxLoops \in Nat
  BY MappingAssumption
<1>11. CASE ServeLive
  <2>1. /\ phase' \in Phases /\ rtPaused' \in BOOLEAN /\ stray' \in BOOLEAN
        /\ rtNodes' \in 0..MaxNodes
    BY <1>0, <1>11 DEF ServeLive, Serve, TypeOK, Phases
  <2>2. UNCHANGED <<asked, reply, queue, serverVars, client, svc, wasRunning, exportOk,
                    rt, late, infos, infoType, wanted>>
    BY ONLY <1>11 DEF ServeLive, httpVars
  <2> QED  BY <2>1, <2>2 DEF TypeOK
<1>12. CASE RefuseLive
  <2>1. /\ phase' \in Phases
        /\ UNCHANGED <<asked, reply, queue, serverVars, client, svc, wasRunning, exportOk,
                       rtVars, wanted, stray>>
    BY ONLY <1>12 DEF RefuseLive, Phases, httpVars
  <2> QED  BY <2>1 DEF TypeOK
<1>13. ASSUME NEW s \in Services, ServeLate(s)
       PROVE  TypeOK'
  <2>1. late' \in [Services -> 0..MaxLate]
    BY <1>13, MappingAssumption DEF ServeLate, TypeOK
  <2>2. rtPaused' \in BOOLEAN /\ rtNodes' \in 0..MaxNodes /\ stray' \in BOOLEAN
    BY <1>0, <1>13 DEF ServeLate, Serve, TypeOK
  <2>3. UNCHANGED <<httpVars, serverVars, handlerVars, rt, infos, infoType,
                    wanted>>
    BY ONLY <1>13 DEF ServeLate
  <2> QED  BY <2>1, <2>2, <2>3 DEF TypeOK
<1>14. CASE Process
  <2>1. rtNodes' \in 0..MaxNodes
    BY <1>14 DEF Process
  <2>2. infos' \in SUBSET Infos
    BY <1>0, <1>14, <2>1 DEF Process, TypeOK
  <2> QED  BY <1>14, <2>1, <2>2 DEF Process, TypeOK
<1>15. ASSUME NEW i \in infos, OnInfo(i)
       PROVE  TypeOK'
  <2>1. i.nodes \in 0..MaxNodes
    BY DEF TypeOK
  <2>2. loops' \in 0..MaxLoops
    BY <1>0, <1>15 DEF OnInfo, TypeOK
  <2>3. infos' \in SUBSET Infos
    BY <1>15 DEF OnInfo, TypeOK
  <2> QED  BY <1>15, <2>1, <2>2, <2>3 DEF OnInfo, TypeOK
<1>16. CASE RtStart
  BY <1>16 DEF RtStart, TypeOK
<1>17. CASE RtStop
  <2>1. late' \in [Services -> 0..MaxLate]
    BY <1>17, NoneLate DEF RtStop
  <2>2. phase' \in Phases /\ stray' \in BOOLEAN
    BY <1>17 DEF RtStop, TypeOK, Phases
  <2>3. /\ rt' \in {"up", "down"} /\ rtPaused' \in BOOLEAN
        /\ UNCHANGED <<httpVars, serverVars, client, svc, wasRunning, exportOk,
                       rtNodes, infos, infoType, wanted>>
    BY ONLY <1>17 DEF RtStop
  <2> QED  BY <2>1, <2>2, <2>3 DEF TypeOK
<1>18. CASE ApiStart
  BY <1>18 DEF ApiStart, TypeOK
<1>19. CASE ApiStop
  <2>1. late' \in [Services -> 0..MaxLate]
    BY <1>19, AbandonTyped DEF ApiStop, TypeOK
  <2>2. queue' \in Seq(Clients)
    BY <1>19 DEF ApiStop
  <2> QED  BY <1>0, <1>19, <2>1, <2>2 DEF ApiStop, TypeOK, Phases
<1>20. CASE UNCHANGED vars
  BY <1>20 DEF vars, TypeOK
<1> QED
  BY <1>1, <1>2, <1>3, <1>4, <1>5, <1>6, <1>7, <1>8, <1>9, <1>10, <1>11,
     <1>21, <1>22, <1>23, <1>12, <1>13, <1>14, <1>15, <1>16, <1>17, <1>18, <1>19, <1>20
  DEF Next, HandlerStep, RtabmapStep

(* Every variable keeps its type, for all clients, routes and faults. *)
THEOREM TypeCorrect == Spec => []TypeOK
BY TypeInit, TypeStep, PTL DEF Spec

-----------------------------------------------------------------------------
(* Who waits in the backlog has an open request, waits once, and is not    *)
(* the client being served, whose request is open too.                     *)
Waits ==
  /\ client # NoClient => asked[client] # "none"
  /\ \A i \in 1..Len(queue) : asked[queue[i]] # "none" /\ queue[i] # client
  /\ \A i, j \in 1..Len(queue) : i # j => queue[i] # queue[j]

(* A step that answers the client being served, or leaves it alone, and    *)
(* does not touch the backlog.                                             *)
LEMMA WaitsKept ==
  ASSUME TypeOK, Waits, UNCHANGED queue,
         (\E code : Answer(code)) \/ UNCHANGED <<asked, client>>
  PROVE  Waits'
<1>1. CASE UNCHANGED <<asked, client>>
  BY <1>1 DEF Waits
<1>2. CASE \E code : Answer(code)
  <2>1. client' = NoClient /\ asked' = [asked EXCEPT ![client] = "none"]
    BY <1>2 DEF Answer
  <2>2. ASSUME NEW i \in 1..Len(queue)
        PROVE  asked'[queue[i]] # "none" /\ queue[i] # NoClient
    <3>1. queue[i] \in Clients /\ queue[i] # client /\ asked[queue[i]] # "none"
      BY DEF Waits, TypeOK
    <3> QED  BY <2>1, <3>1, MappingAssumption DEF TypeOK
  <2> QED  BY <2>1, <2>2 DEF Waits
<1> QED  BY <1>1, <1>2

(* Every continuation of a service call is such a step. *)
LEMMA ReturnsWaits ==
  ASSUME NEW ok, Returns(ok)
  PROVE  (\E code : Answer(code)) \/ UNCHANGED <<asked, client>>
BY DEF Returns, GoReturns, PauseReturns, RestartResumed, RestartReturns,
       ExportPaused, ExportResumed, OtherReturns

(* Every step keeps the order of the backlog. *)
LEMMA WaitsStep ==
  ASSUME TypeOK, Waits, [Next]_vars
  PROVE  Waits'
<1> USE DEF httpVars, handlerVars
<1>1. ASSUME NEW c \in Clients, NEW r \in Routes, Request(c, r)
      PROVE  Waits'
  <2>1. /\ queue' = Append(queue, c) /\ asked' = [asked EXCEPT ![c] = r]
        /\ client' = client /\ asked[c] = "none" /\ r # "none"
    BY <1>1, MappingAssumption DEF Request, AllRoutes
  <2>2. /\ Len(queue') = Len(queue) + 1 /\ Len(queue) \in Nat
        /\ \A i \in 1..Len(queue) : queue'[i] = queue[i] /\ queue[i] \in Clients
        /\ queue'[Len(queue) + 1] = c
    BY <2>1 DEF TypeOK
  <2>3. c # client /\ \A i \in 1..Len(queue) : queue[i] # c
    BY <2>1, MappingAssumption DEF Waits
  <2>4. ASSUME NEW d \in Clients, asked[d] # "none" PROVE asked'[d] # "none"
    BY <2>1, <2>4 DEF TypeOK
  <2>5. ASSUME NEW i \in 1..Len(queue')
        PROVE  asked'[queue'[i]] # "none" /\ queue'[i] # client
    <3>1. CASE i \in 1..Len(queue)
      BY <2>2, <2>4, <3>1 DEF Waits
    <3>2. CASE i = Len(queue) + 1
      BY <2>1, <2>2, <2>3, <3>2 DEF TypeOK
    <3> QED  BY <2>2, <3>1, <3>2
  <2>6. ASSUME NEW i \in 1..Len(queue'), NEW j \in 1..Len(queue'), i # j
        PROVE  queue'[i] # queue'[j]
    <3>1. CASE i \in 1..Len(queue) /\ j \in 1..Len(queue)
      BY <2>2, <2>6, <3>1 DEF Waits
    <3>2. CASE i = Len(queue) + 1 /\ j \in 1..Len(queue)
      BY <2>2, <2>3, <3>2
    <3>3. CASE i \in 1..Len(queue) /\ j = Len(queue) + 1
      BY <2>2, <2>3, <3>3
    <3> QED  BY <2>2, <2>6, <3>1, <3>2, <3>3
  <2>7. client # NoClient => asked'[client] # "none"
    BY <2>1, <2>4 DEF Waits, TypeOK
  <2> QED  BY <2>1, <2>5, <2>6, <2>7 DEF Waits
<1>2. CASE Accept
  <2>1. /\ queue # <<>> /\ client' = Head(queue) /\ queue' = Tail(queue)
        /\ asked' = asked
    BY <1>2 DEF Accept
  <2>2. /\ Len(queue') = Len(queue) - 1 /\ Len(queue) \in Nat \ {0}
        /\ client' = queue[1]
        /\ \A i \in 1..Len(queue') : queue'[i] = queue[i + 1]
    BY <2>1 DEF TypeOK
  <2>3. \A i \in 1..Len(queue') : i + 1 \in 1..Len(queue) /\ i + 1 # 1
    BY <2>2
  <2> QED  BY <2>1, <2>2, <2>3 DEF Waits
<1>3. CASE ApiStop
  <2>1. Len(queue') = 0 /\ client' = NoClient
    BY <1>3 DEF ApiStop
  <2> QED  BY <2>1 DEF Waits
<1>4. CASE Dispatch
  <2>1. (\E code : Answer(code)) \/ UNCHANGED <<asked, client>>
    BY <1>4 DEF Dispatch, BeginGo, BeginPause, BeginRestart, BeginExport,
                BeginConfig, Call
  <2> QED  BY <1>4, <2>1, WaitsKept DEF Dispatch
<1>5. CASE NotAvailable \/ CallOk \/ CallRaises \/ TimedOut
  BY <1>5, ReturnsWaits, WaitsKept
  DEF NotAvailable, CallOk, CallRaises, TimedOut
<1>6. CASE Abort \/ Exported \/ ExportFails
  BY <1>6, WaitsKept DEF Abort, Exported, ExportFails
<1>7. CASE ClientSends \/ ClientLeaves \/ Send \/ Settled \/ ServeLive
           \/ RefuseLive \/ Process \/ RtStart \/ RtStop \/ ApiStart
  BY <1>7, WaitsKept
  DEF ClientSends, ClientLeaves, Send, Settled, ServeLive, RefuseLive, Process,
      RtStart, RtStop, ApiStart
<1>8. ASSUME NEW s \in Services, ServeLate(s)
      PROVE  Waits'
  BY <1>8, WaitsKept DEF ServeLate
<1>9. ASSUME NEW i \in infos, OnInfo(i)
      PROVE  Waits'
  BY <1>9, WaitsKept DEF OnInfo
<1>10. CASE UNCHANGED vars
  BY <1>10, WaitsKept DEF vars
<1> QED
  BY <1>1, <1>2, <1>3, <1>4, <1>5, <1>6, <1>7, <1>8, <1>9, <1>10
  DEF Next, HandlerStep, RtabmapStep

(* Nobody waits at the start. *)
LEMMA WaitsInit == Init => Waits
BY DEF Init, Waits

-----------------------------------------------------------------------------
(* ModeAgrees is not inductive.  It needs that the service being called is *)
(* the one the request's route calls, that a served mode request has put   *)
(* rtabmap in that mode until the answer is read, and that an info message *)
(* still on its way tells the truth about an unknown mode.                 *)
Reading == phase \in {"reading", "read", "cut"}

RouteCalls ==
  /\ \A c \in Clients : asked[c] # "restart"
  /\ ~Reading =>
       /\ route = "go" => svc = "resume"
       /\ route = "pause" => svc = "pause"
       /\ route \in {"new_map", "config"} => svc \notin ModeServices
  /\ phase = "exporting" => route = "export"
  /\ phase # "settle"

ServedMode ==
  ~stray /\ ModeAnswerPending => (rtPaused <=> svc = "pause")

InfoTruthful ==
  ~stray /\ ~ModeAnswerPending /\ infos # {} /\ ms = "unknown" => ~rtPaused

ModeInv ==
  TypeOK /\ Waits /\ RouteCalls /\ ServedMode /\ InfoTruthful /\ ModeAgrees

(* The three conjuncts that speak of rtabmap's mode. *)
ModeFacts == ServedMode /\ InfoTruthful /\ ModeAgrees

(* Answering clears the handler, so no route calls a wrong service. *)
LEMMA AnswerRoute ==
  ASSUME TypeOK, RouteCalls, NEW code, Answer(code)
  PROVE  RouteCalls' /\ phase' = "idle"
BY MappingAssumption DEF Answer, RouteCalls, route, TypeOK

(* Starting a call for the route that makes it keeps RouteCalls. *)
LEMMA CallRoute ==
  ASSUME TypeOK, RouteCalls, NEW s, Call(s),
         route = "go" => s = "resume",
         route = "pause" => s = "pause",
         route \in {"new_map", "config"} => s \notin ModeServices
  PROVE  RouteCalls' /\ phase' = "discover"
BY DEF Call, RouteCalls, route, Reading

(* A continuation other than those of /mapping/restart keeps RouteCalls,   *)
(* leaves no mode answer pending, and gives _mapping_state the mode of the *)
(* service that answered.                                                  *)
LEMMA ReturnsMode ==
  ASSUME TypeOK, RouteCalls, ~Reading, NEW ok \in BOOLEAN, Returns(ok)
  PROVE  /\ RouteCalls'
         /\ phase' \in {"idle", "exporting"}
         /\ ~ok => ms' = ms
         /\ ok /\ svc = "pause" => ms' = "paused"
         /\ ok /\ svc = "resume" => ms' = "running"
         /\ ok /\ svc \notin ModeServices => ms' = ms
<1>1. route # "restart"
  BY DEF route, RouteCalls, TypeOK
<1>2. CASE GoReturns(ok)
  BY <1>2, AnswerRoute DEF GoReturns, RouteCalls, ModeServices
<1>3. CASE PauseReturns(ok)
  BY <1>3, AnswerRoute DEF PauseReturns, RouteCalls, ModeServices
<1>4. CASE ExportPaused(ok)
  BY <1>4 DEF ExportPaused, RouteCalls, route, ModeServices, Reading
<1>5. CASE ExportResumed(ok)
  BY <1>5, AnswerRoute DEF ExportResumed, ModeServices
<1>6. CASE OtherReturns(ok)
  BY <1>6, AnswerRoute DEF OtherReturns, RouteCalls, ModeServices
<1> QED
  BY <1>1, <1>2, <1>3, <1>4, <1>5, <1>6
  DEF Returns, RestartResumed, RestartReturns

(* Dispatching a request keeps RouteCalls and starts no mode answer. *)
LEMMA DispatchRoute ==
  ASSUME TypeOK, RouteCalls, Dispatch
  PROVE  RouteCalls' /\ phase' \in {"idle", "discover", "exporting"}
<1>1. route # "restart"
  BY DEF route, RouteCalls, TypeOK
<1>2. CASE \E code : Answer(code)
  BY <1>2, AnswerRoute
<1>3. CASE route = "go" /\ Call("resume")
  BY <1>3, CallRoute
<1>4. CASE route = "pause" /\ Call("pause")
  BY <1>4, CallRoute
<1>5. CASE route = "new_map" /\ Call("trigger_new_map")
  BY <1>5, CallRoute DEF ModeServices
<1>6. CASE route = "export" /\ Call("pause")
  BY <1>6, CallRoute
<1>7. CASE route = "config" /\ Call("set_parameters")
  BY <1>7, CallRoute DEF ModeServices
<1>8. CASE /\ route = "export" /\ phase' = "exporting"
           /\ UNCHANGED <<asked, client, reply, svc, exportOk>>
  BY <1>8 DEF RouteCalls, route, Reading
<1> QED
  BY <1>1, <1>2, <1>3, <1>4, <1>5, <1>6, <1>7, <1>8
  DEF Dispatch, BeginGo, BeginPause, BeginExport, BeginConfig

(* Where nobody uses /mapping/restart, the server's idea of the mode is    *)
(* rtabmap's mode unless rtabmap left it by itself: for any number of      *)
(* clients, any bound on late requests and every combination of faults.    *)
THEOREM ModeAgreement ==
  ASSUME "restart" \notin Routes
  PROVE  Spec => []ModeAgrees
<1>1. Init => ModeInv
  <2> SUFFICES ASSUME Init PROVE ModeInv
    OBVIOUS
  <2>1. TypeOK
    BY TypeInit
  <2> QED
    BY <2>1, WaitsInit, MappingAssumption
    DEF Init, ModeInv, RouteCalls, ServedMode, InfoTruthful, ModeAgrees,
        ModeAnswerPending, ModeServices, route
<1>2. ModeInv /\ [Next]_vars => ModeInv'
  <2> SUFFICES ASSUME ModeInv, [Next]_vars PROVE ModeInv'
    OBVIOUS
  <2>0. TypeOK /\ Waits /\ RouteCalls /\ ModeFacts /\ TypeOK' /\ Waits'
    BY TypeStep, WaitsStep DEF ModeInv, ModeFacts
  <2> SUFFICES RouteCalls' /\ ModeFacts'
    BY <2>0 DEF ModeInv, ModeFacts
  <2> USE DEF httpVars, handlerVars, counts, serverVars, rtVars, Infos
  <2>1. ASSUME NEW c \in Clients, NEW r \in Routes, Request(c, r)
        PROVE  RouteCalls' /\ ModeFacts'
    <3>1. c # client /\ route' = route
      BY <2>0, <2>1, MappingAssumption DEF Request, Waits, route, TypeOK
    <3>2. RouteCalls'
      BY <2>0, <2>1, <3>1, MappingAssumption
      DEF Request, RouteCalls, Reading, TypeOK, AllRoutes
    <3> QED
      BY <2>0, <2>1, <3>2
      DEF Request, ModeFacts, ServedMode, InfoTruthful, ModeAgrees,
          ModeAnswerPending
  <2>2. CASE Accept \/ ClientSends \/ ClientLeaves
    <3>1. /\ phase \in {"idle", "reading"} /\ Reading'
          /\ UNCHANGED <<asked, ms, rtPaused, infos, stray>>
      BY <2>2 DEF Accept, ClientSends, ClientLeaves, Reading
    <3> QED
      BY <2>0, <3>1
      DEF RouteCalls, Reading, ModeFacts, ServedMode, InfoTruthful, ModeAgrees,
          ModeAnswerPending
  <2>21. CASE Abort
    <3>1. /\ RouteCalls' /\ phase' = "idle" /\ phase = "cut"
          /\ UNCHANGED <<ms, rtPaused, infos, stray>>
      BY <2>0, <2>21, AnswerRoute DEF Abort
    <3> QED
      BY <2>0, <3>1
      DEF ModeFacts, ServedMode, InfoTruthful, ModeAgrees, ModeAnswerPending
  <2>22. CASE Dispatch
    <3>1. RouteCalls' /\ phase' \in {"idle", "discover", "exporting"}
      BY <2>0, <2>22, DispatchRoute
    <3>2. phase \in {"read", "cut"} /\ UNCHANGED <<ms, rtPaused, infos, stray>>
      BY <2>22 DEF Dispatch
    <3> QED
      BY <2>0, <3>1, <3>2
      DEF ModeFacts, ServedMode, InfoTruthful, ModeAgrees, ModeAnswerPending
  <2>3. CASE Send
    BY <2>0, <2>3
    DEF Send, RouteCalls, Reading, route,
        ModeFacts, ServedMode, InfoTruthful, ModeAgrees, ModeAnswerPending
  <2>4. ASSUME Returns(FALSE), phase # "served", ~Reading,
               UNCHANGED <<rtPaused, infos, stray>>
        PROVE  RouteCalls' /\ ModeFacts'
    BY <2>0, <2>4, ReturnsMode
    DEF ModeFacts, ServedMode, InfoTruthful, ModeAgrees, ModeAnswerPending
  <2>5. CASE CallOk
    <3>1. phase = "served" /\ ~Reading /\ UNCHANGED <<rtPaused, infos, stray>>
      BY <2>5 DEF CallOk, Reading
    <3>2. CASE Returns(TRUE)
      <4>1. /\ RouteCalls'
            /\ phase' \in {"idle", "exporting"}
            /\ svc = "pause" => ms' = "paused"
            /\ svc = "resume" => ms' = "running"
            /\ svc \notin ModeServices => ms' = ms
        BY <2>0, <3>1, <3>2, ReturnsMode
      <4> QED
        BY <2>0, <3>1, <4>1
        DEF ModeFacts, ServedMode, InfoTruthful, ModeAgrees,
            ModeAnswerPending, ModeServices
    <3>3. CASE svc = "set_parameters" /\ Returns(FALSE)
      <4>1. RouteCalls' /\ phase' \in {"idle", "exporting"} /\ ms' = ms
        BY <2>0, <3>1, <3>3, ReturnsMode
      <4> QED
        BY <2>0, <3>1, <3>3, <4>1
        DEF ModeFacts, ServedMode, InfoTruthful, ModeAgrees,
            ModeAnswerPending, ModeServices
    <3> QED  BY <2>5, <3>2, <3>3 DEF CallOk
  <2>6. CASE TimedOut
    <3>1. Returns(FALSE) /\ ~Reading /\ UNCHANGED <<rtPaused, infos>>
      BY <2>6 DEF TimedOut, WaitOver, Reading
    <3>2. stray' = (stray \/ ModeAnswerPending)
      BY <2>6 DEF TimedOut, ModeAnswerPending
    <3>3. RouteCalls' /\ phase' \in {"idle", "exporting"} /\ ms' = ms
      BY <2>0, <3>1, ReturnsMode
    <3> QED
      BY <2>0, <3>1, <3>2, <3>3
      DEF ModeFacts, ServedMode, InfoTruthful, ModeAgrees, ModeAnswerPending
  <2>7. CASE Settled
    BY <2>0, <2>7 DEF Settled, RouteCalls
  <2>8. CASE Exported
    <3>1. phase = "exporting" /\ UNCHANGED <<ms, rtPaused, infos, stray>>
      BY <2>8 DEF Exported
    <3>2. RouteCalls' /\ phase' \in {"idle", "discover"}
      <4>1. CASE \E code : Answer(code)
        BY <2>0, <4>1, AnswerRoute
      <4>2. CASE /\ svc' = "resume" /\ phase' = "discover"
                 /\ UNCHANGED <<asked, client>>
        BY <2>0, <3>1, <4>2 DEF RouteCalls, Reading, route
      <4> QED  BY <2>8, <4>1, <4>2 DEF Exported
    <3> QED
      BY <2>0, <3>1, <3>2
      DEF ModeFacts, ServedMode, InfoTruthful, ModeAgrees, ModeAnswerPending
  <2>9. CASE ExportFails
    <3>1. /\ RouteCalls' /\ phase' = "idle" /\ phase = "exporting"
          /\ UNCHANGED <<ms, rtPaused, infos, stray>>
      BY <2>0, <2>9, AnswerRoute DEF ExportFails
    <3> QED
      BY <2>0, <3>1
      DEF ModeFacts, ServedMode, InfoTruthful, ModeAgrees, ModeAnswerPending
  <2>10. CASE ServeLive
    <3>1. RouteCalls'
      BY <2>0, <2>10 DEF ServeLive, RouteCalls, Reading, route
    <3> QED
      BY <2>0, <2>10, <3>1
      DEF ServeLive, Serve, ModeFacts, ServedMode, InfoTruthful,
          ModeAgrees, ModeAnswerPending, ModeServices, TypeOK
  <2>11. CASE RefuseLive
    BY <2>0, <2>11
    DEF RefuseLive, RouteCalls, Reading, route,
        ModeFacts, ServedMode, InfoTruthful, ModeAgrees, ModeAnswerPending
  <2>12. ASSUME NEW s \in Services, ServeLate(s)
         PROVE  RouteCalls' /\ ModeFacts'
    <3>1. RouteCalls'
      BY <2>0, <2>12 DEF ServeLate, RouteCalls, Reading, route
    <3> QED
      BY <2>0, <2>12, <3>1
      DEF ServeLate, Serve, ModeFacts, ServedMode, InfoTruthful,
          ModeAgrees, ModeAnswerPending, ModeServices
  <2>13. CASE Process
    BY <2>0, <2>13
    DEF Process, RouteCalls, Reading, route,
        ModeFacts, ServedMode, InfoTruthful, ModeAgrees, ModeAnswerPending
  <2>14. ASSUME NEW i \in infos, OnInfo(i)
         PROVE  RouteCalls' /\ ModeFacts'
    BY <2>0, <2>14
    DEF OnInfo, RouteCalls, Reading, route,
        ModeFacts, ServedMode, InfoTruthful, ModeAgrees, ModeAnswerPending
  <2>15. CASE RtStart \/ ApiStart
    BY <2>0, <2>15
    DEF RtStart, ApiStart, RouteCalls, Reading, route,
        ModeFacts, ServedMode, InfoTruthful, ModeAgrees, ModeAnswerPending
  <2>16. CASE RtStop
    <3>1. RouteCalls'
      BY <2>0, <2>16 DEF RtStop, RouteCalls, Reading, route
    <3> QED
      BY <2>0, <2>16, <3>1
      DEF RtStop, ModeFacts, ServedMode, InfoTruthful, ModeAgrees,
          ModeAnswerPending, ModeServices, TypeOK
  <2>17. CASE ApiStop
    <3>1. RouteCalls'
      BY <2>17, MappingAssumption DEF ApiStop, RouteCalls, Reading, route
    <3> QED
      BY <2>17, <3>1
      DEF ApiStop, ModeFacts, ServedMode, InfoTruthful, ModeAgrees,
          ModeAnswerPending
  <2>18. CASE UNCHANGED vars
    BY <2>0, <2>18
    DEF vars, RouteCalls, Reading, route,
        ModeFacts, ServedMode, InfoTruthful, ModeAgrees, ModeAnswerPending
  <2>19. CASE NotAvailable
    BY <2>4, <2>19 DEF NotAvailable, Reading
  <2>20. CASE CallRaises
    BY <2>4, <2>20 DEF CallRaises, Reading
  <2> QED
    BY <2>1, <2>2, <2>21, <2>22, <2>3, <2>5, <2>6, <2>7, <2>8, <2>9, <2>10,
       <2>11, <2>12,
       <2>13, <2>14, <2>15, <2>16, <2>17, <2>18, <2>19, <2>20
    DEF Next, HandlerStep, RtabmapStep
<1>3. ModeInv => ModeAgrees
  BY DEF ModeInv
<1> QED  BY <1>1, <1>2, <1>3, PTL DEF Spec

-----------------------------------------------------------------------------
(* Without faults, and with every route in use, the mode of rtabmap is     *)
(* known at each point of a request: it is the mode the server believes,   *)
(* except between the service and its answer, and, in /mapping/restart,    *)
(* between the two services.                                               *)
NoFaults == ~RtMayStop /\ ~ApiMayStop /\ ~CallFaults /\ ~ExportRaises

Calling == phase \in {"discover", "sent", "served"}

(* /mapping/restart has resumed rtabmap, which _mapping_state ignores. *)
RestartHalf == route = "restart" /\ (phase = "settle" \/ svc = "reset")

QuietPhase ==
  /\ api = "up" /\ phase \notin {"lost", "failed"}
  /\ \A s \in Services : late[s] = 0
  /\ phase = "idle" => client = NoClient

QuietRoute ==
  /\ phase = "exporting" => route = "export"
  /\ phase = "settle" => route = "restart"
  /\ Reading => svc = "none" /\ ~wasRunning
  /\ phase = "idle" => svc = "none" /\ ~wasRunning
  /\ Calling =>
       /\ route = "go" => svc = "resume"
       /\ route = "pause" => svc = "pause"
       /\ route \in {"new_map", "config"} => svc \notin ModeServices
       /\ route = "export" => wasRunning /\ svc \in ModeServices
       /\ route = "restart" => svc \in {"resume", "reset"}

(* Until rtabmap is launched nobody has learnt of a mode. *)
QuietDown ==
  rt = "down" =>
    /\ ~rtPaused /\ ms = "unknown" /\ wanted = "unknown" /\ infos = {}
    /\ phase \notin {"sent", "served"}

QuietMode ==
  /\ ModeAnswerPending => (rtPaused <=> svc = "pause")
  /\ RestartHalf => ~rtPaused
  /\ ~ModeAnswerPending /\ ~RestartHalf => (rtPaused <=> ms = "paused")

(* An export that paused rtabmap found it running, or unknown. *)
QuietWanted ==
  IF route = "export" /\ wasRunning
  THEN wanted # "paused"
  ELSE wanted # "unknown" => ms = wanted

QuietFacts == QuietPhase /\ QuietRoute /\ QuietDown /\ QuietMode /\ QuietWanted

QuietInv == TypeOK /\ Waits /\ QuietFacts

(* A request that is answered while the mode is settled leaves it so. *)
LEMMA QuietAnswer ==
  ASSUME TypeOK, NEW code, Answer(code),
         api' = "up", \A s \in Services : late'[s] = 0,
         rtPaused' <=> ms' = "paused",
         wanted' # "unknown" => ms' = wanted',
         rt' = "down" => ~rtPaused' /\ ms' = "unknown" /\ wanted' = "unknown"
                         /\ infos' = {}
  PROVE  QuietFacts'
BY MappingAssumption
DEF Answer, QuietFacts, QuietPhase, QuietRoute, QuietDown, QuietMode,
    QuietWanted, Calling, RestartHalf, ModeAnswerPending, Reading,
    route

(* While a request is read nothing of it has been done. *)
LEMMA QuietReading ==
  ASSUME QuietFacts, Reading \/ phase = "idle"
  PROVE  /\ svc = "none" /\ ~wasRunning
         /\ rtPaused <=> ms = "paused"
         /\ wanted # "unknown" => ms = wanted
BY DEF QuietFacts, QuietRoute, QuietMode, QuietWanted, Reading,
       ModeAnswerPending, RestartHalf

(* A request whose handler starts a call, or an export, with the mode      *)
(* settled.                                                                *)
LEMMA QuietBegin ==
  ASSUME TypeOK, QuietFacts, Reading,
         phase' \in {"discover", "exporting"},
         UNCHANGED <<asked, client, api, late, ms, rt, rtPaused, infos, wanted>>,
         phase' = "exporting" => route = "export",
         phase' = "discover" =>
           /\ route = "go" => svc' = "resume"
           /\ route = "pause" => svc' = "pause"
           /\ route \in {"new_map", "config"} => svc' \notin ModeServices
           /\ route = "export" => wasRunning' /\ svc' \in ModeServices
           /\ route = "restart" => svc' \in {"resume", "reset"},
         route = "restart" /\ svc' = "reset" => ms # "paused",
         route = "export" /\ wasRunning' => ms # "paused"
  PROVE  QuietFacts'
<1>1. /\ rtPaused <=> ms = "paused"
      /\ wanted # "unknown" => ms = wanted
  BY QuietReading
<1>2. route' = route
  BY DEF route
<1>3. phase' # "idle" /\ phase' # "settle" /\ phase' # "served" /\ ~Reading'
  BY DEF Reading
<1>4. QuietPhase' /\ QuietRoute'
  BY <1>2, <1>3 DEF QuietFacts, QuietPhase, QuietRoute, Calling
<1>5. QuietDown' /\ QuietMode' /\ QuietWanted'
  BY <1>1, <1>2, <1>3
  DEF QuietFacts, QuietDown, QuietMode, QuietWanted, ModeAnswerPending,
      RestartHalf, TypeOK
<1> QED  BY <1>4, <1>5 DEF QuietFacts

(* Dispatching a request keeps the facts of a run without faults. *)
LEMMA QuietDispatch ==
  ASSUME TypeOK, QuietFacts, Dispatch
  PROVE  QuietFacts'
<1>1. Reading /\ UNCHANGED <<api, ms, counts, rtVars, stray>>
  BY DEF Dispatch, Reading
<1>2. UNCHANGED <<api, ms, rt, rtPaused, late, infos>>
  BY <1>1 DEF rtVars
<1>3. /\ rtPaused <=> ms = "paused"
      /\ wanted # "unknown" => ms = wanted
      /\ api = "up" /\ \A s \in Services : late[s] = 0
      /\ rt = "down" => ~rtPaused /\ ms = "unknown" /\ wanted = "unknown"
                        /\ infos = {}
  BY <1>1, QuietReading DEF QuietFacts, QuietPhase, QuietDown
<1>4. CASE (\E code : Answer(code)) /\ UNCHANGED wanted
  BY <1>2, <1>3, <1>4, QuietAnswer
<1>5. CASE route = "go" /\ BeginGo
  <2>1. CASE ms = "running"
    BY <1>2, <1>3, <1>5, <2>1, QuietAnswer DEF BeginGo
  <2>2. CASE ms # "running"
    BY <1>1, <1>2, <1>5, <2>2, QuietBegin DEF BeginGo, Call, ModeServices
  <2> QED  BY <2>1, <2>2
<1>6. CASE route = "pause" /\ BeginPause
  <2>1. CASE ms = "paused"
    BY <1>2, <1>3, <1>6, <2>1, QuietAnswer DEF BeginPause
  <2>2. CASE ms # "paused"
    BY <1>1, <1>2, <1>6, <2>2, QuietBegin DEF BeginPause, Call, ModeServices
  <2> QED  BY <2>1, <2>2
<1>7. CASE route = "restart" /\ BeginRestart
  BY <1>1, <1>2, <1>7, QuietBegin
  DEF BeginRestart, ResumeFirst, Call
<1>8. CASE route = "new_map" /\ Call("trigger_new_map")
           /\ UNCHANGED <<wanted, wasRunning>>
  BY <1>1, <1>2, <1>8, QuietBegin DEF Call, ModeServices
<1>9. CASE route = "export" /\ BeginExport
  <2>1. CASE Answer("error")
    BY <1>2, <1>3, <1>9, <2>1, QuietAnswer DEF BeginExport
  <2>2. CASE wasRunning' = PauseForExport /\ PauseForExport /\ Call("pause")
    BY <1>1, <1>2, <1>9, <2>2, QuietBegin
    DEF BeginExport, PauseForExport, Call, ModeServices
  <2>3. CASE /\ wasRunning' = PauseForExport /\ ~PauseForExport
             /\ phase' = "exporting"
             /\ UNCHANGED <<asked, client, reply, svc, exportOk>>
    BY <1>1, <1>2, <1>9, <2>3, QuietBegin DEF BeginExport, PauseForExport
  <2> QED  BY <1>9, <2>1, <2>2, <2>3 DEF BeginExport
<1>10. CASE route = "config" /\ BeginConfig
  <2>1. CASE \E code : Answer(code)
    BY <1>2, <1>3, <1>10, <2>1, QuietAnswer DEF BeginConfig
  <2>2. CASE Call("set_parameters") /\ UNCHANGED wasRunning
    BY <1>1, <1>2, <1>10, <2>2, QuietBegin DEF BeginConfig, Call, ModeServices
  <2> QED  BY <1>10, <2>1, <2>2 DEF BeginConfig
<1> QED
  BY <1>4, <1>5, <1>6, <1>7, <1>8, <1>9, <1>10 DEF Dispatch

(* What the handler does with the result of a call: a call fails only      *)
(* while rtabmap has not been launched, or for a rejected parameter.       *)
LEMMA QuietReturns ==
  ASSUME TypeOK, QuietFacts, NEW ok \in BOOLEAN, Returns(ok),
         UNCHANGED <<api, rt, rtPaused, late, infos>>,
         IF ok THEN phase = "served"
               ELSE \/ phase = "discover" /\ rt = "down"
                    \/ phase = "served" /\ svc = "set_parameters"
  PROVE  QuietFacts'
<1>1. Calling /\ api' = "up" /\ \A s \in Services : late'[s] = 0
  BY DEF Calling, Reading, QuietFacts, QuietPhase
<1>2. rt = "down" => ~ok /\ ~rtPaused /\ ms = "unknown" /\ wanted = "unknown"
                     /\ infos = {}
  BY DEF QuietFacts, QuietDown
<1>3. CASE GoReturns(ok)
  <2>1. svc = "resume" /\ route # "export" /\ route # "restart"
    BY <1>1, <1>3 DEF GoReturns, QuietFacts, QuietRoute
  <2>2. /\ ok => ~rtPaused /\ ms' = "running" /\ wanted' = "running"
        /\ ~ok => rt = "down" /\ ms' = ms /\ wanted' = wanted
    BY <1>3, <2>1
    DEF GoReturns, QuietFacts, QuietMode, ModeAnswerPending, ModeServices
  <2> QED  BY <1>1, <1>2, <1>3, <2>2, QuietAnswer DEF GoReturns
<1>4. CASE PauseReturns(ok)
  <2>1. svc = "pause" /\ route # "export" /\ route # "restart"
    BY <1>1, <1>4 DEF PauseReturns, QuietFacts, QuietRoute
  <2>2. /\ ok => rtPaused /\ ms' = "paused" /\ wanted' = "paused"
        /\ ~ok => rt = "down" /\ ms' = ms /\ wanted' = wanted
    BY <1>4, <2>1
    DEF PauseReturns, QuietFacts, QuietMode, ModeAnswerPending, ModeServices
  <2> QED  BY <1>1, <1>2, <1>4, <2>2, QuietAnswer DEF PauseReturns
<1>5. CASE RestartResumed(ok)
  <2>1. ~rtPaused /\ route = "restart" /\ route' = "restart"
    BY <1>2, <1>5
    DEF RestartResumed, QuietFacts, QuietMode, ModeAnswerPending, ModeServices,
        route
  <2>2. QuietPhase' /\ QuietRoute'
    BY <1>1, <1>5, <2>1
    DEF RestartResumed, QuietFacts, QuietPhase, QuietRoute, Calling, Reading
  <2>3. QuietDown' /\ QuietMode' /\ QuietWanted'
    BY <1>2, <1>5, <2>1
    DEF RestartResumed, QuietFacts, QuietDown, QuietMode, QuietWanted,
        ModeAnswerPending, RestartHalf
  <2> QED  BY <2>2, <2>3 DEF QuietFacts
<1>6. CASE RestartReturns(ok)
  <2>1. RestartHalf /\ ~rtPaused /\ route # "export"
    BY <1>6 DEF RestartReturns, RestartHalf, QuietFacts, QuietMode
  <2>2. /\ ok => ms' = "running" /\ wanted' = "running"
        /\ ~ok => rt = "down" /\ ms' = ms /\ wanted' = wanted
    BY <1>6 DEF RestartReturns
  <2> QED  BY <1>1, <1>2, <1>6, <2>1, <2>2, QuietAnswer DEF RestartReturns
<1>7. CASE ExportPaused(ok)
  <2>1. svc = "pause" /\ route = "export" /\ route' = "export" /\ wasRunning
    BY <1>1, <1>7
    DEF ExportPaused, QuietFacts, QuietRoute, route
  <2>2. /\ ok => rtPaused /\ ms' = "paused"
        /\ ~ok => rt = "down" /\ ms' = ms
    BY <1>7, <2>1
    DEF ExportPaused, QuietFacts, QuietMode, ModeAnswerPending, ModeServices
  <2>3. QuietPhase' /\ QuietRoute'
    BY <1>1, <1>7, <2>1
    DEF ExportPaused, QuietFacts, QuietPhase, QuietRoute, Calling, Reading
  <2>4. QuietDown' /\ QuietMode' /\ QuietWanted'
    BY <1>2, <1>7, <2>1, <2>2
    DEF ExportPaused, QuietFacts, QuietDown, QuietMode, QuietWanted,
        ModeAnswerPending, RestartHalf
  <2> QED  BY <2>3, <2>4 DEF QuietFacts
<1>8. CASE ExportResumed(ok)
  <2>1. svc = "resume" /\ route = "export" /\ wasRunning /\ wanted # "paused"
    BY <1>1, <1>8
    DEF ExportResumed, QuietFacts, QuietRoute, QuietWanted
  <2>2. /\ ok => ~rtPaused /\ ms' = "running"
        /\ ~ok => rt = "down" /\ ms' = ms
        /\ wanted' = wanted /\ wanted \in Modes
    BY <1>8, <2>1
    DEF ExportResumed, QuietFacts, QuietMode, ModeAnswerPending, ModeServices,
        TypeOK
  <2> QED  BY <1>1, <1>2, <1>8, <2>1, <2>2, QuietAnswer DEF ExportResumed
<1>9. CASE OtherReturns(ok)
  <2>1. svc \notin ModeServices /\ route # "export" /\ route # "restart"
    BY <1>1, <1>9 DEF OtherReturns, QuietFacts, QuietRoute
  <2>2. /\ rtPaused <=> ms = "paused"
        /\ wanted # "unknown" => ms = wanted
        /\ ms' = ms /\ wanted' = wanted
    BY <1>9, <2>1
    DEF OtherReturns, QuietFacts, QuietMode, QuietWanted, ModeAnswerPending,
        RestartHalf
  <2> QED  BY <1>1, <1>2, <1>9, <2>2, QuietAnswer DEF OtherReturns
<1> QED
  BY <1>3, <1>4, <1>5, <1>6, <1>7, <1>8, <1>9 DEF Returns

(* Every step of a run without faults keeps its facts. *)
LEMMA QuietStep ==
  ASSUME NoFaults, QuietInv, [Next]_vars
  PROVE  QuietInv'
<1>0. TypeOK /\ Waits /\ QuietFacts /\ TypeOK' /\ Waits'
  BY TypeStep, WaitsStep DEF QuietInv
<1> SUFFICES QuietFacts'
  BY <1>0 DEF QuietInv
<1> USE DEF httpVars, handlerVars, serverVars, rtVars
<1>1. ASSUME NEW c \in Clients, NEW r \in Routes, Request(c, r)
      PROVE  QuietFacts'
  <2>1. c # client /\ route' = route
    BY <1>0, <1>1, MappingAssumption DEF Request, Waits, route, TypeOK
  <2> QED
    BY <1>0, <1>1, <2>1
    DEF Request, QuietFacts, QuietPhase, QuietRoute, QuietDown, QuietMode,
        QuietWanted, Calling, Reading, RestartHalf, ModeAnswerPending
<1>2. CASE Accept \/ ClientSends \/ ClientLeaves
  <2>1. /\ phase \in {"idle", "reading"} /\ Reading'
        /\ UNCHANGED <<api, svc, wasRunning, ms, rt, rtPaused, late, infos, wanted>>
    BY <1>2 DEF Accept, ClientSends, ClientLeaves, Reading
  <2>2. /\ svc = "none" /\ ~wasRunning
        /\ rtPaused <=> ms = "paused"
        /\ wanted # "unknown" => ms = wanted
    BY <1>0, <2>1, QuietReading DEF Reading
  <2> QED
    BY <1>0, <2>1, <2>2
    DEF QuietFacts, QuietPhase, QuietRoute, QuietDown, QuietMode, QuietWanted,
        Calling, RestartHalf, ModeAnswerPending, Reading
<1>15. CASE Abort
  <2>1. Reading /\ UNCHANGED <<api, ms, rt, rtPaused, late, infos, wanted>>
    BY <1>15 DEF Abort, Reading
  <2> QED
    BY <1>0, <1>15, <2>1, QuietReading, QuietAnswer
    DEF Abort, QuietFacts, QuietPhase, QuietDown
<1>16. CASE Dispatch
  BY <1>0, <1>16, QuietDispatch
<1>3. CASE Send
  BY <1>0, <1>3
  DEF Send, QuietFacts, QuietPhase, QuietRoute, QuietDown, QuietMode,
      QuietWanted, Calling, Reading, RestartHalf, ModeAnswerPending,
      route
<1>4. CASE NotAvailable
  BY <1>0, <1>4, QuietReturns DEF NotAvailable
<1>5. CASE CallOk
  BY <1>0, <1>5, QuietReturns DEF CallOk
<1>6. CASE CallRaises \/ TimedOut \/ ExportFails \/ RefuseLive \/ RtStop
           \/ ApiStop \/ ApiStart
  BY <1>0, <1>6
  DEF CallRaises, TimedOut, WaitOver, ExportFails, RefuseLive, RtStop, ApiStop,
      ApiStart, NoFaults, QuietFacts, QuietPhase
<1>7. CASE Settled
  BY <1>0, <1>7
  DEF Settled, QuietFacts, QuietPhase, QuietRoute, QuietDown, QuietMode,
      QuietWanted, Calling, Reading, RestartHalf, ModeAnswerPending,
      ModeServices, route
<1>8. CASE Exported
  <2>1. /\ phase = "exporting" /\ route = "export"
        /\ UNCHANGED <<queue, serverVars, rtVars, wanted, stray>>
    BY <1>0, <1>8 DEF Exported, QuietFacts, QuietRoute
  <2>2. /\ rtPaused <=> ms = "paused"
        /\ wanted # "unknown" /\ ~wasRunning => ms = wanted
        /\ api = "up" /\ \A s \in Services : late[s] = 0
        /\ rt = "down" => ~rtPaused /\ ms = "unknown" /\ wanted = "unknown"
                          /\ infos = {}
    BY <1>0, <2>1
    DEF QuietFacts, QuietPhase, QuietMode, QuietWanted, QuietDown,
        ModeAnswerPending, RestartHalf
  <2>3. CASE ~wasRunning
    <3>1. \E code : Answer(code)
      BY <1>8, <2>3 DEF Exported
    <3> QED  BY <1>0, <2>1, <2>2, <2>3, <3>1, QuietAnswer
  <2>4. CASE wasRunning
    <3>1. /\ svc' = "resume" /\ phase' = "discover"
          /\ UNCHANGED <<asked, client, wasRunning>>
      BY <1>8, <2>4 DEF Exported
    <3> QED
      BY <1>0, <2>1, <2>2, <2>4, <3>1
      DEF QuietFacts, QuietPhase, QuietRoute, QuietDown, QuietMode,
          QuietWanted, Calling, Reading, RestartHalf, ModeAnswerPending,
          ModeServices,
          route
  <2> QED  BY <2>3, <2>4
<1>9. CASE ServeLive
  <2>1. /\ phase = "sent" /\ phase' = "served" /\ rt = "up"
        /\ rtPaused' = CASE svc = "pause" -> TRUE
                         [] svc = "resume" -> FALSE
                         [] OTHER -> rtPaused
        /\ UNCHANGED <<asked, api, client, svc, wasRunning, ms, rt, late, infos,
                       wanted>>
    BY <1>9 DEF ServeLive, Serve
  <2>2. route' = route /\ rtPaused \in BOOLEAN
    BY <1>0, <2>1 DEF route, TypeOK
  <2>3. QuietPhase' /\ QuietRoute' /\ QuietDown' /\ QuietWanted'
    BY <1>0, <2>1, <2>2
    DEF QuietFacts, QuietPhase, QuietRoute, QuietDown, QuietWanted, Calling, Reading
  <2>4. QuietMode'
    BY <1>0, <2>1, <2>2
    DEF QuietFacts, QuietMode, RestartHalf, ModeAnswerPending, ModeServices
  <2> QED  BY <2>3, <2>4 DEF QuietFacts
<1>10. ASSUME NEW s \in Services, ServeLate(s)
       PROVE  QuietFacts'
  BY <1>0, <1>10 DEF ServeLate, QuietFacts, QuietPhase
<1>11. CASE Process
  BY <1>0, <1>11
  DEF Process, QuietFacts, QuietPhase, QuietRoute, QuietDown, QuietMode,
      QuietWanted, Calling, Reading, RestartHalf, ModeAnswerPending,
      route
<1>12. ASSUME NEW i \in infos, OnInfo(i)
       PROVE  QuietFacts'
  BY <1>0, <1>12
  DEF OnInfo, QuietFacts, QuietPhase, QuietRoute, QuietDown, QuietMode,
      QuietWanted, Calling, Reading, RestartHalf, ModeAnswerPending,
      route, TypeOK
<1>13. CASE RtStart
  BY <1>0, <1>13
  DEF RtStart, QuietFacts, QuietPhase, QuietRoute, QuietDown, QuietMode,
      QuietWanted, Calling, Reading, RestartHalf, ModeAnswerPending,
      route
<1>14. CASE UNCHANGED vars
  BY <1>0, <1>14
  DEF vars, QuietFacts, QuietPhase, QuietRoute, QuietDown, QuietMode,
      QuietWanted, Calling, Reading, RestartHalf, ModeAnswerPending,
      route
<1> QED
  BY <1>1, <1>2, <1>3, <1>4, <1>5, <1>6, <1>7, <1>8, <1>9, <1>10, <1>11,
     <1>12, <1>13, <1>14, <1>15, <1>16
  DEF Next, HandlerStep, RtabmapStep

(* The facts hold at the start and ever after. *)
LEMMA QuietAlways ==
  ASSUME NoFaults
  PROVE  Spec => []QuietInv
<1>1. Init => QuietInv
  <2> SUFFICES ASSUME Init PROVE QuietInv
    OBVIOUS
  <2> QED
    BY TypeInit, WaitsInit, MappingAssumption
    DEF Init, QuietInv, QuietFacts, QuietPhase, QuietRoute, QuietDown,
        QuietMode, QuietWanted, Calling, Reading, RestartHalf,
        ModeAnswerPending, route
<1>2. QuietInv /\ [Next]_vars => QuietInv'
  BY QuietStep
<1> QED  BY <1>1, <1>2, PTL DEF Spec

(* Between requests the modes agree, and are the one asked for last. *)
LEMMA QuietBetween ==
  QuietInv => /\ PausedMeansNotIntegrating
              /\ RunningMeansIntegrating
              /\ OperatorModeHolds
BY QuietReading
DEF QuietInv, QuietFacts, QuietPhase, QuietMode, QuietWanted,
    PausedMeansNotIntegrating, RunningMeansIntegrating, OperatorModeHolds,
    ModeAnswerPending, RestartHalf, route

(* Without faults a "paused" status means that rtabmap does not integrate, *)
(* for any clients and routes.                                             *)
THEOREM PausedIsTrue ==
  ASSUME NoFaults
  PROVE  Spec => []PausedMeansNotIntegrating
BY QuietAlways, QuietBetween, PTL

(* Without faults a "running" status means that scans are integrated.      *)
THEOREM RunningIsTrue ==
  ASSUME NoFaults
  PROVE  Spec => []RunningMeansIntegrating
BY QuietAlways, QuietBetween, PTL

(* Without faults rtabmap is, between requests, in the mode that was       *)
(* acknowledged last, exports and skipped calls included.                  *)
THEOREM OperatorObeyed ==
  ASSUME NoFaults
  PROVE  Spec => []OperatorModeHolds
BY QuietAlways, QuietBetween, PTL
=============================================================================

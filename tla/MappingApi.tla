----------------------------- MODULE MappingApi -----------------------------
(***************************************************************************)
(* The HTTP control server of the mapping pipeline (mapping_api.py).       *)
(*                                                                         *)
(* One HTTPServer reads and serves requests one at a time in the main      *)
(* thread, and waits without a time-out for a client's bytes; a handler    *)
(* calls services of the rtabmap node and keeps its own idea of            *)
(* the mapping mode, _mapping_state (here ms).  rtabmap is another process:*)
(* it may be absent, restart, answer late or answer after the caller has   *)
(* stopped waiting, and the ROS executor thread updates ms from its info   *)
(* messages while a handler runs.                                          *)
(***************************************************************************)
EXTENDS Naturals, Sequences

CONSTANTS
  Clients,      \* HTTP clients, each with at most one open request
  NoClient,     \* no request is being handled
  Routes,       \* the routes the clients use, some of AllRoutes
  MaxLate,      \* requests of one service still queued after their caller left
  MaxNodes,     \* nodes rtabmap's map may hold; it stops growing there
  MaxLoops,     \* loop closures the server counts to; 0 leaves them out
  InfoTypes,    \* what rtabmap_msgs may offer, some of AllInfoTypes
  RtMayStop,    \* rtabmap may exit (and be launched again)
  ApiMayStop,   \* the server may be killed (and be restarted by systemd)
  CallFaults,   \* a service call to a live rtabmap may time out or fail
  ExportRaises  \* the exporter may raise an exception the code does not catch

AllRoutes == {"status", "go", "pause", "restart", "new_map", "export",
              "config", "elsewhere"}

(* The routes of do_POST: "elsewhere" is an unknown path of either method. *)
PostRoutes == AllRoutes \ {"status"}

(* rtabmap_msgs is no part of the repository: its Info may have a          *)
(* nodes_count or not, or the package may not be there to be imported.     *)
AllInfoTypes == {"counted", "bare", "none"}

ASSUME MappingAssumption ==
  /\ NoClient \notin Clients
  /\ Routes \subseteq AllRoutes
  /\ {MaxLate, MaxNodes, MaxLoops} \subseteq Nat
  /\ InfoTypes \subseteq AllInfoTypes
  /\ {RtMayStop, ApiMayStop, CallFaults, ExportRaises} \subseteq BOOLEAN

VARIABLES
  asked,      \* the route of each client's open request, or "none"
  queue,      \* clients in the listen backlog, oldest first
  api,        \* the server process: "up" or "down"
  client,     \* the client whose request the main thread is handling
  svc,        \* the service the handler is calling
  phase,      \* where the handler is
  wasRunning, \* action_export: was_running
  exportOk,   \* action_export: result["ok"]
  ms,         \* _mapping_state
  nodes,      \* _node_count
  loops,      \* _loop_closures
  infoType,   \* the Info message of this installation
  rt,         \* the rtabmap process: "up" or "down"
  rtPaused,   \* rtabmap has been paused: it drops scans and leaves its DB alone
  late,       \* per service, requests rtabmap may still serve for nobody
  rtNodes,    \* nodes of rtabmap's map
  infos,      \* /rtabmap/info messages on their way to _on_info
  reply,      \* history: the answer to the request accepted last, if any yet
  wanted,     \* history: the mode the last acknowledged mode request asked for
  stray       \* history: rtabmap's mode changed behind the handler's back

httpVars == <<asked, queue, reply>>
handlerVars == <<client, svc, phase, wasRunning, exportOk>>
counts == <<nodes, loops>>
serverVars == <<api, ms, nodes, loops>>
rtVars == <<rt, rtPaused, late, rtNodes, infos, infoType>>
vars == <<asked, queue, api, client, svc, phase, wasRunning, exportOk, ms,
          nodes, loops, rt, rtPaused, late, rtNodes, infos, infoType, reply,
          wanted, stray>>

Services == {"pause", "resume", "reset", "trigger_new_map", "set_parameters"}
Phases == {"idle", "reading", "read", "cut", "discover", "sent", "lost",
           "served", "failed", "settle", "exporting"}
Modes == {"unknown", "running", "paused"}
Replies == {"none", "ok", "error", "warned", "notfound", "dropped"}

(* The fields of an info message that _on_info reads. *)
Infos == [nodes : 0..MaxNodes, closure : BOOLEAN]

TypeOK ==
  /\ asked \in [Clients -> AllRoutes \cup {"none"}]
  /\ queue \in Seq(Clients)
  /\ api \in {"up", "down"}
  /\ client \in Clients \cup {NoClient}
  /\ svc \in Services \cup {"none"}
  /\ phase \in Phases
  /\ wasRunning \in BOOLEAN /\ exportOk \in BOOLEAN
  /\ ms \in Modes
  /\ rt \in {"up", "down"} /\ rtPaused \in BOOLEAN
  /\ late \in [Services -> 0..MaxLate]
  /\ nodes \in 0..MaxNodes /\ loops \in 0..MaxLoops
  /\ rtNodes \in 0..MaxNodes /\ infos \in SUBSET Infos
  /\ infoType \in InfoTypes
  /\ reply \in Replies
  /\ wanted \in Modes
  /\ stray \in BOOLEAN

(* Either process may be started first; rtabmap starts unpaused. *)
Init ==
  /\ asked = [c \in Clients |-> "none"] /\ queue = <<>> /\ reply = "none"
  /\ api = "up" /\ ms = "unknown"
  /\ client = NoClient /\ svc = "none" /\ phase = "idle"
  /\ wasRunning = FALSE /\ exportOk = FALSE
  /\ rt \in {"up", "down"} /\ rtPaused = FALSE
  /\ nodes = 0 /\ loops = 0 /\ rtNodes = 0
  /\ late = [s \in Services |-> 0] /\ infos = {} /\ infoType \in InfoTypes
  /\ wanted = "unknown" /\ stray = FALSE

-----------------------------------------------------------------------------
(* The main thread: one request at a time.                                 *)

route == IF client = NoClient THEN "none" ELSE asked[client]

(* The answer leaves and the server can accept the next connection. *)
Answer(code) ==
  /\ asked' = [asked EXCEPT ![client] = "none"]
  /\ reply' = code
  /\ client' = NoClient /\ svc' = "none" /\ phase' = "idle"
  /\ wasRunning' = FALSE /\ exportOk' = FALSE

(* The handler blocks in call_empty or call_set_params. *)
Call(s) ==
  /\ svc' = s /\ phase' = "discover"
  /\ UNCHANGED <<asked, client, reply, exportOk>>

(* A client connects, with the request it is going to send. *)
Request(c, r) ==
  /\ api = "up" /\ asked[c] = "none"
  /\ asked' = [asked EXCEPT ![c] = r]
  /\ queue' = Append(queue, c)
  /\ UNCHANGED <<api, handlerVars, ms, counts, rtVars, reply, wanted, stray>>

(* The oldest connection is accepted, and its request line awaited. *)
Accept ==
  /\ api = "up" /\ phase = "idle" /\ queue # <<>>
  /\ client' = Head(queue) /\ queue' = Tail(queue)
  /\ phase' = "reading" /\ reply' = "none"
  /\ UNCHANGED <<asked, svc, wasRunning, exportOk, serverVars, rtVars, wanted,
                 stray>>

(* The request line, the headers and the body they announce have arrived;  *)
(* what came before the connection was accepted counts from then.          *)
ClientSends ==
  /\ phase = "reading" /\ phase' = "read"
  /\ UNCHANGED <<httpVars, serverVars, client, svc, wasRunning, exportOk,
                 rtVars, wanted, stray>>

(* The client leaves before it has sent all of it. *)
ClientLeaves ==
  /\ phase = "reading" /\ phase' = "cut"
  /\ UNCHANGED <<httpVars, serverVars, client, svc, wasRunning, exportOk,
                 rtVars, wanted, stray>>

(* Without a whole request line and headers there is nothing to do. *)
Abort ==
  /\ phase = "cut" /\ Answer("dropped")
  /\ UNCHANGED <<queue, serverVars, rtVars, wanted, stray>>

(* action_start: skipped only when the server is certain mapping runs. *)
BeginGo ==
  IF ms = "running"
  THEN Answer("ok") /\ wanted' = "running"
  ELSE Call("resume") /\ UNCHANGED <<wanted, wasRunning>>

BeginPause ==
  IF ms = "paused"
  THEN Answer("ok") /\ wanted' = "paused"
  ELSE Call("pause") /\ UNCHANGED <<wanted, wasRunning>>

ResumeFirst == ms = "paused"

BeginRestart ==
  /\ Call(IF ResumeFirst THEN "resume" ELSE "reset")
  /\ UNCHANGED <<wanted, wasRunning>>

(* A mutated form of PauseForExport: the mode is not looked at. *)
PauseForExportAlways == ms \in Modes

(* action_export pauses rtabmap unless it already holds the map paused. *)
PauseForExport == ms \in {"running", "unknown"}

BeginExport ==
  /\ UNCHANGED wanted
  /\ \/ Answer("error")                          \* no database file
     \/ /\ wasRunning' = PauseForExport
        /\ IF PauseForExport
           THEN Call("pause")
           ELSE /\ phase' = "exporting"
                /\ UNCHANGED <<asked, client, reply, svc, exportOk>>

(* action_config: a missing or malformed file, an empty one (the attribute *)
(* error of None leaves the handler), or a service call.                   *)
BeginConfig ==
  /\ UNCHANGED wanted
  /\ \/ Answer("error")
     \/ Answer("dropped")
     \/ Call("set_parameters") /\ UNCHANGED wasRunning

(* do_GET and do_POST.  A body that was cut off reads as an empty one: a   *)
(* POST is carried out although its client has gone.                       *)
Dispatch ==
  /\ phase = "read" \/ (phase = "cut" /\ route \in PostRoutes)
  /\ \/ route = "status" /\ Answer("ok") /\ UNCHANGED wanted
     \/ route = "elsewhere" /\ Answer("notfound") /\ UNCHANGED wanted
     \/ route = "go" /\ BeginGo
     \/ route = "pause" /\ BeginPause
     \/ route = "restart" /\ BeginRestart
     \/ route = "new_map" /\ Call("trigger_new_map")
                          /\ UNCHANGED <<wanted, wasRunning>>
     \/ route = "export" /\ BeginExport
     \/ route = "config" /\ BeginConfig
  /\ UNCHANGED <<queue, api, ms, counts, rtVars, stray>>

-----------------------------------------------------------------------------
(* What each action does when its service call returns ok or not.          *)

Code(ok) == IF ok THEN "ok" ELSE "error"

(* Mutated forms of the continuations: an unchecked result, a forgotten    *)
(* assignment of _mapping_state.                                           *)
PauseReturnsUnchecked(ok) ==
  /\ route = "pause" /\ ok \in BOOLEAN
  /\ Answer("ok") /\ ms' = "paused" /\ wanted' = "paused"

PauseReturnsForgets(ok) ==
  /\ route = "pause" /\ Answer(Code(ok))
  /\ wanted' = (IF ok THEN "paused" ELSE wanted) /\ UNCHANGED ms

GoReturnsForgets(ok) ==
  /\ route = "go" /\ Answer(Code(ok))
  /\ wanted' = (IF ok THEN "running" ELSE wanted) /\ UNCHANGED ms


GoReturns(ok) ==
  /\ route = "go"
  /\ Answer(Code(ok))
  /\ ms' = (IF ok THEN "running" ELSE ms)
  /\ wanted' = (IF ok THEN "running" ELSE wanted)

PauseReturns(ok) ==
  /\ route = "pause"
  /\ Answer(Code(ok))
  /\ ms' = (IF ok THEN "paused" ELSE ms)
  /\ wanted' = (IF ok THEN "paused" ELSE wanted)

(* action_reset ignores what resume returned and sleeps 0.3 s. *)
RestartResumed(ok) ==
  /\ route = "restart" /\ svc = "resume"
  /\ ok \in BOOLEAN
  /\ phase' = "settle"
  /\ UNCHANGED <<asked, reply, client, svc, wasRunning, exportOk, ms, wanted>>

RestartReturns(ok) ==
  /\ route = "restart" /\ svc = "reset"
  /\ Answer(Code(ok))
  /\ IF ok THEN ms' = "running" /\ nodes' = 0 /\ loops' = 0
           ELSE UNCHANGED <<ms, counts>>
  /\ wanted' = (IF ok THEN "running" ELSE wanted)

(* A failed pause does not stop the export. *)
ExportPaused(ok) ==
  /\ route = "export" /\ svc = "pause"
  /\ ms' = (IF ok THEN "paused" ELSE ms)
  /\ phase' = "exporting"
  /\ UNCHANGED <<asked, reply, client, svc, wasRunning, exportOk, wanted>>

ExportResumed(ok) ==
  /\ route = "export" /\ svc = "resume"
  /\ Answer(IF ok THEN Code(exportOk) ELSE "warned")
  /\ ms' = (IF ok THEN "running" ELSE ms)
  /\ UNCHANGED wanted

OtherReturns(ok) ==
  /\ route \in {"new_map", "config"}
  /\ Answer(Code(ok))
  /\ UNCHANGED <<ms, wanted>>

Returns(ok) ==
  \/ RestartReturns(ok)
  \/ /\ UNCHANGED counts
     /\ \/ GoReturns(ok) \/ PauseReturns(ok) \/ RestartResumed(ok)
        \/ ExportPaused(ok) \/ ExportResumed(ok) \/ OtherReturns(ok)

-----------------------------------------------------------------------------
(* A service call: wait for the service, send, wait for the answer.        *)

Send ==
  /\ phase = "discover" /\ rt = "up"
  /\ phase' = "sent"
  /\ UNCHANGED <<httpVars, serverVars, client, svc, wasRunning, exportOk,
                 rtVars, wanted, stray>>

NotAvailable ==
  /\ phase = "discover" /\ rt = "down"
  /\ Returns(FALSE)
  /\ UNCHANGED <<queue, api, rtVars, stray>>

CallOk ==
  /\ phase = "served"
  /\ \/ Returns(TRUE)
     \/ svc = "set_parameters" /\ Returns(FALSE)   \* a rejected parameter
  /\ UNCHANGED <<queue, api, rtVars, stray>>

CallRaises ==
  /\ phase = "failed"
  /\ Returns(FALSE)
  /\ UNCHANGED <<queue, api, rtVars, stray>>

(* A mutated form: event.wait() is unbounded. *)
WaitForEver == FALSE

(* The request stays with rtabmap when its caller stops waiting. *)
Abandon == [late EXCEPT ![svc] = IF @ < MaxLate THEN @ + 1 ELSE @]

ModeServices == {"pause", "resume"}

WaitOver == phase = "lost" \/ (CallFaults /\ phase \in {"sent", "served"})

TimedOut ==
  /\ WaitOver
  /\ Returns(FALSE)
  /\ late' = (IF phase = "sent" THEN Abandon ELSE late)
  /\ stray' = (stray \/ (phase = "served" /\ svc \in ModeServices))
  /\ UNCHANGED <<queue, api, rt, rtPaused, rtNodes, infos, infoType>>

(* action_reset after its sleep. *)
Settled ==
  /\ phase = "settle"
  /\ svc' = "reset" /\ phase' = "discover"
  /\ UNCHANGED <<httpVars, serverVars, client, wasRunning, exportOk, rtVars,
                 wanted, stray>>

(* subprocess.run of rtabmap-export: a result, good or bad, then resume if *)
(* this request paused; or an exception no except clause names.            *)
Exported ==
  /\ phase = "exporting"
  /\ \E ok \in BOOLEAN :
       IF wasRunning
       THEN /\ exportOk' = ok /\ svc' = "resume" /\ phase' = "discover"
            /\ UNCHANGED <<asked, reply, client, wasRunning>>
       ELSE Answer(Code(ok))
  /\ UNCHANGED <<queue, serverVars, rtVars, wanted, stray>>

ExportFails ==
  /\ phase = "exporting" /\ ExportRaises
  /\ Answer("dropped")
  /\ UNCHANGED <<queue, serverVars, rtVars, wanted, stray>>

-----------------------------------------------------------------------------
(* rtabmap and the executor thread.                                        *)

(* The service s does its work. *)
Serve(s) ==
  /\ rtPaused' = CASE s = "pause" -> TRUE
                   [] s = "resume" -> FALSE
                   [] OTHER -> rtPaused
  /\ rtNodes' = (IF s = "reset" THEN 0 ELSE rtNodes)

ServeLive ==
  /\ rt = "up" /\ phase = "sent"
  /\ phase' = "served"
  /\ Serve(svc)
  /\ stray' = (stray /\ svc \notin ModeServices)
  /\ UNCHANGED <<httpVars, serverVars, client, svc, wasRunning, exportOk, rt,
                 late, infos, infoType, wanted>>

RefuseLive ==
  /\ CallFaults /\ rt = "up" /\ phase = "sent"
  /\ phase' = "failed"
  /\ UNCHANGED <<httpVars, serverVars, client, svc, wasRunning, exportOk,
                 rtVars, wanted, stray>>

ServeLate(s) ==
  /\ rt = "up" /\ late[s] > 0
  /\ late' = [late EXCEPT ![s] = @ - 1]
  /\ Serve(s)
  /\ stray' = (stray \/ s \in ModeServices)
  /\ UNCHANGED <<httpVars, serverVars, handlerVars, rt, infos, infoType,
                 wanted>>

(* A scan is integrated, with or without a new node or a loop closure, and *)
(* /rtabmap/info is published; the server subscribes to it if it could     *)
(* import the message type.  A bare message has no count (0 is not read).  *)
Process ==
  /\ rt = "up" /\ ~rtPaused
  /\ rtNodes' \in {rtNodes, rtNodes + 1} \cap 0..MaxNodes
  /\ \E closure \in BOOLEAN :
       /\ closure => MaxLoops > 0
       /\ infos' = (IF api = "up" /\ infoType # "none"
                    THEN infos \cup {[nodes |-> IF infoType = "counted"
                                               THEN rtNodes' ELSE 0,
                                     closure |-> closure]}
                    ELSE infos)
  /\ UNCHANGED <<httpVars, serverVars, handlerVars, rt, rtPaused, late,
                 infoType, wanted, stray>>

(* A mutated form of OnInfo: the count is taken with the mode only. *)
OnInfoOnce(i) ==
  /\ api = "up" /\ i \in infos
  /\ infos' = infos \ {i} /\ UNCHANGED loops
  /\ ms' = (IF ms = "unknown" THEN "running" ELSE ms)
  /\ nodes' = (IF ms = "unknown" /\ infoType = "counted"
               THEN i.nodes ELSE nodes)
  /\ UNCHANGED <<httpVars, api, handlerVars, rt, rtPaused, late, rtNodes,
                 infoType, wanted, stray>>

(* _on_info: the callback group is reentrant, so messages may overtake one *)
(* another on their way to the state lock.                                 *)
OnInfo(i) ==
  /\ api = "up" /\ i \in infos
  /\ infos' = infos \ {i}
  /\ ms' = (IF ms = "unknown" THEN "running" ELSE ms)
  /\ nodes' = (IF infoType = "counted" THEN i.nodes ELSE nodes)
  /\ loops' = (IF i.closure /\ loops < MaxLoops THEN loops + 1 ELSE loops)
  /\ UNCHANGED <<httpVars, api, handlerVars, rt, rtPaused, late, rtNodes,
                 infoType, wanted, stray>>

RtStart ==
  /\ rt = "down"
  /\ rt' = "up"
  /\ UNCHANGED <<httpVars, serverVars, handlerVars, rtPaused, late, rtNodes,
                 infos, infoType, wanted, stray>>

(* What rtabmap had not served is gone; it comes back unpaused, with the   *)
(* map of its database.                                                    *)
RtStop ==
  /\ RtMayStop /\ rt = "up"
  /\ rt' = "down" /\ rtPaused' = FALSE
  /\ late' = [s \in Services |-> 0]
  /\ phase' = (IF phase = "sent" THEN "lost" ELSE phase)
  /\ stray' = (stray \/ rtPaused)
  /\ UNCHANGED <<httpVars, serverVars, client, svc, wasRunning, exportOk,
                 rtNodes, infos, infoType, wanted>>

(* Every connection is reset; a request already sent is still rtabmap's.   *)
(* The new process starts from the initial module state.                   *)
ApiStop ==
  /\ ApiMayStop /\ api = "up"
  /\ api' = "down" /\ ms' = "unknown" /\ nodes' = 0 /\ loops' = 0
  /\ infos' = {}
  /\ asked' = [c \in Clients |-> "none"] /\ queue' = <<>>
  /\ reply' = "dropped"
  /\ client' = NoClient /\ svc' = "none" /\ phase' = "idle"
  /\ wasRunning' = FALSE /\ exportOk' = FALSE
  /\ late' = (IF phase = "sent" THEN Abandon ELSE late)
  /\ UNCHANGED <<rt, rtPaused, rtNodes, infoType, wanted, stray>>

ApiStart ==
  /\ api = "down"
  /\ api' = "up"
  /\ UNCHANGED <<httpVars, handlerVars, ms, counts, rtVars, wanted, stray>>

-----------------------------------------------------------------------------
HandlerStep ==
  \/ Accept \/ Dispatch \/ Abort
  \/ Send \/ NotAvailable \/ CallOk \/ CallRaises \/ TimedOut
  \/ Settled \/ Exported \/ ExportFails

RtabmapStep == ServeLive \/ RefuseLive

Next ==
  \/ \E c \in Clients, r \in Routes : Request(c, r)
  \/ ClientSends \/ ClientLeaves
  \/ HandlerStep
  \/ RtabmapStep
  \/ \E s \in Services : ServeLate(s)
  \/ Process
  \/ \E i \in infos : OnInfo(i)
  \/ RtStart \/ RtStop
  \/ ApiStart \/ ApiStop

(* The main thread runs whenever it is not blocked, and each wait of a     *)
(* service call or an export is bounded by a time-out; a live rtabmap      *)
(* spins and answers.  Reading a request has no time-out, and no client is *)
(* obliged to send one: ClientSends and ClientLeaves are not fair.         *)
Fairness == WF_vars(HandlerStep) /\ WF_vars(RtabmapStep)

Spec == Init /\ [][Next]_vars /\ Fairness

(* The executor thread spins, and scans keep arriving at rtabmap. *)
ScanSpec ==
  /\ Spec
  /\ WF_vars(\E i \in infos : OnInfo(i))
  /\ WF_vars(Process)

-----------------------------------------------------------------------------
(* Properties.                                                             *)

(* A pause or resume has been served and the handler has not read the      *)
(* answer yet: _mapping_state is about to follow.                          *)
ModeAnswerPending == phase = "served" /\ svc \in ModeServices

(* However calls fail and processes restart, the mode the server believes  *)
(* is rtabmap's mode, unless rtabmap changed it by itself: by a restart or *)
(* by serving a request whose caller was gone.  It holds where nobody uses *)
(* /mapping/restart.                                                       *)
ModeAgrees ==
  ~stray /\ ~ModeAnswerPending =>
    /\ ms = "paused" => rtPaused
    /\ ms = "running" => ~rtPaused

(* MAPPING_API_README: a "paused" status means that the node does not      *)
(* integrate, whenever no request is half done.                            *)
PausedMeansNotIntegrating ==
  phase = "idle" /\ rt = "up" /\ ms = "paused" => rtPaused

(* MAPPING_API_README: a "running" status means that scans are integrated. *)
RunningMeansIntegrating ==
  phase = "idle" /\ rt = "up" /\ ms = "running" => ~rtPaused

(* Between requests rtabmap is in the mode the last acknowledged go, pause *)
(* or restart asked for: the skipped calls of go and pause were rightly    *)
(* skipped, and an export gives back the mode it found.                    *)
OperatorModeHolds ==
  phase = "idle" /\ rt = "up" =>
    /\ wanted = "paused" => rtPaused
    /\ wanted = "running" => ~rtPaused

(* No client that the server reads from stays silent for ever.  The code   *)
(* does not see to it: it reads without a time-out.                        *)
NoSilentClient == []<>(phase # "reading")

(* Every request is answered, or its connection dropped, although requests *)
(* queue behind one another, clients leave and rtabmap may never answer:   *)
(* only a client that stays silent for ever holds the others up.           *)
EveryRequestAnswered ==
  NoSilentClient =>
    \A c \in Clients : (asked[c] # "none") ~> (asked[c] = "none")


(* Where info messages carry a count: once rtabmap stays unpaused with a   *)
(* map that no longer grows, the count the status shows becomes that map's *)
(* and stays so, whatever messages of before a restart were on their way.  *)
CountConverges ==
  infoType = "counted" =>
    (<>[](rt = "up" /\ ~rtPaused /\ api = "up" /\ rtNodes = MaxNodes)
       => <>[](nodes = MaxNodes))

(* MAPPING_API_README, /mapping/restart: an acknowledged restart starts    *)
(* building a fresh map.                                                   *)
RestartStartsBuilding ==
  [][RestartReturns(TRUE) /\ phase = "served" => ~rtPaused']_vars
=============================================================================

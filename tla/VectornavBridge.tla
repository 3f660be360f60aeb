--------------------------- MODULE VectornavBridge ---------------------------
(***************************************************************************)
(* vectornav_udp_node.py: the main thread (main, the keep-alive timer,     *)
(* destroy_node) and the receive thread, the Pi that sends datagrams to    *)
(* those who subscribed, and the network between them.                     *)
(***************************************************************************)
EXTENDS Integers, Sequences

CONSTANTS
  Datagrams,   \* payloads: [type, json, present, broken]
  MaxSent,     \* bound: datagrams of the Pi
  MaxFaults    \* bound: restarts of the Pi, lost packets, lost routes

VARIABLES
  main,        \* the main thread: "new", "spin", "destroy", "close", "ended", "crashed"
  running,     \* _running
  sock,        \* the socket is open
  rx,          \* the receive thread: [at: "off", "wait", "publish", "ended";
               \*  todo: topics left; broken: the value that is not a number]
  subscribed,  \* the Pi sends to this node
  route,       \* packets can be sent to the Pi
  inbox,       \* datagrams received and not read
  sent, faults,
  topics       \* the number of messages on each topic

bridgeVars == <<main, running, sock, rx, subscribed, route, inbox, sent, faults, topics>>

(* In the order of _publish. *)
TOPICS == <<"imu_raw", "imu", "mag", "fix", "temperature", "pressure", "status">>
Optional == {"temperature", "pressure"}

Init ==
  /\ main = "new" /\ running = FALSE /\ sock = FALSE
  /\ rx = [at |-> "off", todo |-> <<>>, broken |-> "none"]
  /\ subscribed = FALSE /\ route = TRUE /\ inbox = <<>>
  /\ sent = 0 /\ faults = 0
  /\ topics = [t \in {TOPICS[i] : i \in DOMAIN TOPICS} |-> 0]

(* _send_subscribe, _send_unsubscribe: sendto raises OSError without a     *)
(* route; what is sent may be lost.                                        *)
Send(value) ==
  /\ route
  /\ \/ subscribed' = value /\ UNCHANGED faults
     \/ faults < MaxFaults /\ faults' = faults + 1 /\ UNCHANGED subscribed

(* __init__: the thread is started after the first packet.                 *)
__init__ ==
  /\ main = "new"
  /\ \/ /\ Send(TRUE)
        /\ main' = "spin" /\ running' = TRUE /\ sock' = TRUE
        /\ rx' = [rx EXCEPT !.at = "wait"]
     \/ ~route /\ main' = "crashed" /\ UNCHANGED <<running, sock, rx, subscribed, faults>>
  /\ UNCHANGED <<route, inbox, sent, topics>>

(* A mutated form: the packet is sent only once. *)
KeepAliveOnce ==
  /\ main = "spin" /\ ~route /\ main' = "destroy"
  /\ UNCHANGED <<running, sock, rx, route, inbox, sent, topics, subscribed, faults>>

(* The timer; OSError leaves spin. *)
KeepAlive ==
  /\ main = "spin"
  /\ \/ Send(TRUE) /\ UNCHANGED main
     \/ ~route /\ main' = "destroy" /\ UNCHANGED <<subscribed, faults>>
  /\ UNCHANGED <<running, sock, rx, route, inbox, sent, topics>>

Interrupt ==
  /\ main = "spin" /\ main' = "destroy"
  /\ UNCHANGED <<running, sock, rx, subscribed, route, inbox, sent, faults, topics>>

(* destroy_node: if the packet cannot be sent, the socket stays open and   *)
(* the exception ends the process.                                         *)
destroy_node ==
  /\ main = "destroy" /\ running' = FALSE
  /\ \/ Send(FALSE) /\ main' = "close"
     \/ ~route /\ main' = "crashed" /\ UNCHANGED <<subscribed, faults>>
  /\ UNCHANGED <<sock, rx, route, inbox, sent, topics>>

Close ==
  /\ main = "close" /\ main' = "ended" /\ sock' = FALSE
  /\ UNCHANGED <<running, rx, subscribed, route, inbox, sent, faults, topics>>

-----------------------------------------------------------------------------
(* What _publish goes through: all topics but the optional ones without a  *)
(* value.                                                                  *)
Todo(d) == SelectSeq(TOPICS, LAMBDA t : t \in Optional => t \in d.present)

(* A round of _receive_loop: it waits for a second at most, and ends with  *)
(* the socket or with _running. parse_packet gives no payload if the JSON  *)
(* is broken.                                                              *)
Receive ==
  /\ rx.at = "wait"
  /\ \/ /\ ~running \/ ~sock
        /\ rx' = [rx EXCEPT !.at = "ended"] /\ UNCHANGED inbox
     \/ /\ sock /\ inbox # <<>> /\ inbox' = Tail(inbox)
        /\ LET d == Head(inbox)
           IN  rx' = IF d.type = "data" /\ d.json
                     THEN [at |-> "publish", todo |-> Todo(d), broken |-> d.broken]
                     ELSE rx
  /\ UNCHANGED <<main, running, sock, subscribed, route, sent, faults, topics>>

(* _publish, one topic after the other: a value that is not a number, or a *)
(* publisher that was destroyed, ends it with an exception.                *)
_publish ==
  /\ rx.at = "publish"
  /\ IF rx.todo = <<>> \/ Head(rx.todo) = rx.broken \/ main = "ended"
     THEN rx' = [rx EXCEPT !.at = "wait", !.todo = <<>>] /\ UNCHANGED topics
     ELSE /\ topics' = [topics EXCEPT ![Head(rx.todo)] = @ + 1]
          /\ rx' = [rx EXCEPT !.todo = Tail(@)]
  /\ UNCHANGED <<main, running, sock, subscribed, route, inbox, sent, faults>>

(* The Pi sends to those who subscribed, and forgets them when it starts   *)
(* again; the route to it comes and goes.                                  *)
PiSends ==
  /\ subscribed /\ sock /\ sent < MaxSent
  /\ \E d \in Datagrams : inbox' = Append(inbox, d)
  /\ sent' = sent + 1
  /\ UNCHANGED <<main, running, sock, rx, subscribed, route, faults, topics>>

PiRestarts ==
  /\ subscribed /\ faults < MaxFaults
  /\ subscribed' = FALSE /\ faults' = faults + 1
  /\ UNCHANGED <<main, running, sock, rx, route, inbox, sent, topics>>

RouteChanges ==
  /\ faults < MaxFaults
  /\ route' = ~route /\ faults' = faults + 1
  /\ UNCHANGED <<main, running, sock, rx, subscribed, inbox, sent, topics>>

(* The end of the process ends the thread, which is a daemon. *)
ProcessEnds ==
  /\ main \in {"ended", "crashed"} /\ rx.at \notin {"off", "ended"}
  /\ rx' = [rx EXCEPT !.at = "ended"]
  /\ UNCHANGED <<main, running, sock, subscribed, route, inbox, sent, faults, topics>>

NodeStep == __init__ \/ KeepAlive \/ destroy_node \/ Close \/ Receive \/ _publish \/ ProcessEnds

BridgeNext == NodeStep \/ Interrupt \/ PiSends \/ PiRestarts \/ RouteChanges

(* While the node runs, a Pi that does not send to it, as the packet was   *)
(* lost or as it started again, will: nobody has to start the node again.  *)
StreamRecovers == main = "spin" /\ ~subscribed ~> subscribed \/ main # "spin"
=============================================================================

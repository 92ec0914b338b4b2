---------------------------- MODULE StatusStream ----------------------------
(***************************************************************************)
(* The WebSocket status stream of one replica: WebSocketStatusManager      *)
(* (app/websocket.py), the endpoint /ws/status (app/main.py), and what is  *)
(* broadcast over it: the event of a registration, by                      *)
(* RealtimeEventPublisher (app/events.py), and the alerts of a group, by   *)
(* the webhook of Alertmanager (app/main.py), one after another.           *)
(*                                                                         *)
(* broadcast iterates over the live set of connections and awaits a send   *)
(* in between, so sockets come, go and are dropped by other broadcasts     *)
(* while it runs.  A Python set iterator then raises RuntimeError if the   *)
(* size of the set is not what it was; if members were replaced by as many *)
(* others, it goes on, and may or may not find any given member.           *)
(***************************************************************************)
EXTENDS FiniteSets, Naturals, Sequences

CONSTANTS
    Sockets,    \* connections of clients to /ws/status
    Services,   \* services registered, each announced by one event
    Groups,     \* groups of alerts, each sent until the webhook accepts it
    Alerts,     \* alerts
    NotADict,   \* what the payload of a group may hold besides alerts
    Payload,    \* the "alerts" of a group
    Nobody,     \* not a socket
    SendErrors  \* what a send to a client that is gone may raise

Broadcasters == Services \cup Groups

ASSUME StreamAssumption ==
    /\ Nobody \notin Sockets
    /\ NotADict \notin Services \cup Alerts
    /\ Services \cap (Groups \cup Alerts) = {}
    /\ SendErrors \subseteq {"RuntimeError", "WebSocketDisconnect"}
    /\ Payload \in [Groups -> Seq(Alerts \cup {NotADict})]

VARIABLES
    connections,    \* WebSocketStatusManager._connections
    wpc,            \* where the handler of a socket is suspended
    open,           \* the sockets whose client is still there
    listed,         \* the services in the snapshot about to be sent to a socket
    known,          \* the services and alerts a client that is there was told of
    raised,         \* the sockets a send to which raised WebSocketDisconnect
    services,       \* the services in the database
    ppc,            \* where the request that broadcasts is suspended
    sending,        \* the broadcast it has under way
    settled         \* history: messages whose broadcast ran undisturbed

socketVars == <<connections, wpc, open, listed, known, raised>>
broadcastVars == <<services, ppc, sending, settled>>
vars == <<socketVars, broadcastVars>>

Handling == {"list", "snapshot", "receive"}

\* What the request of p goes through, one entry after another: the event of the
\* service, or the alerts of the group.
Messages(p) == IF p \in Services THEN <<p>> ELSE Payload[p]

\* The entries it broadcasts from the i-th on: those that are no dicts are skipped.
Remaining(p, i) == {k \in i .. Len(Messages(p)) : Messages(p)[k] # NotADict}

\* A broadcast: the message, the socket it is sent to, those the iterator came
\* to and those found disconnected, and the connections when it began.
Broadcast(i, w, seen, failed, members) ==
    [at |-> i, current |-> w, visited |-> seen, disconnected |-> failed, audience |-> members]

NoBroadcast == Broadcast(0, Nobody, {}, {}, {})

TypeOK ==
    /\ connections \subseteq Sockets /\ open \subseteq Sockets /\ raised \subseteq Sockets
    /\ wpc \in [Sockets -> Handling \cup {"idle", "gone"}]
    /\ listed \in [Sockets -> SUBSET Services]
    /\ known \in [Sockets -> SUBSET (Services \cup Alerts)]
    /\ services \subseteq Services /\ settled \subseteq services \cup Alerts
    /\ ppc \in [Broadcasters -> {"idle", "publish", "send", "done", "raised", "unpublished"}]
    /\ sending \in [Broadcasters -> [at : Nat, current : Sockets \cup {Nobody},
                                     visited : SUBSET Sockets, disconnected : SUBSET Sockets,
                                     audience : SUBSET Sockets]]
    /\ \A p \in Broadcasters :
        /\ sending[p].at <= Len(Messages(p))
        /\ ppc[p] = "send" <=> sending[p].current \in Sockets

Init ==
    /\ connections = {} /\ open = {} /\ raised = {}
    /\ wpc = [w \in Sockets |-> "idle"]
    /\ listed = [w \in Sockets |-> {}]
    /\ known = [w \in Sockets |-> {}]
    /\ services = {} /\ settled = {}
    /\ ppc = [p \in Broadcasters |-> "idle"]
    /\ sending = [p \in Broadcasters |-> NoBroadcast]

-----------------------------------------------------------------------------
(***************************************************************************)
(* A socket: websocket_status.                                             *)
(***************************************************************************)

Resume(w, from, to) ==
    /\ wpc[w] = from
    /\ wpc' = [wpc EXCEPT ![w] = to]

\* Mutant of JoinsAt: a socket is registered once its snapshot was sent.
JoinsAt_Snapshot == "snapshot"

\* The step of the handler that registers its socket.
JoinsAt == "connect"

Join(w, step) ==
    connections' = IF step = JoinsAt THEN connections \cup {w} ELSE connections

\* connect accepts the socket; the handler goes on to await repository.list.
Connect(w) ==
    /\ Resume(w, "idle", "list")
    /\ open' = open \cup {w}
    /\ Join(w, "connect")
    /\ UNCHANGED <<listed, known, raised, broadcastVars>>

\* The services are read; the snapshot is sent.
ListAnswered(w) ==
    /\ Resume(w, "list", "snapshot")
    /\ listed' = [listed EXCEPT ![w] = services]
    /\ UNCHANGED <<connections, open, known, raised, broadcastVars>>

\* The client leaves, or the server closes its socket.
Leave(w) ==
    /\ open' = open \ {w}
    /\ known' = [known EXCEPT ![w] = {}]

\* The handler catches nothing but WebSocketDisconnect: when list raises it ends,
\* and the server closes the socket, with the socket still registered.
ListFails(w) ==
    /\ Resume(w, "list", "gone")
    /\ Leave(w)
    /\ UNCHANGED <<connections, listed, raised, broadcastVars>>

\* What reaches a client that is still there.
Tell(w, news) == known' = IF w \in open THEN [known EXCEPT ![w] = @ \cup news] ELSE known

\* The snapshot is sent, or lost without an error.
SnapshotSent(w) ==
    /\ Resume(w, "snapshot", "receive")
    /\ Tell(w, listed[w])
    /\ Join(w, "snapshot")
    /\ listed' = [listed EXCEPT ![w] = {}]
    /\ UNCHANGED <<open, raised, broadcastVars>>

\* A send to a client that is gone raises: WebSocketDisconnect, by which the
\* socket takes the connection for closed, or RuntimeError, and from then on only
\* that.
SendRaises(w, error) ==
    /\ w \notin open
    /\ error \in SendErrors
    /\ error = "WebSocketDisconnect" => w \notin raised
    /\ raised' = IF error = "WebSocketDisconnect" THEN raised \cup {w} ELSE raised

\* The send of the snapshot raises.  Only for WebSocketDisconnect is the socket
\* removed.
SnapshotFails(w) ==
    /\ Resume(w, "snapshot", "gone")
    /\ \E error \in SendErrors :
        /\ SendRaises(w, error)
        /\ connections' = IF error = "WebSocketDisconnect" THEN connections \ {w} ELSE connections
    /\ listed' = [listed EXCEPT ![w] = {}]
    /\ UNCHANGED <<open, known, broadcastVars>>

\* The client leaves.
Close(w) ==
    /\ w \in open
    /\ Leave(w)
    /\ UNCHANGED <<connections, wpc, listed, raised, broadcastVars>>

\* receive_text raises WebSocketDisconnect.
ReceiveEnds(w) ==
    /\ w \notin open
    /\ Resume(w, "receive", "gone")
    /\ connections' = connections \ {w}
    /\ UNCHANGED <<open, listed, known, raised, broadcastVars>>

\* receive_text raises something else, as it does for a message that is not text:
\* as when list raises, the socket stays registered.
ReceiveFails(w) ==
    /\ Resume(w, "receive", "gone")
    /\ Leave(w)
    /\ UNCHANGED <<connections, listed, raised, broadcastVars>>

-----------------------------------------------------------------------------
(***************************************************************************)
(* What is broadcast: registrations and alerts.                            *)
(***************************************************************************)

Step(p, from, to) ==
    /\ ppc[p] = from
    /\ ppc' = [ppc EXCEPT ![p] = to]

\* Mutant of Register: the event is sent whether the service was stored or not.
Register_Unstored(p) ==
    /\ Step(p, "idle", "publish")
    /\ UNCHANGED <<socketVars, services, sending, settled>>

\* The service is committed; the handler goes on to the event backend.
Register(p) ==
    /\ Step(p, "idle", "publish")
    /\ services' = services \cup {p}
    /\ UNCHANGED <<socketVars, sending, settled>>

\* The event backend fails: publish raises before it broadcasts.
PublishFails(p) ==
    /\ Step(p, "publish", "unpublished")
    /\ UNCHANGED <<socketVars, services, sending, settled>>

\* The next broadcast begins, at the i-th entry or behind, with whom the last one
\* left connected; a broadcast to nobody is over at once, and so is the request
\* after the last one.
Begin(p, from, i, over) ==
    \/ /\ Step(p, from, "send")
       /\ \E k \in Remaining(p, i), w \in connections' :
            /\ \A other \in Remaining(p, i) : k <= other
            /\ sending' = [sending EXCEPT ![p] = Broadcast(k, w, {w}, {}, connections')]
       /\ settled' = settled \cup over
    \/ /\ Remaining(p, i) = {} \/ connections' = {}
       /\ Step(p, from, "done")
       /\ sending' = [sending EXCEPT ![p] = NoBroadcast]
       /\ settled' = settled \cup over \cup {Messages(p)[k] : k \in Remaining(p, i)}

\* The event backend has the event; the broadcast begins.
Published(p) ==
    /\ UNCHANGED <<socketVars, services>>
    /\ Begin(p, "publish", 1, {})

\* Alertmanager sends a group of alerts, again if the last answer was an error.
ReceiveAlerts(g) ==
    /\ UNCHANGED <<socketVars, services>>
    /\ \E from \in {"idle", "raised"} : Begin(g, from, 1, {})

\* An exception leaves broadcast, and the request that called it.
Escapes(p) ==
    /\ Step(p, "send", "raised")
    /\ sending' = [sending EXCEPT ![p] = NoBroadcast]
    /\ UNCHANGED <<connections, settled>>

\* Mutant of Unvisited: the first socket that fails ends the loop.
Unvisited_UntilFailure(p, failed) ==
    IF failed = {} THEN connections \ sending[p].visited ELSE {}

\* The sockets the iterator has not come to.
Unvisited(p, failed) == connections \ sending[p].visited

\* Mutant of Dropped: everyone that was sent to is dropped.
Dropped_Visited(p, failed) == sending[p].visited

\* The sockets broadcast removes once it was through with all.
Dropped(p, failed) == failed

\* The send has ended and the set iterator goes on, or ends.
Iterate(p, failed) ==
    LET members == sending[p].audience
        calm == connections = members
        sameSize == Cardinality(connections) = Cardinality(members) IN
    \/ /\ sameSize                                    \* the next socket
       /\ Step(p, "send", "send")
       /\ \E w \in Unvisited(p, failed) : sending' = [sending EXCEPT ![p] =
            Broadcast(@.at, w, @.visited \cup {w}, failed, members)]
       /\ UNCHANGED <<connections, settled>>
    \/ /\ sameSize                                    \* no more sockets
       /\ calm => Unvisited(p, failed) = {}
       /\ connections' = connections \ Dropped(p, failed)
       /\ Begin(p, "send", sending[p].at + 1,
                IF calm THEN {Messages(p)[sending[p].at]} ELSE {})
    \/ ~sameSize /\ Escapes(p)                         \* RuntimeError

\* The message reaches the socket, or is lost without an error.
Sent(p) ==
    /\ ppc[p] = "send"
    /\ Tell(sending[p].current, {Messages(p)[sending[p].at]})
    /\ Iterate(p, sending[p].disconnected)
    /\ UNCHANGED <<wpc, open, listed, raised, services>>

\* Mutant of Caught: broadcast catches nothing.
Caught_Nothing(error) == FALSE

\* What broadcast catches.
Caught(error) == error = "RuntimeError"

\* The client is gone and the send raises: the socket is noted and the loop goes
\* on, or broadcast ends.
SendFails(p) ==
    /\ ppc[p] = "send"
    /\ \E error \in SendErrors :
        /\ SendRaises(sending[p].current, error)
        /\ IF Caught(error)
           THEN Iterate(p, sending[p].disconnected \cup {sending[p].current})
           ELSE Escapes(p)
    /\ UNCHANGED <<wpc, open, listed, known, services>>

Next ==
    \/ \E w \in Sockets :
        \/ Connect(w) \/ ListAnswered(w) \/ ListFails(w)
        \/ SnapshotSent(w) \/ SnapshotFails(w)
        \/ Close(w) \/ ReceiveEnds(w) \/ ReceiveFails(w)
    \/ \E p \in Services : Register(p) \/ PublishFails(p) \/ Published(p)
    \/ \E g \in Groups : ReceiveAlerts(g)
    \/ \E p \in Broadcasters : Sent(p) \/ SendFails(p)

Spec == Init /\ [][Next]_vars

\* The event backend answers, a send ends, and Alertmanager sends a group again
\* until it is accepted.  Nothing is assumed of the clients, of whom there are
\* finitely many: the set a broadcast iterates over is left alone in the end.
Fairness ==
    /\ \A p \in Services : WF_vars(PublishFails(p) \/ Published(p))
    /\ \A g \in Groups : WF_vars(ReceiveAlerts(g))
    /\ \A p \in Broadcasters : WF_vars(Sent(p) \/ SendFails(p))

FairSpec == Spec /\ Fairness

-----------------------------------------------------------------------------
(***************************************************************************)
(* Properties.                                                             *)
(***************************************************************************)

\* There is no gap between the snapshot and the events: a client that has its
\* snapshot knows every service whose broadcast ran undisturbed, from the one
\* or from the other.  It holds because a socket is registered before the
\* services are listed, and a service is stored before it is announced
\* (main.py:446-454, 560-574).
NoGap ==
    \A w \in open : wpc[w] = "receive" => settled \cap Services \subseteq known[w]

\* No broadcast, its own or another's, drops a client that is still there
\* (websocket.py:20-27).
LiveAreRegistered ==
    \A w \in open : wpc[w] \in Handling => w \in connections

\* A broadcast nobody disturbed has reached everyone who is still there when it
\* is over, whatever sends to others failed on the way (websocket.py:21-25).
UndisturbedReachesAll ==
    [][\A p \in Broadcasters : ppc[p] = "send" =>
        \A m \in (settled' \ settled) \cap {Messages(p)[sending[p].at]} :
            \A w \in sending[p].audience \cap open : m \in known'[w]]_vars

\* A client that is gone does not keep the webhook from accepting a group of
\* alerts for good: broadcasts that raise find fewer and fewer clients that are
\* gone, and Alertmanager sends the group again (main.py:493-528).
EveryGroupAccepted ==
    \A g \in Groups : <>(ppc[g] = "done")

\* "Send a JSON payload to every active WebSocket." (websocket.py:19): once a
\* broadcast is over, every client that was there all the time has the event.
DeliveredToEveryActive ==
    [][\A p \in Services : ppc[p] = "send" /\ ppc'[p] \in {"done", "raised"} =>
        \A w \in sending[p].audience \cap open : p \in known'[w]]_vars
=============================================================================

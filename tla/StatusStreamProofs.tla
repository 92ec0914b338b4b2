------------------------- MODULE StatusStreamProofs -------------------------
(***************************************************************************)
(* Proofs about StatusStream for any sockets, services, groups of alerts   *)
(* and errors of sends.                                                    *)
(***************************************************************************)
EXTENDS StatusStream, TLAPS

\* The message p has under way.
Message(p) == Messages(p)[sending[p].at]

\* Handlers: a client that is there has one, and a socket that is known to the
\* manager or to a broadcast had one; those a broadcast found gone are gone.
SocketsStarted ==
    /\ \A w \in open : wpc[w] \in Handling
    /\ \A w \in connections : wpc[w] # "idle"
    /\ \A p \in Broadcasters :
        /\ \A w \in sending[p].visited : wpc[w] # "idle"
        /\ \A w \in sending[p].disconnected : wpc[w] # "idle" /\ w \notin open

\* A broadcast under way has a message, and told it to all it came to but the
\* socket it is at; and what is announced is stored.
BroadcastsTell ==
    \A p \in Broadcasters :
        /\ ppc[p] = "send" =>
            /\ sending[p].at \in Remaining(p, 1)
            /\ sending[p].current \in sending[p].visited
            /\ \A w \in open :
                w \in sending[p].visited /\ w # sending[p].current => Message(p) \in known[w]
        /\ p \in Services /\ ppc[p] \in {"publish", "send"} => p \in services

\* NoGap, and the same of a client whose snapshot is about to be sent.
GapFree ==
    \A w \in open :
        /\ wpc[w] = "snapshot" => settled \cap Services \subseteq listed[w] \cup known[w]
        /\ wpc[w] = "receive" => settled \cap Services \subseteq known[w]

IInv == TypeOK /\ SocketsStarted /\ LiveAreRegistered /\ BroadcastsTell /\ GapFree

Broadcasting ==
    [at : Nat, current : Sockets \cup {Nobody}, visited : SUBSET Sockets,
     disconnected : SUBSET Sockets, audience : SUBSET Sockets]

-----------------------------------------------------------------------------
(***************************************************************************)
(* What is broadcast.                                                      *)
(***************************************************************************)

\* A service announces itself, a group of alerts its alerts.
LEMMA MessagesTyped ==
    ASSUME NEW p \in Broadcasters
    PROVE  /\ Messages(p) \in Seq(Services \cup Alerts \cup {NotADict})
           /\ Len(Messages(p)) \in Nat
           /\ \A i \in Nat : \A k \in Remaining(p, i) :
                /\ k \in Nat /\ k <= Len(Messages(p))
                /\ i >= 1 => /\ k \in Remaining(p, 1)
                             /\ Messages(p)[k] \in Alerts \cup ({p} \cap Services)
<1>1. CASE p \in Services
  BY <1>1, StreamAssumption DEF Messages, Remaining
<1>2. CASE p \notin Services
  <2>1. Messages(p) = Payload[p] /\ p \in Groups
    BY <1>2 DEF Messages, Broadcasters
  <2>2. Payload[p] \in Seq(Alerts \cup {NotADict})
    BY <2>1, StreamAssumption
  <2> HIDE DEF Messages
  <2>3. Messages(p) \in Seq(Alerts \cup {NotADict})
    BY <2>1, <2>2
  <2>4. Len(Messages(p)) \in Nat
    BY <2>3
  <2>5. ASSUME NEW i \in Nat, NEW k \in Remaining(p, i)
        PROVE  /\ k \in Nat /\ k <= Len(Messages(p))
               /\ i >= 1 => /\ k \in Remaining(p, 1)
                            /\ Messages(p)[k] \in Alerts \cup ({p} \cap Services)
    BY <2>3, <2>4 DEF Remaining
  <2>6. Messages(p) \in Seq(Services \cup Alerts \cup {NotADict})
    BY <2>3
  <2> QED BY <2>4, <2>5, <2>6
<1> QED BY <1>1, <1>2

\* The message under way is the service, which is stored, or an alert.
LEMMA MessageTyped ==
    ASSUME IInv, NEW p \in Broadcasters, ppc[p] = "send"
    PROVE  Message(p) \in services \cup Alerts
<1>1. sending[p].at \in Remaining(p, 1)
  BY DEF IInv, BroadcastsTell
<1>2. Message(p) \in Alerts \cup ({p} \cap Services)
  BY <1>1, MessagesTyped DEF Message
<1>3. p \in Services => p \in services
  BY DEF IInv, BroadcastsTell
<1> QED BY <1>2, <1>3

LEMMA InitIInv ==
    ASSUME Init
    PROVE  IInv
<1>1. TypeOK
  <2>1. NoBroadcast \in Broadcasting /\ NoBroadcast.at = 0 /\ NoBroadcast.current \notin Sockets
    BY StreamAssumption DEF NoBroadcast, Broadcast, Broadcasting
  <2>2. \A p \in Broadcasters : 0 <= Len(Messages(p))
    BY MessagesTyped
  <2> QED BY <2>1, <2>2 DEF Init, TypeOK, Broadcasting
<1>2. SocketsStarted
  BY DEF Init, SocketsStarted, NoBroadcast, Broadcast
<1> QED BY <1>1, <1>2 DEF Init, IInv, LiveAreRegistered, BroadcastsTell, GapFree

-----------------------------------------------------------------------------
(***************************************************************************)
(* Sockets.  What their handlers do leaves the broadcasts alone, and takes *)
(* nobody who is there from the connections.                               *)
(***************************************************************************)

LEMMA SocketStepIInv ==
    ASSUME IInv, NEW w \in Sockets, UNCHANGED broadcastVars,
           wpc' \in [Sockets -> Handling \cup {"idle", "gone"}],
           listed' \in [Sockets -> SUBSET Services],
           known' \in [Sockets -> SUBSET (Services \cup Alerts)],
           connections' \subseteq Sockets, open' \subseteq Sockets, raised' \subseteq Sockets,
           \A v \in Sockets : v # w =>
                /\ wpc'[v] = wpc[v] /\ listed'[v] = listed[v] /\ known'[v] = known[v]
                /\ v \in open' <=> v \in open
                /\ v \in connections' <=> v \in connections,
           wpc'[w] # "idle",
           w \in open' /\ w \notin open => wpc[w] = "idle",
           w \in open' => /\ wpc'[w] \in Handling /\ w \in connections'
                          /\ known[w] \subseteq known'[w]
                          /\ wpc'[w] = "snapshot" =>
                                settled \cap Services \subseteq listed'[w] \cup known'[w]
                          /\ wpc'[w] = "receive" => settled \cap Services \subseteq known'[w]
    PROVE  IInv'
<1> USE DEF IInv, broadcastVars
<1>1. TypeOK'
  BY DEF TypeOK
<1>2. SocketsStarted'
  <2>1. \A v \in Sockets : wpc[v] # "idle" => wpc'[v] # "idle"
    OBVIOUS
  <2>2. ASSUME NEW p \in Broadcasters
        PROVE  /\ \A v \in sending[p].visited : wpc'[v] # "idle"
               /\ \A v \in sending[p].disconnected : wpc'[v] # "idle" /\ v \notin open'
    BY <2>1 DEF SocketsStarted, TypeOK
  <2>3. \A v \in open' : wpc'[v] \in Handling
    BY DEF SocketsStarted
  <2>4. \A v \in connections' : wpc'[v] # "idle"
    BY DEF SocketsStarted
  <2> QED BY <2>2, <2>3, <2>4 DEF SocketsStarted
<1>3. LiveAreRegistered'
  BY DEF LiveAreRegistered
<1>4. BroadcastsTell'
  <2> SUFFICES ASSUME NEW p \in Broadcasters, ppc[p] = "send", NEW v \in open',
                      v \in sending[p].visited, v # sending[p].current
               PROVE  Message(p) \in known'[v]
    BY DEF BroadcastsTell, Message
  <2>1. v \in open
    BY DEF SocketsStarted
  <2>2. Message(p) \in known[v]
    BY <2>1 DEF BroadcastsTell
  <2> QED BY <2>2
<1>5. GapFree'
  BY DEF GapFree
<1> QED BY <1>1, <1>2, <1>3, <1>4, <1>5

LEMMA ConnectIInv ==
    ASSUME IInv, NEW w \in Sockets, Connect(w)
    PROVE  IInv'
<1> USE DEF Connect, Resume
<1>1. connections' = connections \cup {w}
  BY DEF Join, JoinsAt
<1>2. wpc[w] = "idle" /\ w \notin open
  BY DEF IInv, SocketsStarted, Handling
<1>3. wpc' = [wpc EXCEPT ![w] = "list"] /\ open' = open \cup {w}
  OBVIOUS
<1>4. UNCHANGED <<listed, known, raised>> /\ UNCHANGED broadcastVars
  OBVIOUS
<1> QED BY <1>1, <1>2, <1>3, <1>4, SocketStepIInv DEF IInv, TypeOK, Handling

LEMMA ListAnsweredIInv ==
    ASSUME IInv, NEW w \in Sockets, ListAnswered(w)
    PROVE  IInv'
<1> USE DEF ListAnswered, Resume
<1>1. wpc[w] = "list" /\ wpc' = [wpc EXCEPT ![w] = "snapshot"]
  OBVIOUS
<1>2. listed' = [listed EXCEPT ![w] = services] /\ services \subseteq Services
  BY DEF IInv, TypeOK
<1>3. UNCHANGED <<connections, open, known, raised>> /\ UNCHANGED broadcastVars
  OBVIOUS
<1>4. settled \cap Services \subseteq services
  BY StreamAssumption DEF IInv, TypeOK
<1>5. w \in open => w \in connections
  BY <1>1 DEF IInv, LiveAreRegistered, Handling
<1> HIDE DEF ListAnswered, Resume
<1>6. /\ wpc' \in [Sockets -> Handling \cup {"idle", "gone"}]
      /\ listed' \in [Sockets -> SUBSET Services]
      /\ known' \in [Sockets -> SUBSET (Services \cup Alerts)]
      /\ connections' \subseteq Sockets /\ open' \subseteq Sockets /\ raised' \subseteq Sockets
  BY <1>1, <1>2, <1>3 DEF IInv, TypeOK, Handling
<1>7. \A v \in Sockets : v # w =>
        /\ wpc'[v] = wpc[v] /\ listed'[v] = listed[v] /\ known'[v] = known[v]
        /\ v \in open' <=> v \in open
        /\ v \in connections' <=> v \in connections
  BY <1>1, <1>2, <1>3 DEF IInv, TypeOK
<1>8. /\ wpc'[w] = "snapshot" /\ listed'[w] = services
      /\ open' = open /\ known' = known
      /\ connections' = connections
  BY <1>1, <1>2, <1>3 DEF IInv, TypeOK
<1> QED BY <1>3, <1>4, <1>5, <1>6, <1>7, <1>8, SocketStepIInv DEF Handling

LEMMA HandlerFailsIInv ==
    ASSUME IInv, NEW w \in Sockets, ListFails(w) \/ ReceiveFails(w)
    PROVE  IInv'
<1> USE DEF ListFails, ReceiveFails, Resume, Leave
<1>1. wpc' = [wpc EXCEPT ![w] = "gone"] /\ open' = open \ {w}
  OBVIOUS
<1>2. known' = [known EXCEPT ![w] = {}]
  OBVIOUS
<1>3. UNCHANGED <<connections, listed, raised>> /\ UNCHANGED broadcastVars
  OBVIOUS
<1>4. /\ wpc' \in [Sockets -> Handling \cup {"idle", "gone"}]
      /\ listed' \in [Sockets -> SUBSET Services]
      /\ known' \in [Sockets -> SUBSET (Services \cup Alerts)]
      /\ connections' \subseteq Sockets /\ open' \subseteq Sockets /\ raised' \subseteq Sockets
  BY <1>1, <1>2, <1>3 DEF IInv, TypeOK, Handling
<1>5. \A v \in Sockets : v # w =>
        /\ wpc'[v] = wpc[v] /\ listed'[v] = listed[v] /\ known'[v] = known[v]
        /\ v \in open' <=> v \in open
        /\ v \in connections' <=> v \in connections
  BY <1>1, <1>2, <1>3 DEF IInv, TypeOK
<1>6. wpc'[w] # "idle"
  BY <1>1, <1>2, <1>3 DEF IInv, TypeOK
<1> QED BY <1>1, <1>2, <1>3, <1>4, <1>5, <1>6, SocketStepIInv DEF Handling

LEMMA SnapshotSentIInv ==
    ASSUME IInv, NEW w \in Sockets, SnapshotSent(w)
    PROVE  IInv'
<1> USE DEF SnapshotSent, Resume
<1>1. wpc[w] = "snapshot" /\ wpc' = [wpc EXCEPT ![w] = "receive"]
  OBVIOUS
<1>2. connections' = connections
  BY DEF Join, JoinsAt
<1>3. listed' = [listed EXCEPT ![w] = {}] /\ UNCHANGED <<open, raised>> /\ UNCHANGED broadcastVars
  OBVIOUS
<1>4. /\ known' \in [Sockets -> SUBSET (Services \cup Alerts)]
      /\ \A v \in Sockets : v # w => known'[v] = known[v]
      /\ w \in open => known'[w] = known[w] \cup listed[w]
  BY DEF Tell, IInv, TypeOK
<1>5. w \in open => /\ w \in connections
                    /\ settled \cap Services \subseteq listed[w] \cup known[w]
  BY <1>1 DEF IInv, LiveAreRegistered, Handling, GapFree
<1> HIDE DEF SnapshotSent, Resume
<1>6. /\ wpc' \in [Sockets -> Handling \cup {"idle", "gone"}]
      /\ listed' \in [Sockets -> SUBSET Services]
      /\ known' \in [Sockets -> SUBSET (Services \cup Alerts)]
      /\ connections' \subseteq Sockets /\ open' \subseteq Sockets /\ raised' \subseteq Sockets
  BY <1>1, <1>2, <1>3, <1>4, <1>5 DEF IInv, TypeOK, Handling
<1>7. \A v \in Sockets : v # w =>
        /\ wpc'[v] = wpc[v] /\ listed'[v] = listed[v] /\ known'[v] = known[v]
        /\ v \in open' <=> v \in open
        /\ v \in connections' <=> v \in connections
  BY <1>1, <1>2, <1>3, <1>4, <1>5 DEF IInv, TypeOK
<1>8. wpc'[w] # "idle"
  BY <1>1, <1>2, <1>3, <1>4, <1>5 DEF IInv, TypeOK
<1> QED BY <1>1, <1>2, <1>3, <1>4, <1>5, <1>6, <1>7, <1>8, SocketStepIInv DEF Handling

LEMMA SnapshotFailsIInv ==
    ASSUME IInv, NEW w \in Sockets, SnapshotFails(w)
    PROVE  IInv'
<1> USE DEF SnapshotFails, Resume
<1>1. w \notin open /\ raised' \subseteq Sockets
  BY DEF SendRaises, IInv, TypeOK
<1>2. connections \ {w} \subseteq connections' /\ connections' \subseteq connections
  OBVIOUS
<1>3. /\ wpc' = [wpc EXCEPT ![w] = "gone"] /\ listed' = [listed EXCEPT ![w] = {}]
      /\ UNCHANGED <<open, known>> /\ UNCHANGED broadcastVars
  OBVIOUS
<1>4. /\ wpc' \in [Sockets -> Handling \cup {"idle", "gone"}]
      /\ listed' \in [Sockets -> SUBSET Services]
      /\ known' \in [Sockets -> SUBSET (Services \cup Alerts)]
      /\ connections' \subseteq Sockets /\ open' \subseteq Sockets /\ raised' \subseteq Sockets
  BY <1>1, <1>2, <1>3 DEF IInv, TypeOK, Handling
<1>5. \A v \in Sockets : v # w =>
        /\ wpc'[v] = wpc[v] /\ listed'[v] = listed[v] /\ known'[v] = known[v]
        /\ v \in open' <=> v \in open
        /\ v \in connections' <=> v \in connections
  BY <1>1, <1>2, <1>3 DEF IInv, TypeOK
<1>6. wpc'[w] # "idle"
  BY <1>1, <1>2, <1>3 DEF IInv, TypeOK
<1> QED BY <1>1, <1>2, <1>3, <1>4, <1>5, <1>6, SocketStepIInv DEF Handling

LEMMA CloseIInv ==
    ASSUME IInv, NEW w \in Sockets, Close(w)
    PROVE  IInv'
<1> USE DEF Close, Leave
<1>1. open' = open \ {w} /\ known' = [known EXCEPT ![w] = {}]
  OBVIOUS
<1>2. wpc[w] # "idle"
  BY DEF IInv, SocketsStarted, Handling
<1>3. UNCHANGED <<connections, wpc, listed, raised>> /\ UNCHANGED broadcastVars
  OBVIOUS
<1>4. /\ wpc' \in [Sockets -> Handling \cup {"idle", "gone"}]
      /\ listed' \in [Sockets -> SUBSET Services]
      /\ known' \in [Sockets -> SUBSET (Services \cup Alerts)]
      /\ connections' \subseteq Sockets /\ open' \subseteq Sockets /\ raised' \subseteq Sockets
  BY <1>1, <1>2, <1>3 DEF IInv, TypeOK, Handling
<1>5. \A v \in Sockets : v # w =>
        /\ wpc'[v] = wpc[v] /\ listed'[v] = listed[v] /\ known'[v] = known[v]
        /\ v \in open' <=> v \in open
        /\ v \in connections' <=> v \in connections
  BY <1>1, <1>2, <1>3 DEF IInv, TypeOK
<1>6. wpc'[w] # "idle"
  BY <1>1, <1>2, <1>3 DEF IInv, TypeOK
<1> QED BY <1>1, <1>2, <1>3, <1>4, <1>5, <1>6, SocketStepIInv DEF Handling

LEMMA ReceiveEndsIInv ==
    ASSUME IInv, NEW w \in Sockets, ReceiveEnds(w)
    PROVE  IInv'
<1> USE DEF ReceiveEnds, Resume
<1>1. w \notin open /\ connections' = connections \ {w} /\ wpc' = [wpc EXCEPT ![w] = "gone"]
  OBVIOUS
<1>2. UNCHANGED <<open, listed, known, raised>> /\ UNCHANGED broadcastVars
  OBVIOUS
<1>3. /\ wpc' \in [Sockets -> Handling \cup {"idle", "gone"}]
      /\ listed' \in [Sockets -> SUBSET Services]
      /\ known' \in [Sockets -> SUBSET (Services \cup Alerts)]
      /\ connections' \subseteq Sockets /\ open' \subseteq Sockets /\ raised' \subseteq Sockets
  BY <1>1, <1>2 DEF IInv, TypeOK, Handling
<1>4. \A v \in Sockets : v # w =>
        /\ wpc'[v] = wpc[v] /\ listed'[v] = listed[v] /\ known'[v] = known[v]
        /\ v \in open' <=> v \in open
        /\ v \in connections' <=> v \in connections
  BY <1>1, <1>2 DEF IInv, TypeOK
<1>5. wpc'[w] # "idle"
  BY <1>1, <1>2 DEF IInv, TypeOK
<1> QED BY <1>1, <1>2, <1>3, <1>4, <1>5, SocketStepIInv DEF Handling

-----------------------------------------------------------------------------
(***************************************************************************)
(* Broadcasts.  They drop nobody who is there, and what becomes settled in *)
(* a step is then known to everyone who is there.                          *)
(***************************************************************************)

Told == \A m \in settled' \ settled : \A w \in open : m \in known'[w]

\* What every step of a broadcast does to the sockets.
Mild ==
    /\ UNCHANGED <<wpc, open, listed>>
    /\ raised' \subseteq Sockets
    /\ connections' \subseteq connections /\ open \subseteq connections'
    /\ known' \in [Sockets -> SUBSET (Services \cup Alerts)]
    /\ \A w \in Sockets : known[w] \subseteq known'[w]

\* What IInv says of a single broadcaster.
Sound(p) ==
    /\ sending[p].at <= Len(Messages(p))
    /\ ppc[p] = "send" <=> sending[p].current \in Sockets
    /\ \A w \in sending[p].visited : wpc[w] # "idle"
    /\ \A w \in sending[p].disconnected : wpc[w] # "idle" /\ w \notin open
    /\ ppc[p] = "send" =>
        /\ sending[p].at \in Remaining(p, 1)
        /\ sending[p].current \in sending[p].visited
        /\ \A w \in open :
            w \in sending[p].visited /\ w # sending[p].current => Message(p) \in known[w]
    /\ p \in Services /\ ppc[p] \in {"publish", "send"} => p \in services

LEMMA OpenConnected ==
    ASSUME IInv
    PROVE  open \subseteq connections
BY DEF IInv, SocketsStarted, LiveAreRegistered

LEMMA BroadcastStepIInv ==
    ASSUME IInv, Mild, Told, NEW p \in Broadcasters,
           services \subseteq services', services' \subseteq Services,
           settled \subseteq settled', settled' \subseteq services' \cup Alerts,
           ppc' \in [Broadcasters -> {"idle", "publish", "send", "done", "raised", "unpublished"}],
           sending' \in [Broadcasters -> Broadcasting],
           \A b \in Broadcasters : b # p => ppc'[b] = ppc[b] /\ sending'[b] = sending[b],
           Sound(p)'
    PROVE  IInv'
<1> USE DEF IInv, Mild
<1>1. \A b \in Broadcasters : Sound(b)'
  <2> SUFFICES ASSUME NEW b \in Broadcasters, b # p
               PROVE  Sound(b)'
    OBVIOUS
  <2>1. Sound(b)
    BY DEF Sound, TypeOK, SocketsStarted, BroadcastsTell
  <2>2. Message(b)' = Message(b)
    BY DEF Message
  <2>3. \A w \in open : known[w] \subseteq known'[w]
    BY DEF TypeOK
  <2> QED BY <2>1, <2>2, <2>3 DEF Sound
<1>2. TypeOK'
  BY <1>1 DEF TypeOK, Sound, Broadcasting
<1>3. SocketsStarted'
  BY <1>1 DEF SocketsStarted, Sound
<1>4. LiveAreRegistered'
  BY DEF LiveAreRegistered
<1>5. BroadcastsTell'
  BY <1>1 DEF BroadcastsTell, Sound
<1>6. GapFree'
  <2> SUFFICES ASSUME NEW w \in open, NEW m \in settled' \cap Services
               PROVE  /\ wpc[w] = "snapshot" => m \in listed[w] \cup known'[w]
                      /\ wpc[w] = "receive" => m \in known'[w]
    BY DEF GapFree
  <2>1. CASE m \in settled
    BY <2>1 DEF GapFree, TypeOK
  <2>2. CASE m \notin settled
    BY <2>2 DEF Told
  <2> QED BY <2>1, <2>2
<1> QED BY <1>2, <1>3, <1>4, <1>5, <1>6

\* The broadcaster p has nothing under way any more.
LEMMA QuietIInv ==
    ASSUME IInv, Mild, Told, NEW p \in Broadcasters, NEW to \in {"publish", "done", "raised", "unpublished"},
           to = "publish" => p \in services',
           services \subseteq services', services' \subseteq Services,
           settled \subseteq settled', settled' \subseteq services' \cup Alerts,
           ppc' = [ppc EXCEPT ![p] = to],
           sending' = [sending EXCEPT ![p] = NoBroadcast]
    PROVE  IInv'
<1>1. NoBroadcast \in Broadcasting /\ NoBroadcast.at = 0 /\ NoBroadcast.current \notin Sockets
  BY StreamAssumption DEF NoBroadcast, Broadcast, Broadcasting
<1>2. NoBroadcast.visited = {} /\ NoBroadcast.disconnected = {}
  BY DEF NoBroadcast, Broadcast
<1>3. /\ ppc' \in [Broadcasters -> {"idle", "publish", "send", "done", "raised", "unpublished"}]
      /\ sending' \in [Broadcasters -> Broadcasting]
      /\ \A b \in Broadcasters : b # p => ppc'[b] = ppc[b] /\ sending'[b] = sending[b]
      /\ ppc'[p] = to /\ sending'[p] = NoBroadcast
  BY <1>1 DEF IInv, TypeOK, Broadcasting
<1>4. Len(Messages(p)) \in Nat
  BY MessagesTyped
<1>5. Sound(p)'
  BY <1>1, <1>2, <1>3, <1>4 DEF Sound
<1> QED BY <1>3, <1>5, BroadcastStepIInv

LEMMA BeginIInv ==
    ASSUME IInv, Mild, NEW p \in Broadcasters, NEW from, NEW i \in Nat, i >= 1, NEW over,
           Begin(p, from, i, over),
           services' = services, p \in Services => p \in services,
           over \subseteq services \cup Alerts, \A m \in over : \A w \in open : m \in known'[w]
    PROVE  IInv' /\ Told
<1>1. CASE /\ Step(p, from, "send")
           /\ \E k \in Remaining(p, i), w \in connections' :
                sending' = [sending EXCEPT ![p] = Broadcast(k, w, {w}, {}, connections')]
           /\ settled' = settled \cup over
  <2>1. PICK k \in Remaining(p, i), w \in connections' :
          sending' = [sending EXCEPT ![p] = Broadcast(k, w, {w}, {}, connections')]
    BY <1>1
  <2>2. k \in Nat /\ k <= Len(Messages(p)) /\ k \in Remaining(p, 1)
    BY MessagesTyped
  <2>3. w \in Sockets /\ wpc[w] # "idle" /\ connections' \subseteq Sockets
    BY DEF IInv, TypeOK, SocketsStarted, Mild
  <2>4. Broadcast(k, w, {w}, {}, connections') \in Broadcasting
    BY <2>2, <2>3 DEF Broadcast, Broadcasting
  <2>5. /\ ppc' \in [Broadcasters -> {"idle", "publish", "send", "done", "raised", "unpublished"}]
        /\ \A b \in Broadcasters : b # p => ppc'[b] = ppc[b]
        /\ ppc'[p] = "send"
    BY <1>1 DEF IInv, TypeOK, Step
  <2>6. /\ sending' \in [Broadcasters -> Broadcasting]
        /\ \A b \in Broadcasters : b # p => sending'[b] = sending[b]
        /\ sending'[p] = Broadcast(k, w, {w}, {}, connections')
    BY <2>1, <2>4 DEF IInv, TypeOK, Broadcasting
  <2>7. /\ sending'[p].at = k /\ sending'[p].current = w
        /\ sending'[p].visited = {w} /\ sending'[p].disconnected = {}
    BY <2>6 DEF Broadcast
  <2>8. Sound(p)'
    BY <2>2, <2>3, <2>5, <2>7 DEF Sound, Remaining, Messages, Mild
  <2>9. Told /\ settled \subseteq settled' /\ settled' \subseteq services' \cup Alerts
    BY <1>1 DEF Told, IInv, TypeOK
  <2>10. services' \subseteq Services
    BY DEF IInv, TypeOK
  <2> QED BY <2>5, <2>6, <2>8, <2>9, <2>10, BroadcastStepIInv
<1>2. CASE /\ Remaining(p, i) = {} \/ connections' = {}
           /\ Step(p, from, "done")
           /\ sending' = [sending EXCEPT ![p] = NoBroadcast]
           /\ settled' = settled \cup over \cup {Messages(p)[k] : k \in Remaining(p, i)}
  <2>1. Remaining(p, i) = {} \/ open = {}
    BY <1>2 DEF Mild
  <2>2. Told
    BY <1>2, <2>1 DEF Told
  <2>3. \A k \in Remaining(p, i) : Messages(p)[k] \in services \cup Alerts
    BY MessagesTyped
  <2>4. settled \subseteq settled' /\ settled' \subseteq services' \cup Alerts
    BY <1>2, <2>3 DEF IInv, TypeOK
  <2>5. ppc' = [ppc EXCEPT ![p] = "done"]
    BY <1>2 DEF Step
  <2>6. services' \subseteq Services
    BY DEF IInv, TypeOK
  <2>7. IInv'
    BY <1>2, <2>2, <2>4, <2>5, <2>6, QuietIInv
  <2> QED BY <2>2, <2>7
<1> QED BY <1>1, <1>2 DEF Begin

LEMMA EscapesIInv ==
    ASSUME IInv, Mild, NEW p \in Broadcasters, Escapes(p), services' = services
    PROVE  IInv' /\ Told
<1>1. Told
  BY DEF Escapes, Told
<1>2. settled' \subseteq services' \cup Alerts /\ services' \subseteq Services
  BY DEF Escapes, IInv, TypeOK
<1>3. ppc' = [ppc EXCEPT ![p] = "raised"]
  BY DEF Escapes, Step
<1>4. sending' = [sending EXCEPT ![p] = NoBroadcast] /\ settled' = settled
  BY DEF Escapes
<1>5. IInv'
  BY <1>1, <1>2, <1>3, <1>4, QuietIInv
<1> QED BY <1>1, <1>5

\* The iterator goes on to w.
LEMMA NextSocketIInv ==
    ASSUME IInv, Mild, NEW p \in Broadcasters, ppc[p] = "send", NEW failed,
           \A v \in failed : v \in Sockets /\ wpc[v] # "idle" /\ v \notin open,
           NEW w \in connections,
           Step(p, "send", "send"),
           sending' = [sending EXCEPT ![p] =
                Broadcast(@.at, w, @.visited \cup {w}, failed, @.audience)],
           UNCHANGED <<services, settled>>,
           sending[p].current \in open => Message(p) \in known'[sending[p].current]
    PROVE  IInv' /\ Told
<1> DEFINE b == sending[p]
<1>1. /\ b \in Broadcasting /\ w \in Sockets /\ wpc[w] # "idle" /\ p \in DOMAIN sending
      /\ failed \subseteq Sockets
  BY DEF IInv, TypeOK, SocketsStarted, Broadcasting
<1>2. Broadcast(b.at, w, b.visited \cup {w}, failed, b.audience) \in Broadcasting
  BY <1>1 DEF Broadcast, Broadcasting
<1>3. /\ sending' \in [Broadcasters -> Broadcasting]
      /\ \A q \in Broadcasters : q # p => sending'[q] = sending[q]
      /\ sending'[p] = Broadcast(b.at, w, b.visited \cup {w}, failed, b.audience)
  BY <1>2 DEF IInv, TypeOK, Broadcasting
<1>4. /\ sending'[p].at = b.at /\ sending'[p].current = w
      /\ sending'[p].visited = b.visited \cup {w} /\ sending'[p].disconnected = failed
  BY <1>3 DEF Broadcast
<1>5. ppc' = ppc
  BY DEF Step, IInv, TypeOK
<1>6. Sound(p)
  BY DEF Sound, IInv, TypeOK, SocketsStarted, BroadcastsTell
<1>7. Message(p)' = Message(p)
  BY <1>4 DEF Message
<1>8. ASSUME NEW v \in open, v \in b.visited \cup {w}, v # w
      PROVE  Message(p) \in known'[v]
  <2>1. CASE v = b.current
    BY <1>8, <2>1
  <2>2. CASE v # b.current
    BY <2>2, <1>6, <1>8 DEF Sound, Mild, IInv, TypeOK
  <2> QED BY <2>1, <2>2
<1>9. Sound(p)'
  <2>1. /\ sending'[p].at <= Len(Messages(p))
        /\ ppc'[p] = "send" /\ sending'[p].current \in Sockets
        /\ sending'[p].at \in Remaining(p, 1)
        /\ sending'[p].current \in sending'[p].visited
    BY <1>1, <1>4, <1>5, <1>6 DEF Sound
  <2>2. /\ \A v \in sending'[p].visited : wpc'[v] # "idle"
        /\ \A v \in sending'[p].disconnected : wpc'[v] # "idle" /\ v \notin open'
    BY <1>1, <1>4, <1>6 DEF Sound, Mild
  <2>3. \A v \in open' : v \in sending'[p].visited /\ v # sending'[p].current
            => Message(p)' \in known'[v]
    BY <1>4, <1>7, <1>8 DEF Mild
  <2>4. p \in Services => p \in services'
    BY <1>6 DEF Sound
  <2> HIDE DEF b
  <2> QED BY <2>1, <2>2, <2>3, <2>4 DEF Sound
<1>10. Told /\ settled' \subseteq services' \cup Alerts /\ services' \subseteq Services
  BY DEF Told, IInv, TypeOK
<1>11. IInv'
  BY <1>3, <1>5, <1>9, <1>10, BroadcastStepIInv DEF IInv, TypeOK
<1> QED BY <1>10, <1>11

\* The iterator has come to everyone in the connections: if those are whom the
\* broadcast began with, everyone who is there has been told.
LEMMA IterateIInv ==
    ASSUME IInv, Mild, NEW p \in Broadcasters, ppc[p] = "send", NEW failed,
           \A v \in failed : v \in Sockets /\ wpc[v] # "idle" /\ v \notin open,
           Iterate(p, failed),
           services' = services,
           sending[p].current \in open => Message(p) \in known'[sending[p].current]
    PROVE  IInv' /\ Told
<1> DEFINE members == sending[p].audience
           calm == connections = members
           over == IF calm THEN {Messages(p)[sending[p].at]} ELSE {}
<1>1. CASE /\ Step(p, "send", "send")
           /\ \E w \in Unvisited(p, failed) : sending' = [sending EXCEPT ![p] =
                Broadcast(@.at, w, @.visited \cup {w}, failed, members)]
           /\ UNCHANGED <<connections, settled>>
  <2>1. PICK w \in Unvisited(p, failed) : sending' = [sending EXCEPT ![p] =
                Broadcast(@.at, w, @.visited \cup {w}, failed, members)]
    BY <1>1
  <2>2. w \in connections
    BY DEF Unvisited
  <2>3. sending' = [sending EXCEPT ![p] = Broadcast(@.at, w, @.visited \cup {w}, failed, @.audience)]
    BY <2>1 DEF IInv, TypeOK
  <2> QED BY <1>1, <2>2, <2>3, NextSocketIInv
<1>2. CASE /\ calm => Unvisited(p, failed) = {}
           /\ Begin(p, "send", sending[p].at + 1, over)
  <2>1. /\ sending[p].at \in Nat
        /\ p \in Services => p \in services
    BY DEF IInv, TypeOK, BroadcastsTell
  <2>2. PICK i \in Nat : i = sending[p].at + 1 /\ i >= 1
    BY <2>1
  <2>3. PICK told : told = over
    OBVIOUS
  <2>4. told \subseteq services \cup Alerts
    BY <2>3, MessageTyped DEF Message
  <2>5. ASSUME NEW m \in told, NEW w \in open
        PROVE  m \in known'[w]
    <3>1. calm /\ m = Message(p)
      BY <2>3 DEF Message
    <3>2. w \in connections /\ w \in sending[p].visited
      BY <1>2, <3>1, OpenConnected DEF Unvisited
    <3>3. CASE w = sending[p].current
      BY <3>1, <3>3
    <3>4. CASE w # sending[p].current
      <4>1. m \in known[w]
        BY <3>1, <3>2, <3>4 DEF IInv, BroadcastsTell
      <4>2. w \in Sockets
        BY DEF IInv, TypeOK
      <4> QED BY <4>1, <4>2 DEF Mild
    <3> QED BY <3>3, <3>4
  <2>6. Begin(p, "send", i, told)
    BY <1>2, <2>2, <2>3
  <2> QED BY <2>1, <2>2, <2>4, <2>5, <2>6, BeginIInv
<1>3. CASE Escapes(p)
  BY <1>3, EscapesIInv
<1> QED BY <1>1, <1>2, <1>3 DEF Iterate

LEMMA StoppedMild ==
    ASSUME IInv, UNCHANGED socketVars
    PROVE  Mild
BY OpenConnected DEF Mild, socketVars, IInv, TypeOK

LEMMA RegisterIInv ==
    ASSUME IInv, NEW p \in Services, Register(p)
    PROVE  IInv' /\ Told
<1> USE DEF Register
<1>1. Mild
  BY StoppedMild
<1>2. Told /\ p \in Broadcasters
  BY DEF Told, Broadcasters
<1>3. /\ services' = services \cup {p} /\ settled' = settled
      /\ ppc[p] = "idle" /\ ppc' = [ppc EXCEPT ![p] = "publish"] /\ sending' = sending
  BY DEF Step
<1>4. /\ ppc' \in [Broadcasters -> {"idle", "publish", "send", "done", "raised", "unpublished"}]
      /\ sending' \in [Broadcasters -> Broadcasting]
      /\ \A b \in Broadcasters : b # p => ppc'[b] = ppc[b] /\ sending'[b] = sending[b]
      /\ ppc'[p] = "publish"
  BY <1>2, <1>3 DEF IInv, TypeOK, Broadcasting
<1>5. services' \subseteq Services /\ settled' \subseteq services' \cup Alerts
  BY <1>3 DEF IInv, TypeOK
<1>6. Sound(p)
  BY <1>2 DEF Sound, IInv, TypeOK, SocketsStarted, BroadcastsTell
<1>7. Sound(p)'
  BY <1>1, <1>3, <1>4, <1>6 DEF Sound, Mild
<1> QED BY <1>1, <1>2, <1>3, <1>4, <1>5, <1>7, BroadcastStepIInv

LEMMA PublishFailsIInv ==
    ASSUME IInv, NEW p \in Services, PublishFails(p)
    PROVE  IInv' /\ Told
<1> USE DEF PublishFails
<1>1. Mild
  BY StoppedMild
<1>2. Told /\ p \in Broadcasters
  BY DEF Told, Broadcasters
<1>3. ppc[p] = "publish" /\ ppc' = [ppc EXCEPT ![p] = "unpublished"]
  BY DEF Step
<1>4. services' \subseteq Services /\ settled' \subseteq services' \cup Alerts
  BY DEF IInv, TypeOK
<1>5. ~(sending[p].current \in Sockets)
  BY <1>2, <1>3 DEF IInv, TypeOK
<1>6. Sound(p)
  BY <1>2 DEF Sound, IInv, TypeOK, SocketsStarted, BroadcastsTell
<1>7. /\ ppc' \in [Broadcasters -> {"idle", "publish", "send", "done", "raised", "unpublished"}]
      /\ sending' \in [Broadcasters -> Broadcasting]
      /\ \A b \in Broadcasters : b # p => ppc'[b] = ppc[b] /\ sending'[b] = sending[b]
      /\ ppc'[p] = "unpublished" /\ sending' = sending
  BY <1>2, <1>3 DEF IInv, TypeOK, Broadcasting
<1>8. Sound(p)'
  BY <1>1, <1>5, <1>6, <1>7 DEF Sound, Mild
<1> QED BY <1>1, <1>2, <1>4, <1>7, <1>8, BroadcastStepIInv

LEMMA PublishedIInv ==
    ASSUME IInv, NEW p \in Services, Published(p)
    PROVE  IInv' /\ Told
<1>1. Mild
  BY StoppedMild DEF Published
<1>2. p \in Broadcasters /\ ppc[p] = "publish"
  BY DEF Published, Begin, Step, Broadcasters
<1>3. p \in services
  BY <1>2 DEF IInv, BroadcastsTell
<1>4. Begin(p, "publish", 1, {}) /\ services' = services
  BY DEF Published
<1> QED BY <1>1, <1>2, <1>3, <1>4, BeginIInv

LEMMA ReceiveAlertsIInv ==
    ASSUME IInv, NEW g \in Groups, ReceiveAlerts(g)
    PROVE  IInv' /\ Told
<1>1. Mild
  BY StoppedMild DEF ReceiveAlerts
<1>2. g \in Broadcasters /\ g \notin Services
  BY StreamAssumption DEF Broadcasters
<1>3. PICK from \in {"idle", "raised"} : Begin(g, from, 1, {})
  BY DEF ReceiveAlerts
<1>4. services' = services
  BY DEF ReceiveAlerts
<1> QED BY <1>1, <1>2, <1>3, <1>4, BeginIInv

\* A broadcast drops nobody who is there.
LEMMA IterateDropsGone ==
    ASSUME IInv, NEW p \in Broadcasters, NEW failed, failed \cap open = {},
           Iterate(p, failed)
    PROVE  connections' \subseteq connections /\ open \subseteq connections'
BY OpenConnected DEF Iterate, Dropped, Escapes

LEMMA SentIInv ==
    ASSUME IInv, NEW p \in Broadcasters, Sent(p)
    PROVE  IInv' /\ Told
<1>1. /\ ppc[p] = "send" /\ Iterate(p, sending[p].disconnected)
      /\ UNCHANGED <<wpc, open, listed, raised, services>>
      /\ Tell(sending[p].current, {Message(p)})
  BY DEF Sent, Message
<1>2. PICK failed : failed = sending[p].disconnected
  OBVIOUS
<1>3. \A v \in failed : v \in Sockets /\ wpc[v] # "idle" /\ v \notin open
  BY <1>2 DEF IInv, TypeOK, SocketsStarted
<1>4. sending[p].current \in Sockets
  BY <1>1 DEF IInv, TypeOK
<1>5. Message(p) \in Services \cup Alerts
  BY <1>1, MessageTyped DEF IInv, TypeOK
<1>6. /\ known' \in [Sockets -> SUBSET (Services \cup Alerts)]
      /\ \A w \in Sockets : known[w] \subseteq known'[w]
      /\ sending[p].current \in open => Message(p) \in known'[sending[p].current]
  BY <1>1, <1>4, <1>5 DEF Tell, IInv, TypeOK
<1>7. Iterate(p, failed)
  BY <1>1, <1>2
<1>8. connections' \subseteq connections /\ open \subseteq connections'
  BY <1>3, <1>7, IterateDropsGone
<1>9. Mild
  BY <1>1, <1>6, <1>8 DEF Mild, IInv, TypeOK
<1> QED BY <1>1, <1>3, <1>6, <1>7, <1>9, IterateIInv

LEMMA SendFailsIInv ==
    ASSUME IInv, NEW p \in Broadcasters, SendFails(p)
    PROVE  IInv' /\ Told
<1>1. ppc[p] = "send" /\ UNCHANGED <<wpc, open, listed, known, services>>
  BY DEF SendFails
<1>2. PICK error \in SendErrors :
        /\ SendRaises(sending[p].current, error)
        /\ IF Caught(error)
           THEN Iterate(p, sending[p].disconnected \cup {sending[p].current})
           ELSE Escapes(p)
  BY DEF SendFails
<1>3. sending[p].current \in Sockets /\ wpc[sending[p].current] # "idle"
  BY <1>1 DEF IInv, TypeOK, BroadcastsTell, SocketsStarted
<1>4. sending[p].current \notin open /\ raised' \subseteq Sockets
  BY <1>2, <1>3 DEF SendRaises, IInv, TypeOK
<1>5. /\ known' \in [Sockets -> SUBSET (Services \cup Alerts)]
      /\ \A w \in Sockets : known[w] \subseteq known'[w]
  BY <1>1 DEF IInv, TypeOK
<1>6. CASE Escapes(p)
  <2>1. Mild
    BY <1>1, <1>4, <1>5, <1>6, OpenConnected DEF Mild, Escapes
  <2> QED BY <1>1, <1>6, <2>1, EscapesIInv
<1>7. CASE Iterate(p, sending[p].disconnected \cup {sending[p].current})
  <2>1. PICK failed : failed = sending[p].disconnected \cup {sending[p].current}
    OBVIOUS
  <2>2. \A v \in failed : v \in Sockets /\ wpc[v] # "idle" /\ v \notin open
    BY <1>3, <1>4, <2>1 DEF IInv, TypeOK, SocketsStarted
  <2>3. Iterate(p, failed)
    BY <1>7, <2>1
  <2>4. connections' \subseteq connections /\ open \subseteq connections'
    BY <2>2, <2>3, IterateDropsGone
  <2>5. Mild
    BY <1>1, <1>4, <1>5, <2>4 DEF Mild
  <2> QED BY <1>1, <1>4, <2>2, <2>3, <2>5, IterateIInv
<1> QED BY <1>2, <1>6, <1>7

-----------------------------------------------------------------------------
(***************************************************************************)
(* The invariant, and what follows from it.                                *)
(***************************************************************************)

LEMMA SocketsTold ==
    ASSUME UNCHANGED broadcastVars
    PROVE  Told
BY DEF Told, broadcastVars

LEMMA Inductive ==
    ASSUME IInv, [Next]_vars
    PROVE  IInv' /\ Told
<1>1. ASSUME NEW w \in Sockets,
             \/ Connect(w) \/ ListAnswered(w) \/ ListFails(w)
             \/ SnapshotSent(w) \/ SnapshotFails(w)
             \/ Close(w) \/ ReceiveEnds(w) \/ ReceiveFails(w)
      PROVE  IInv' /\ Told
  <2>1. UNCHANGED broadcastVars
    BY <1>1 DEF Connect, ListAnswered, ListFails, SnapshotSent, SnapshotFails, Close, ReceiveEnds,
               ReceiveFails
  <2>2. IInv'
    BY <1>1, ConnectIInv, ListAnsweredIInv, HandlerFailsIInv, SnapshotSentIInv,
       SnapshotFailsIInv, CloseIInv, ReceiveEndsIInv
  <2> QED BY <2>1, <2>2, SocketsTold
<1>2. ASSUME NEW p \in Services, Register(p) \/ PublishFails(p) \/ Published(p)
      PROVE  IInv' /\ Told
  BY <1>2, RegisterIInv, PublishFailsIInv, PublishedIInv
<1>3. ASSUME NEW g \in Groups, ReceiveAlerts(g)
      PROVE  IInv' /\ Told
  BY <1>3, ReceiveAlertsIInv
<1>4. ASSUME NEW p \in Broadcasters, Sent(p) \/ SendFails(p)
      PROVE  IInv' /\ Told
  BY <1>4, SentIInv, SendFailsIInv
<1>5. CASE UNCHANGED vars
  <2>1. Told
    BY <1>5, SocketsTold DEF vars
  <2>2. IInv'
    BY <1>5 DEF vars, socketVars, broadcastVars, IInv, TypeOK, SocketsStarted,
       LiveAreRegistered, BroadcastsTell, GapFree, Message
  <2> QED BY <2>1, <2>2
<1> QED BY <1>1, <1>2, <1>3, <1>4, <1>5 DEF Next

LEMMA Invariant == Spec => []IInv
<1>1. Init => IInv
  BY InitIInv
<1>2. IInv /\ [Next]_vars => IInv'
  BY Inductive
<1> QED BY <1>1, <1>2, PTL DEF Spec

\* The variables have their types; a broadcast under way is at a socket.
THEOREM TypeCorrect == Spec => []TypeOK
<1>1. IInv => TypeOK
  BY DEF IInv
<1> QED BY <1>1, Invariant, PTL

\* No broadcast drops a client that is still there, whatever connects, leaves,
\* fails or is broadcast at the same time (websocket.py:20-27).
THEOREM LiveStayRegistered == Spec => []LiveAreRegistered
<1>1. IInv => LiveAreRegistered
  BY DEF IInv
<1> QED BY <1>1, Invariant, PTL

\* A client that has its snapshot knows every service whose broadcast ran
\* undisturbed (main.py:446-454, 560-574).
THEOREM SnapshotAndEventsMeet == Spec => []NoGap
<1>1. IInv => NoGap
  BY DEF IInv, GapFree, NoGap
<1> QED BY <1>1, Invariant, PTL

\* A broadcast nobody disturbed has reached everyone who is still there when it
\* is over, whatever sends failed on the way (websocket.py:21-25).
THEOREM UndisturbedReach == Spec => UndisturbedReachesAll
<1>1. IInv /\ [Next]_vars => [\A p \in Broadcasters : ppc[p] = "send" =>
        \A m \in (settled' \ settled) \cap {Messages(p)[sending[p].at]} :
            \A w \in sending[p].audience \cap open : m \in known'[w]]_vars
  BY Inductive DEF Told
<1> QED BY <1>1, Invariant, PTL DEF Spec, UndisturbedReachesAll

-----------------------------------------------------------------------------
(***************************************************************************)
(* Delivery.  DeliveredToEveryActive, which sockets that come and go       *)
(* violate, holds as long as none does during the broadcast of an event    *)
(* and broadcast catches what its sends raise.                             *)
(***************************************************************************)
Undisturbed ==
    \A p \in Services : ppc[p] = "send" => connections = sending[p].audience

AllCaught == \A error \in SendErrors : Caught(error)

Delivered(p) ==
    ppc[p] = "send" /\ ppc'[p] \in {"done", "raised"} =>
        \A w \in sending[p].audience \cap open : p \in known'[w]

\* The event of a service is its only message.
LEMMA OwnEvent ==
    ASSUME IInv, NEW p \in Services, ppc[p] = "send"
    PROVE  Message(p) = p
<1>1. sending[p].at \in Remaining(p, 1)
  BY DEF IInv, BroadcastsTell, Broadcasters
<1> QED BY <1>1 DEF Message, Messages, Remaining

\* A broadcast that ends among those it began with has come to everyone.
LEMMA CalmDelivers ==
    ASSUME IInv, NEW p \in Services, ppc[p] = "send", ppc'[p] # "send",
           connections = sending[p].audience, NEW failed, Iterate(p, failed),
           \A w \in Sockets : known[w] \subseteq known'[w],
           sending[p].current \in open => p \in known'[sending[p].current]
    PROVE  \A w \in open : p \in known'[w]
<1>1. Unvisited(p, failed) = {}
  BY DEF Iterate, Step, IInv, TypeOK, Broadcasters
<1> SUFFICES ASSUME NEW w \in open, w # sending[p].current
             PROVE  p \in known'[w]
  OBVIOUS
<1>2. w \in sending[p].visited /\ w \in Sockets
  BY <1>1, OpenConnected DEF Unvisited, IInv, TypeOK
<1>3. p \in known[w]
  BY <1>2, OwnEvent DEF IInv, BroadcastsTell, Broadcasters
<1> QED BY <1>2, <1>3

LEMMA DeliveredStep ==
    ASSUME AllCaught, IInv, Undisturbed, [Next]_vars, NEW p \in Services
    PROVE  Delivered(p)
<1> SUFFICES ASSUME ppc[p] = "send", ppc'[p] \in {"done", "raised"}
             PROVE  \A w \in open : p \in known'[w]
  BY DEF Delivered
<1>1. p \in Broadcasters /\ connections = sending[p].audience /\ Message(p) = p
  BY OwnEvent DEF Broadcasters, Undisturbed
<1>2. \A b \in Broadcasters : \A from, to : Step(b, from, to) => b = p \/ ppc'[p] = ppc[p]
  BY <1>1 DEF Step, IInv, TypeOK
<1>3. Sent(p) \/ SendFails(p)
  <2>1. \A b \in Broadcasters : b # p => ~(Sent(b) \/ SendFails(b))
    BY <1>1, <1>2 DEF Sent, SendFails, Iterate, Begin, Escapes
  <2>2. \A b \in Services : ~(Register(b) \/ PublishFails(b) \/ Published(b))
    BY <1>1, <1>2 DEF Register, PublishFails, Published, Begin, Step, Broadcasters
  <2>3. \A g \in Groups : ~ReceiveAlerts(g)
    BY <1>1, <1>2 DEF ReceiveAlerts, Begin, Step, Broadcasters
  <2>4. UNCHANGED ppc => FALSE
    OBVIOUS
  <2> QED BY <2>1, <2>2, <2>3, <2>4 DEF Next, vars, broadcastVars, Connect, ListAnswered, ListFails,
             SnapshotSent, SnapshotFails, Close, ReceiveEnds,
               ReceiveFails
<1>4. CASE Sent(p)
  <2>1. Iterate(p, sending[p].disconnected) /\ Tell(sending[p].current, {p})
    BY <1>1, <1>4 DEF Sent, Message
  <2>2. /\ \A w \in Sockets : known[w] \subseteq known'[w]
        /\ sending[p].current \in open => p \in known'[sending[p].current]
    BY <1>1, <2>1 DEF Tell, IInv, TypeOK
  <2> QED BY <1>1, <2>1, <2>2, CalmDelivers
<1>5. CASE SendFails(p)
  <2>1. PICK error \in SendErrors :
          /\ SendRaises(sending[p].current, error)
          /\ IF Caught(error)
             THEN Iterate(p, sending[p].disconnected \cup {sending[p].current})
             ELSE Escapes(p)
    BY <1>5 DEF SendFails
  <2>2. /\ Iterate(p, sending[p].disconnected \cup {sending[p].current})
        /\ sending[p].current \notin open /\ known' = known
    BY <1>5, <2>1 DEF AllCaught, SendRaises, SendFails
  <2> QED BY <1>1, <2>2, CalmDelivers
<1> QED BY <1>3, <1>4, <1>5

\* As long as no socket is registered or removed during the broadcast of an
\* event, and its sends raise only what broadcast catches, every client that is
\* there has the event when the broadcast is over, as documented
\* (websocket.py:18-27): what goes wrong needs one that comes, goes, or raises
\* WebSocketDisconnect.
THEOREM UndisturbedIsDelivered ==
    ASSUME AllCaught
    PROVE  Spec /\ []Undisturbed => DeliveredToEveryActive
<1> DEFINE All == \A p \in Services : Delivered(p)
<1>1. IInv /\ Undisturbed /\ [Next]_vars => [All]_vars
  BY DeliveredStep
<1> HIDE DEF All
<1>2. Spec /\ []Undisturbed => [][All]_vars
  BY <1>1, Invariant, PTL DEF Spec
<1> QED BY <1>2 DEF DeliveredToEveryActive, All, Delivered
=============================================================================

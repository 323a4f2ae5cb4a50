-------------------------- MODULE GimbalLinkProofs --------------------------
(***************************************************************************)
(* Proofs about GimbalLink, for every set of gimbal types and every bound. *)
(***************************************************************************)
EXTENDS GimbalLink, SequenceTheorems, TLAPS

USE GimbalAssumption

Client == [type : Types, socket : {"open", "connecting", "connected", "failed", "deleted"}]
Protocols == {"DYT", "Generic"}
Event == [kind : {"type", "link"}, type : Types] \cup [kind : {"delete"}, client : Nat]
         \cup [kind : {"send"}, protocol : Protocols, changing : BOOLEAN]

\* What the variables are made of, as far as the argument needs it
Typed ==
    /\ events \in Seq(Event) /\ clients \in Seq(Client) /\ link \in 0..Len(clients)
    /\ gimbalType \in Types /\ protocol \in Protocols \cup {"none"} /\ connected \in BOOLEAN
    /\ mainPc # "protocol" => currentType \in Types
    /\ mainPc \in {"protocol", "emit", "mark", "idle", "build", "gone"}
    /\ workerPc \in {"off", "loop", "connect", "ended"}

\* The main thread is in the constructor
Early == mainPc \in {"protocol", "emit", "mark"}

\* Until the constructor has returned nobody has changed the type or given a command,
\* and until it has emitted initLink nothing has happened at all
NewController ==
    /\ Early => workerPc # "connect" /\ \A i \in DOMAIN events : events[i].kind \in {"link", "delete"}
    /\ mainPc \in {"protocol", "emit"} => events = <<>> /\ clients = <<>>
    /\ mainPc = "emit" => currentType = gimbalType

\* The first link is made before everything else, for the type of that time
LinkIsFirst ==
    \A i \in DOMAIN events : events[i].kind = "link" =>
        i = 1 /\ clients = <<>> /\ events[i].type = currentType /\ (Early \/ connected)

\* The protocol and the link in use are those of the current type; there are none while
\* the type is being changed, and none without a connection
InUse ==
    /\ protocol # "none" => protocol = ProtocolOf(currentType)
    /\ link # 0 => clients[link].type = currentType
    /\ workerPc = "connect" => ~connected
    /\ ~Early /\ ~connected => protocol = "none" /\ link = 0

\* Bytes built while no change of the type was waiting are ahead of all later changes, and
\* in the protocol of the current type
SendsAreAhead ==
    \A i \in DOMAIN events : events[i].kind = "send" /\ ~events[i].changing =>
        /\ workerPc # "connect" /\ events[i].protocol = ProtocolOf(currentType)
        /\ \A j \in DOMAIN events : j < i => events[j].kind # "type"

IInv == Typed /\ NewController /\ LinkIsFirst /\ InUse /\ SendsAreAhead /\ OwnProtocol

-----------------------------------------------------------------------------
(* The worker's queue and the clients *)

\* What is in a queue with one more event at its end.
LEMMA Appended ==
    ASSUME events \in Seq(Event), NEW e \in Event, events' = Append(events, e)
    PROVE  /\ events' \in Seq(Event)
           /\ \A i \in DOMAIN events' :
                 \/ i \in DOMAIN events /\ events'[i] = events[i]
                 \/ events'[i] = e /\ \A j \in DOMAIN events : j < i
<1>1. DOMAIN events = 1..Len(events) /\ Len(events) \in Nat
  OBVIOUS
<1>2. /\ events' \in Seq(Event) /\ DOMAIN events' = 1..(Len(events) + 1)
      /\ \A i \in 1..Len(events) : events'[i] = events[i]
      /\ events'[Len(events) + 1] = e
  BY AppendProperties
<1> QED  BY <1>1, <1>2

\* What is in a queue without its first event, where the deletion of a link may be added.
LEMMA Handled ==
    ASSUME events \in Seq(Event), events # <<>>, NEW l \in Nat,
           events' = Tail(events) \/ events' = Append(Tail(events), Delete(l))
    PROVE  /\ Head(events) = events[1] /\ 1 \in DOMAIN events /\ events[1] \in Event
           /\ events' \in Seq(Event)
           /\ \A i \in DOMAIN events' :
                 \/ i + 1 \in DOMAIN events /\ i + 1 # 1 /\ events'[i] = events[i + 1]
                 \/ events'[i].kind = "delete"
           /\ \A i, j \in DOMAIN events' : j < i => j + 1 < i + 1
<1> DEFINE t == Tail(events)
<1>1. /\ t \in Seq(Event) /\ Len(t) = Len(events) - 1 /\ Head(events) \in Event
      /\ \A i \in 1..Len(t) : t[i] = events[i + 1]
  BY HeadTailProperties
<1>2. /\ Len(events) \in Nat /\ Len(events) # 0 /\ DOMAIN events = 1..Len(events)
      /\ Head(events) = events[1] /\ DOMAIN t = 1..(Len(events) - 1)
  BY <1>1, EmptySeq
<1> HIDE DEF t
<1>3. \A i \in DOMAIN t : i + 1 \in DOMAIN events /\ i + 1 # 1 /\ t[i] = events[i + 1]
  BY <1>1, <1>2
<1>4. CASE events' = t
  <2>1. \A i, j \in DOMAIN t : j < i => j + 1 < i + 1
    BY <1>2
  <2> QED  BY <1>1, <1>2, <1>3, <1>4, <2>1
<1>5. CASE events' = Append(t, Delete(l))
  <2>1. Delete(l) \in Event
    BY DEF Delete, Event
  <2>2. /\ events' \in Seq(Event) /\ Len(events') = Len(t) + 1
        /\ \A i \in 1..Len(t) : events'[i] = t[i]
        /\ events'[Len(t) + 1] = Delete(l)
    BY <1>1, <1>5, <2>1, AppendProperties
  <2>3. DOMAIN events' = 1..(Len(t) + 1) /\ Len(t) \in Nat /\ DOMAIN t = 1..Len(t)
    BY <1>1, <2>2
  <2>4. \A i \in DOMAIN events' : \/ i \in DOMAIN t /\ events'[i] = t[i]
                                  \/ events'[i].kind = "delete"
    BY <2>2, <2>3 DEF Delete
  <2>5. \A i, j \in DOMAIN events' : j < i => j + 1 < i + 1
    BY <2>3
  <2> QED  BY <1>1, <1>2, <1>3, <2>2, <2>4, <2>5
<1> QED  BY <1>4, <1>5 DEF t

\* A client made for a type is the last one, and has that type.
LEMMA ClientMade ==
    ASSUME clients \in Seq(Client), NEW t \in Types, InitClient(t)
    PROVE  /\ clients' \in Seq(Client) /\ link' \in 1..Len(clients')
           /\ clients'[link'].type = t /\ clients' # <<>>
<1>1. NewClient(t) \in Client
  BY DEF NewClient, Client
<1> QED  BY <1>1, AppendProperties, EmptySeq DEF InitClient, NewClient

\* What happens to its socket changes neither the number nor the type of a client.
LEMMA SocketChanged ==
    ASSUME clients \in Seq(Client), NEW s \in {"connected", "failed", "deleted"}, NEW k,
           clients' = [clients EXCEPT ![k].socket = s]
    PROVE  /\ clients' \in Seq(Client) /\ Len(clients') = Len(clients)
           /\ \A c \in 1..Len(clients) : clients'[c].type = clients[c].type
           /\ clients = <<>> => clients' = <<>>
<1>1. Len(clients) \in Nat /\ DOMAIN clients = 1..Len(clients)
      /\ \A c \in 1..Len(clients) : clients[c] \in Client
  OBVIOUS
<1>2. \A c \in 1..Len(clients) : clients'[c] \in Client /\ clients'[c].type = clients[c].type
  BY <1>1 DEF Client
<1>3. clients' = [c \in 1..Len(clients) |-> clients'[c]]
  BY <1>1
<1>4. clients' \in Seq(Client) /\ Len(clients') = Len(clients)
  <2>1. clients' \in [1..Len(clients) -> Client]
    BY <1>2, <1>3
  <2> QED  BY <1>1, <2>1, SeqDef, LenProperties
<1> QED  BY <1>2, <1>4, EmptySeq

\* The end of the worker deletes clients and changes nothing else of them.
LEMMA ClientsEnded ==
    ASSUME clients \in Seq(Client), Finish
    PROVE  /\ clients' \in Seq(Client) /\ Len(clients') = Len(clients)
           /\ \A c \in 1..Len(clients) :
                 /\ clients'[c].type = clients[c].type
                 /\ clients'[c].socket = clients[c].socket \/ clients'[c].socket = "deleted"
<1> USE DEF Finish
<1>1. Len(clients) \in Nat /\ DOMAIN clients = 1..Len(clients)
      /\ \A c \in 1..Len(clients) : clients[c] \in Client
  OBVIOUS
<1>2. \A c \in 1..Len(clients) :
         /\ clients'[c] \in Client /\ clients'[c].type = clients[c].type
         /\ clients'[c].socket = clients[c].socket \/ clients'[c].socket = "deleted"
  <2> SUFFICES ASSUME NEW c \in 1..Len(clients)
               PROVE  /\ clients'[c] \in Client /\ clients'[c].type = clients[c].type
                      /\ clients'[c].socket = clients[c].socket \/ clients'[c].socket = "deleted"
    OBVIOUS
  <2>1. clients[c] \in Client
    BY <1>1
  <2>2. clients'[c] = clients[c] \/ clients'[c] = [clients[c] EXCEPT !.socket = "deleted"]
    BY <1>1
  <2> QED  BY <2>1, <2>2 DEF Client
<1>3. clients' = [c \in 1..Len(clients) |-> clients'[c]]
  BY <1>1
<1> HIDE DEF Finish
<1>4. clients' \in Seq(Client) /\ Len(clients') = Len(clients)
  <2>1. \A c \in 1..Len(clients) : clients'[c] \in Client
    BY <1>2
  <2>2. clients' \in [1..Len(clients) -> Client]
    BY <1>3, <2>1
  <2> QED  BY <1>1, <2>2, SeqDef, LenProperties
<1> QED  BY <1>2, <1>4

\* No link is always within the range of links.
LEMMA NoLink == ASSUME NEW s \in Seq(Client) PROVE Len(s) \in Nat /\ 0 \in 0..Len(s)
<1>1. Len(s) \in Nat
  OBVIOUS
<1> QED  BY <1>1

-----------------------------------------------------------------------------
(* The main thread *)

USE DEF member

\* The constructor sets protocol and type before anything can use them.
LEMMA CreateProtocolKeeps == ASSUME IInv, CreateProtocol PROVE IInv'
<1> USE DEF IInv, CreateProtocol
<1>1. DOMAIN events = {} /\ link = 0 /\ ProtocolOf(gimbalType) \in Protocols
  BY EmptySeq DEF Typed, NewController, ProtocolOf, Protocols
<1> QED
  BY <1>1 DEF Typed, NewController, Early, LinkIsFirst, InUse, SendsAreAhead, OwnProtocol

\* initLink is the first event of the worker, or is lost.
LEMMA EmitInitLinkKeeps == ASSUME IInv, EmitInitLink PROVE IInv'
<1> USE DEF IInv, EmitInitLink
<1>1. CASE workerPc = "off"
  BY <1>1 DEF Typed, NewController, Early, LinkIsFirst, InUse, SendsAreAhead, OwnProtocol
<1>2. CASE workerPc # "off"
  <2>1. InitLink(gimbalType) \in Event /\ events' = Append(events, InitLink(gimbalType))
    BY <1>2 DEF InitLink, Event, Typed
  <2>2. /\ events' \in Seq(Event) /\ DOMAIN events' = {1} /\ events'[1] = InitLink(gimbalType)
    <3>1. events = <<>> /\ Len(events) = 0
      BY EmptySeq DEF NewController
    <3> QED  BY <2>1, <3>1, AppendProperties
  <2>3. Typed'
    BY <2>2 DEF InitLink, Typed
  <2>4. NewController'
    BY <2>2 DEF InitLink, Typed, NewController, Early
  <2>5. LinkIsFirst'
    <3>1. clients' = <<>> /\ Early' /\ gimbalType = currentType
      BY DEF NewController, Early
    <3> QED  BY <2>2, <3>1 DEF InitLink, LinkIsFirst
  <2>6. InUse'
    BY <2>2 DEF InitLink, Typed, NewController, InUse, Early
  <2>7. SendsAreAhead'
    BY <2>2 DEF InitLink, SendsAreAhead
  <2>8. OwnProtocol'
    BY <2>2 DEF InitLink, OwnProtocol
  <2> QED  BY <2>3, <2>4, <2>5, <2>6, <2>7, <2>8
<1> QED  BY <1>1, <1>2

\* The constructor ends: what it made was for the type that is current.
LEMMA MarkConnectedKeeps == ASSUME IInv, MarkConnected PROVE IInv'
  BY DEF IInv, MarkConnected, Typed, NewController, Early, LinkIsFirst, InUse, SendsAreAhead,
         OwnProtocol

\* A change of the type waits behind all that was sent before it.
LEMMA ChangeTypeKeeps == ASSUME IInv, NEW type \in Types, ChangeType(type) PROVE IInv'
<1> USE DEF IInv, ChangeType
<1>1. TypeChange(type) \in Event
  BY DEF TypeChange, Event
<1>2. /\ events' \in Seq(Event)
      /\ \A i \in DOMAIN events' :
            \/ i \in DOMAIN events /\ events'[i] = events[i]
            \/ events'[i] = TypeChange(type) /\ \A j \in DOMAIN events : j < i
  BY <1>1, Appended DEF Typed
<1>3. Typed' /\ NewController' /\ InUse' /\ OwnProtocol'
  BY <1>2 DEF Typed, NewController, Early, InUse, OwnProtocol
<1>4. LinkIsFirst'
  BY <1>2 DEF TypeChange, LinkIsFirst, Early
<1>5. SendsAreAhead'
  <2> SUFFICES ASSUME NEW i \in DOMAIN events', events'[i].kind = "send", ~events'[i].changing
               PROVE  /\ workerPc' # "connect" /\ events'[i].protocol = ProtocolOf(currentType')
                      /\ \A j \in DOMAIN events' : j < i => events'[j].kind # "type"
    BY DEF SendsAreAhead
  <2>1. i \in DOMAIN events /\ events'[i] = events[i]
    BY <1>2 DEF TypeChange
  <2>2. \A j \in DOMAIN events' : j < i => j \in DOMAIN events /\ events'[j] = events[j]
    <3> SUFFICES ASSUME NEW j \in DOMAIN events', j < i, j \notin DOMAIN events PROVE FALSE
      BY <1>2
    <3>1. i < j
      BY <1>2, <2>1
    <3>2. i \in Nat /\ j \in Nat
      BY <1>2, <2>1 DEF Typed
    <3> QED  BY <3>1, <3>2
  <2> QED  BY <2>1, <2>2 DEF SendsAreAhead
<1> QED  BY <1>3, <1>4, <1>5

\* The tests of a command change nothing that matters here.
LEMMA TestCommandKeeps == ASSUME IInv, TestCommand PROVE IInv'
  BY DEF IInv, TestCommand, Typed, NewController, Early, LinkIsFirst, InUse, SendsAreAhead,
         OwnProtocol

\* A command is built in the protocol of the current type, and knows whether a change waits.
LEMMA BuildCommandKeeps == ASSUME IInv, BuildCommand PROVE IInv'
<1> USE DEF IInv, BuildCommand
<1>1. CASE UNCHANGED events
  BY <1>1 DEF Typed, NewController, Early, LinkIsFirst, InUse, SendsAreAhead, OwnProtocol
<1>2. CASE protocol # "none" /\ events' = Append(events, SendCommand(protocol, Changing))
  <2> DEFINE e == SendCommand(protocol, Changing)
  <2>1. e \in Event /\ e.kind = "send" /\ e.protocol = protocol /\ e.changing = Changing
    <3>1. protocol \in Protocols /\ Changing \in BOOLEAN
      BY <1>2 DEF Typed, Changing
    <3> QED  BY <3>1 DEF SendCommand, Event
  <2> HIDE DEF e
  <2>2. /\ events' \in Seq(Event)
        /\ \A i \in DOMAIN events' :
              \/ i \in DOMAIN events /\ events'[i] = events[i]
              \/ events'[i] = e /\ \A j \in DOMAIN events : j < i
    BY <1>2, <2>1, Appended DEF Typed, e
  <2>3. Typed' /\ NewController' /\ InUse' /\ OwnProtocol'
    BY <2>2 DEF Typed, NewController, Early, InUse, OwnProtocol
  <2>4. LinkIsFirst'
    BY <2>1, <2>2 DEF LinkIsFirst, Early
  <2>5. SendsAreAhead'
    <3> SUFFICES ASSUME NEW i \in DOMAIN events', events'[i].kind = "send", ~events'[i].changing
                 PROVE  /\ workerPc' # "connect" /\ events'[i].protocol = ProtocolOf(currentType')
                        /\ \A j \in DOMAIN events' : j < i => events'[j].kind # "type"
      BY DEF SendsAreAhead
    <3>1. CASE i \in DOMAIN events /\ events'[i] = events[i]
      <4>1. \A j \in DOMAIN events' : j < i => events'[j].kind # "type"
        BY <2>1, <2>2, <3>1 DEF SendsAreAhead
      <4> QED  BY <3>1, <4>1 DEF SendsAreAhead
    <3>2. CASE events'[i] = e
      <4>1. ~Changing
        BY <2>1, <3>2
      <4>2. \A j \in DOMAIN events : events[j].kind # "type"
        <5>1. DOMAIN events = 1..Len(events)
          BY DEF Typed
        <5> QED  BY <4>1, <5>1 DEF Changing
      <4>3. \A j \in DOMAIN events' : events'[j].kind # "type"
        BY <2>1, <2>2, <4>2
      <4> QED  BY <1>2, <2>1, <3>2, <4>3 DEF InUse, NewController, Early
    <3> QED  BY <2>2, <3>1, <3>2
  <2> QED  BY <2>3, <2>4, <2>5
<1> QED  BY <1>1, <1>2

\* Nor does the destructor's wait for the worker.
LEMMA DestroyKeeps == ASSUME IInv, Destroy PROVE IInv'
  BY DEF IInv, Destroy, Typed, NewController, Early, LinkIsFirst, InUse, SendsAreAhead,
         OwnProtocol

-----------------------------------------------------------------------------
(* The worker thread *)

\* Nor does the start of the worker.
LEMMA StartKeeps == ASSUME IInv, Start PROVE IInv'
  BY DEF IInv, Start, Typed, NewController, Early, LinkIsFirst, InUse, SendsAreAhead, OwnProtocol

\* The order of the queue, and what was said of its events, stays when its first is handled
\* and the type stays.
LEMMA OrderIsKept ==
    ASSUME Typed, SendsAreAhead, NewController, LinkIsFirst, events # <<>>, NEW l \in Nat,
           events' = Tail(events) \/ events' = Append(Tail(events), Delete(l)),
           UNCHANGED <<currentType, workerPc, mainPc>>, workerPc # "connect",
           clients = <<>> => clients' = <<>> \/ ~Early
    PROVE  /\ SendsAreAhead' /\ LinkIsFirst' /\ events' \in Seq(Event)
           /\ Early' => \A i \in DOMAIN events' : events'[i].kind \in {"link", "delete"}
<1>1. /\ 1 \in DOMAIN events /\ events' \in Seq(Event)
      /\ \A i \in DOMAIN events' :
            \/ i + 1 \in DOMAIN events /\ i + 1 # 1 /\ events'[i] = events[i + 1]
            \/ events'[i].kind = "delete"
      /\ \A i, j \in DOMAIN events' : j < i => j + 1 < i + 1
  BY Handled DEF Typed
<1>2. LinkIsFirst'
  BY <1>1 DEF LinkIsFirst
<1>3. SendsAreAhead'
  BY <1>1 DEF SendsAreAhead
<1>4. Early' => \A i \in DOMAIN events' : events'[i].kind \in {"link", "delete"}
  BY <1>1 DEF NewController, Early
<1> QED  BY <1>1, <1>2, <1>3, <1>4

\* The first link is made for the type that is still current.
LEMMA HandleInitLinkKeeps == ASSUME IInv, HandleInitLink PROVE IInv'
<1> USE DEF IInv, HandleInitLink
<1>1. Head(events) = events[1] /\ 1 \in DOMAIN events /\ events[1] \in Event /\ link \in Nat
  BY EmptySeq, HeadTailProperties DEF Typed
<1>2. events[1].type = currentType /\ clients = <<>> /\ (Early \/ connected)
      /\ mainPc \notin {"protocol", "emit"}
  BY <1>1, EmptySeq DEF LinkIsFirst, NewController
<1>3. currentType \in Types
  BY <1>2 DEF Typed
<1>4. /\ clients' \in Seq(Client) /\ link' \in 1..Len(clients')
      /\ clients'[link'].type = currentType
  BY <1>1, <1>2, <1>3, ClientMade DEF Typed
<1>5. link' \in 0..Len(clients') /\ link' # 0
  BY <1>4
<1>6. /\ events' \in Seq(Event) /\ SendsAreAhead'
      /\ \A i \in DOMAIN events' :
            \/ i + 1 \in DOMAIN events /\ i + 1 # 1 /\ events'[i] = events[i + 1]
            \/ events'[i].kind = "delete"
  <2>1. /\ events' \in Seq(Event)
        /\ \A i \in DOMAIN events' :
              \/ i + 1 \in DOMAIN events /\ i + 1 # 1 /\ events'[i] = events[i + 1]
              \/ events'[i].kind = "delete"
        /\ \A i, j \in DOMAIN events' : j < i => j + 1 < i + 1
    BY <1>1, Handled DEF Typed
  <2> QED  BY <2>1 DEF SendsAreAhead
<1>7. LinkIsFirst' /\ NewController'
  BY <1>2, <1>6 DEF LinkIsFirst, NewController, Early
<1> QED  BY <1>2, <1>3, <1>4, <1>5, <1>6, <1>7 DEF Typed, InUse, Early, OwnProtocol

\* A change of the type is handled when nothing that was built for the old type waits.
LEMMA HandleTypeChangeKeeps == ASSUME IInv, HandleTypeChange PROVE IInv'
<1> USE DEF IInv, HandleTypeChange
<1>1. link \in Nat /\ (events' = Tail(events) \/ events' = Append(Tail(events), Delete(link)))
  BY DEF Disconnect, Typed
<1>2. /\ Head(events) = events[1] /\ 1 \in DOMAIN events /\ events[1] \in Event
      /\ events' \in Seq(Event)
      /\ \A i \in DOMAIN events' :
            \/ i + 1 \in DOMAIN events /\ i + 1 # 1 /\ events'[i] = events[i + 1]
            \/ events'[i].kind = "delete"
      /\ DOMAIN events = 1..Len(events)
  BY <1>1, Handled DEF Typed
<1>3. ~Early /\ events[1].type \in Types /\ events[1].kind = "type"
  BY <1>2 DEF NewController, Event
<1>4. \A i \in DOMAIN events : events[i].kind # "link"
  BY <1>2, <1>3 DEF LinkIsFirst
<1>5. \A i \in DOMAIN events : ~(events[i].kind = "send" /\ ~events[i].changing)
  BY <1>2, <1>3 DEF SendsAreAhead
<1>6. \A i \in DOMAIN events' : events'[i].kind # "link"
                                /\ ~(events'[i].kind = "send" /\ ~events'[i].changing)
  BY <1>2, <1>4, <1>5
<1>7. protocol' = "none" /\ link' = 0 /\ connected' = FALSE
  BY <1>3 DEF Disconnect, InUse, Typed
<1>8. Typed'
  <2>1. clients \in Seq(Client) /\ 0 \in 0..Len(clients)
    BY NoLink DEF Typed
  <2> QED  BY <1>2, <1>3, <1>7, <2>1 DEF Typed
<1>9. NewController'
  BY <1>2, <1>3, <1>6, <1>7 DEF Typed, NewController, Early
<1>10. LinkIsFirst'
  BY <1>2, <1>3, <1>6, <1>7 DEF Typed, NewController, LinkIsFirst, Early
<1>11. InUse'
  BY <1>2, <1>3, <1>6, <1>7 DEF Typed, NewController, InUse, Early
<1>12. SendsAreAhead'
  BY <1>2, <1>3, <1>6, <1>7 DEF SendsAreAhead
<1>13. OwnProtocol'
  BY <1>2, <1>3, <1>6, <1>7 DEF OwnProtocol
<1> QED  BY <1>8, <1>9, <1>10, <1>11, <1>12, <1>13

\* The new link and its protocol are those of the type that was set.
LEMMA ConnectKeeps == ASSUME IInv, Connect PROVE IInv'
<1> USE DEF IInv, Connect
<1>1. ~Early /\ currentType \in Types /\ ProtocolOf(currentType) \in Protocols
  BY DEF NewController, Early, Typed, ProtocolOf, Protocols
<1>2. /\ clients' \in Seq(Client) /\ link' \in 1..Len(clients')
      /\ clients'[link'].type = currentType
  BY <1>1, ClientMade DEF Typed
<1>3. link' \in 0..Len(clients')
  BY <1>2
<1>4. \A i \in DOMAIN events : events[i].kind # "link"
                               /\ ~(events[i].kind = "send" /\ ~events[i].changing)
  BY <1>1 DEF LinkIsFirst, InUse, SendsAreAhead
<1> QED
  BY <1>1, <1>2, <1>3, <1>4 DEF Typed, NewController, Early, LinkIsFirst, InUse, SendsAreAhead,
     OwnProtocol

\* Bytes built while no change waited reach a link of the type they were built for.
LEMMA HandleSendKeeps == ASSUME IInv, HandleSend PROVE IInv'
<1> USE DEF IInv, HandleSend
<1>1. /\ SendsAreAhead' /\ LinkIsFirst' /\ events' \in Seq(Event)
      /\ Early' => \A i \in DOMAIN events' : events'[i].kind \in {"link", "delete"}
  BY OrderIsKept
<1>2. Head(events) = events[1] /\ 1 \in DOMAIN events
  BY EmptySeq, HeadTailProperties DEF Typed
<1>3. OwnProtocol'
  <2>1. CASE UNCHANGED sent
    BY <2>1 DEF OwnProtocol
  <2>2. CASE /\ link # 0
             /\ sent' = [protocol |-> Head(events).protocol, type |-> clients[link].type,
                         changing |-> Head(events).changing]
    <3>1. ~events[1].changing => events[1].protocol = ProtocolOf(currentType)
      BY <1>2 DEF SendsAreAhead
    <3>2. clients[link].type = currentType
      BY <2>2 DEF InUse
    <3>3. CASE events[1].changing
      BY <1>2, <2>2, <3>3 DEF OwnProtocol
    <3>4. CASE ~events[1].changing
      BY <1>2, <2>2, <3>1, <3>2, <3>4 DEF OwnProtocol
    <3> QED  BY <3>3, <3>4
  <2> QED  BY <2>1, <2>2
<1>4. NewController'
  BY <1>1, <1>2 DEF NewController, Early
<1> QED  BY <1>1, <1>3, <1>4 DEF Typed, InUse, Early

\* A client that is deleted may take the link in use with it, and leaves the type.
LEMMA HandleDeleteKeeps == ASSUME IInv, HandleDelete PROVE IInv'
<1> USE DEF IInv, HandleDelete
<1>1. link \in Nat /\ (events' = Tail(events) \/ events' = Append(Tail(events), Delete(link)))
  BY DEF CloseSocket, Disconnect, Typed
<1>2. /\ clients' \in Seq(Client) /\ Len(clients') = Len(clients)
      /\ \A c \in 1..Len(clients) : clients'[c].type = clients[c].type
      /\ clients = <<>> => clients' = <<>>
  BY SocketChanged DEF Typed
<1>3. /\ SendsAreAhead' /\ events' \in Seq(Event)
      /\ Early' => \A i \in DOMAIN events' : events'[i].kind \in {"link", "delete"}
      /\ \A i \in DOMAIN events' : events'[i].kind # "link"
  <2>1. /\ Head(events) = events[1] /\ 1 \in DOMAIN events /\ events' \in Seq(Event)
        /\ \A i \in DOMAIN events' :
              \/ i + 1 \in DOMAIN events /\ i + 1 # 1 /\ events'[i] = events[i + 1]
              \/ events'[i].kind = "delete"
        /\ \A i, j \in DOMAIN events' : j < i => j + 1 < i + 1
    BY <1>1, Handled DEF Typed
  <2>2. SendsAreAhead'
    BY <2>1 DEF SendsAreAhead
  <2>3. /\ Early' => \A i \in DOMAIN events' : events'[i].kind \in {"link", "delete"}
        /\ \A i \in DOMAIN events' : events'[i].kind # "link"
    BY <2>1 DEF NewController, LinkIsFirst, Early
  <2> QED  BY <2>1, <2>2, <2>3
<1>4. \/ UNCHANGED <<connected, link, protocol>>
      \/ connected' = FALSE /\ link' = 0 /\ protocol' = "none"
  BY DEF CloseSocket, Disconnect
<1>5. InUse'
  BY <1>2, <1>4 DEF InUse, Early, Typed
<1>6. LinkIsFirst' /\ NewController'
  BY <1>2, <1>3 DEF LinkIsFirst, NewController, Early
<1>7. Typed' /\ OwnProtocol'
  <2>1. link' \in 0..Len(clients') /\ protocol' \in Protocols \cup {"none"}
        /\ connected' \in BOOLEAN
    BY <1>2, <1>4, NoLink DEF Typed
  <2> QED  BY <1>2, <1>3, <2>1 DEF Typed, OwnProtocol
<1> QED  BY <1>3, <1>5, <1>6, <1>7

\* A worker that ends leaves no event and, if it was connected, no protocol and no link.
LEMMA FinishKeeps == ASSUME IInv, Finish PROVE IInv'
<1> USE DEF IInv, Finish
<1>2. \A c \in 1..Len(clients) : clients'[c].type = clients[c].type
  BY ClientsEnded DEF Typed
<1>4. clients' \in Seq(Client) /\ Len(clients') = Len(clients)
  BY ClientsEnded DEF Typed
<1>5. events' \in Seq(Event) /\ DOMAIN events' = {}
  BY EmptySeq
<1>6. link' \in 0..Len(clients') /\ protocol' \in Protocols \cup {"none"}
  BY <1>4, NoLink DEF Typed
<1>7. Typed'
  BY <1>2, <1>4, <1>5, <1>6 DEF Typed
<1>8. NewController'
  BY <1>2, <1>4, <1>5, <1>6 DEF Typed, NewController, Early
<1>9. LinkIsFirst'
  BY <1>2, <1>4, <1>5, <1>6 DEF Typed, NewController, LinkIsFirst, Early
<1>10. InUse'
  BY <1>2, <1>4, <1>5, <1>6 DEF Typed, NewController, InUse, Early
<1>11. SendsAreAhead'
  BY <1>2, <1>4, <1>5, <1>6 DEF SendsAreAhead
<1>12. OwnProtocol'
  BY <1>2, <1>4, <1>5, <1>6 DEF OwnProtocol
<1> QED  BY <1>7, <1>8, <1>9, <1>10, <1>11, <1>12

-----------------------------------------------------------------------------
(* The network *)

\* A socket that is connected keeps the type of its client.
LEMMA SocketConnectedKeeps ==
    ASSUME IInv, NEW c \in DOMAIN clients, SocketConnected(c) PROVE IInv'
<1> USE DEF IInv, SocketConnected
<1>1. /\ clients' \in Seq(Client) /\ Len(clients') = Len(clients)
      /\ \A k \in 1..Len(clients) : clients'[k].type = clients[k].type
      /\ clients = <<>> => clients' = <<>>
  BY SocketChanged DEF Typed
<1> QED
  BY <1>1 DEF Typed, NewController, Early, LinkIsFirst, InUse, SendsAreAhead, OwnProtocol

\* A client that fails takes the link in use with it, and leaves the type.
LEMMA SocketFailsKeeps == ASSUME IInv, NEW c \in DOMAIN clients, SocketFails(c) PROVE IInv'
<1> USE DEF IInv, SocketFails
<1>1. /\ clients' \in Seq(Client) /\ Len(clients') = Len(clients)
      /\ \A k \in 1..Len(clients) : clients'[k].type = clients[k].type
      /\ clients = <<>> => clients' = <<>>
  BY SocketChanged DEF Typed
<1>2. /\ events' = events \/ (events' = Append(events, Delete(link)) /\ Delete(link) \in Event)
      /\ \/ UNCHANGED <<connected, link, protocol>>
         \/ connected' = FALSE /\ link' = 0 /\ protocol' = "none"
  BY DEF Disconnect, Delete, Event, Typed
<1>3. /\ events' \in Seq(Event)
      /\ \A i \in DOMAIN events' : \/ i \in DOMAIN events /\ events'[i] = events[i]
                                   \/ events'[i].kind = "delete" /\ \A j \in DOMAIN events : j < i
  <2>1. CASE events' = events
    BY <2>1 DEF Typed
  <2>2. CASE events' = Append(events, Delete(link)) /\ Delete(link) \in Event
    BY <2>2, Appended DEF Delete, Typed
  <2> QED  BY <1>2, <2>1, <2>2
<1>4. SendsAreAhead'
  BY <1>3 DEF SendsAreAhead
<1>5. clients # <<>>
  BY EmptySeq
<1>6. \A i \in DOMAIN events' : events'[i].kind # "link"
  BY <1>3, <1>5 DEF LinkIsFirst
<1>7. NewController'
  BY <1>3, <1>5 DEF NewController, Early
<1>8. InUse'
  BY <1>1, <1>2 DEF InUse, Early, Typed
<1>9. link' \in 0..Len(clients') /\ protocol' \in Protocols \cup {"none"}
      /\ connected' \in BOOLEAN
  BY <1>1, <1>2, NoLink DEF Typed
<1>10. Typed' /\ OwnProtocol' /\ LinkIsFirst'
  BY <1>1, <1>3, <1>6, <1>9 DEF Typed, LinkIsFirst, OwnProtocol
<1> QED  BY <1>4, <1>7, <1>8, <1>10

-----------------------------------------------------------------------------
(* The links: what m_connected says, and who is deleted *)

IsDelete(q, i, c) == i \in DOMAIN q /\ q[i].kind = "delete" /\ q[i].client = c

\* The deletions that wait in a queue are, once each, those of all clients that are not
\* deleted but the link; the link is the client that was made last
Deletions(q, l, cs) ==
    /\ \A i \in DOMAIN q : q[i].kind = "delete" => q[i].client \in 1..Len(cs) /\ q[i].client # l
    /\ \A i, j \in DOMAIN q :
          q[i].kind = "delete" /\ q[j].kind = "delete" /\ q[i].client = q[j].client => i = j
    /\ \A c \in 1..Len(cs) :
          cs[c].socket # "deleted" <=> (c = l \/ \E i \in DOMAIN q : IsDelete(q, i, c))
    /\ l # 0 => l = Len(cs)

\* The last change of the type that waits in a queue is to the type that is set, and
\* without one that type is current
NoChange(q) == \A i \in DOMAIN q : q[i].kind # "type"
Follows(q, current, set) ==
    /\ NoChange(q) => current = set
    /\ \A i \in DOMAIN q :
          q[i].kind = "type" /\ (\A j \in DOMAIN q : i < j => q[j].kind # "type") => q[i].type = set

\* A socket that is open is one of UDP, and one with a connection to make is one of TCP
Sockets ==
    \A c \in 1..Len(clients) :
        /\ clients[c].socket = "open" => clients[c].type \in UdpTypes
        /\ clients[c].socket \in {"connecting", "connected"} => clients[c].type \in TcpTypes

\* The constructor does its part of a connection before anything else can happen; from
\* then on m_connected goes with the protocol and, once a change of the type has been
\* handled, with a link that works
Members ==
    /\ changes \in Nat /\ crashed \in BOOLEAN
    /\ Early => changes = 0 /\ ~connected
    /\ mainPc = "protocol" => currentType = "CUSTOM_PROTOCOL"
    /\ mainPc # "protocol" /\ (Early \/ connected) => protocol # "none"
    /\ connected /\ changes > 0 /\ NoChange(events) =>
          link # 0 /\ clients[link].socket \in {"open", "connecting", "connected"}

LInv == /\ Sockets /\ Members
        /\ workerPc # "ended" => Deletions(events, link, clients)
        /\ workerPc # "ended" /\ mainPc # "protocol" => Follows(events, currentType, gimbalType)

\* What is in a queue without its first event, and what is not lost with it.
LEMMA QueueTail ==
    ASSUME NEW q \in Seq(Event), q # <<>>
    PROVE  /\ Tail(q) \in Seq(Event) /\ Head(q) = q[1] /\ 1 \in DOMAIN q /\ q[1] \in Event
           /\ \A i \in DOMAIN q : i \in Nat
           /\ \A i \in DOMAIN Tail(q) :
                 i \in Nat /\ i + 1 \in DOMAIN q /\ i + 1 # 1 /\ Tail(q)[i] = q[i + 1]
           /\ \A i \in DOMAIN q : i # 1 => i - 1 \in DOMAIN Tail(q) /\ Tail(q)[i - 1] = q[i]
<1> DEFINE t == Tail(q)
<1>1. /\ t \in Seq(Event) /\ Len(t) = Len(q) - 1 /\ Head(q) \in Event
      /\ \A i \in 1..Len(t) : t[i] = q[i + 1]
  BY HeadTailProperties
<1>2. /\ Len(q) \in Nat /\ Len(q) # 0 /\ DOMAIN q = 1..Len(q)
      /\ Head(q) = q[1] /\ DOMAIN t = 1..(Len(q) - 1)
  BY <1>1, EmptySeq
<1> HIDE DEF t
<1>3. \A i \in DOMAIN t : i \in Nat /\ i + 1 \in DOMAIN q /\ i + 1 # 1 /\ t[i] = q[i + 1]
  BY <1>1, <1>2
<1>4. \A i \in DOMAIN q : i # 1 => i - 1 \in DOMAIN t /\ t[i - 1] = q[i]
  <2> SUFFICES ASSUME NEW i \in DOMAIN q, i # 1 PROVE i - 1 \in DOMAIN t /\ t[i - 1] = q[i]
    OBVIOUS
  <2>1. i - 1 \in DOMAIN t /\ (i - 1) + 1 = i
    BY <1>2
  <2> QED  BY <1>1, <1>2, <2>1
<1> QED  BY <1>1, <1>2, <1>3, <1>4 DEF t

\* What is in a queue with one more event.
LEMMA QueueAppend ==
    ASSUME NEW q \in Seq(Event), NEW e \in Event
    PROVE  /\ Append(q, e) \in Seq(Event)
           /\ \A i \in DOMAIN q : i \in Nat /\ i \in DOMAIN Append(q, e) /\ Append(q, e)[i] = q[i]
           /\ \E k \in DOMAIN Append(q, e) :
                 /\ k \in Nat /\ k \notin DOMAIN q /\ Append(q, e)[k] = e
                 /\ \A i \in DOMAIN Append(q, e) : i = k \/ i \in DOMAIN q
                 /\ \A i \in DOMAIN q : i < k
<1>1. DOMAIN q = 1..Len(q) /\ Len(q) \in Nat
  OBVIOUS
<1>2. /\ Append(q, e) \in Seq(Event) /\ DOMAIN Append(q, e) = 1..(Len(q) + 1)
      /\ \A i \in 1..Len(q) : Append(q, e)[i] = q[i]
      /\ Append(q, e)[Len(q) + 1] = e
  BY AppendProperties
<1>3. /\ Len(q) + 1 \in DOMAIN Append(q, e) /\ Len(q) + 1 \in Nat /\ Len(q) + 1 \notin DOMAIN q
      /\ \A i \in DOMAIN Append(q, e) : i = Len(q) + 1 \/ i \in DOMAIN q
      /\ \A i \in DOMAIN q : i < Len(q) + 1
  BY <1>1, <1>2
<1> QED  BY <1>1, <1>2, <1>3

\* An event that deletes nobody may come and go.
LEMMA DeletionsStay ==
    ASSUME NEW q \in Seq(Event), NEW l, NEW cs, Deletions(q, l, cs)
    PROVE  /\ \A e \in Event : e.kind # "delete" => Deletions(Append(q, e), l, cs)
           /\ q # <<>> /\ Head(q).kind # "delete" => Deletions(Tail(q), l, cs)
<1>1. ASSUME NEW e \in Event, e.kind # "delete" PROVE Deletions(Append(q, e), l, cs)
  <2> DEFINE r == Append(q, e)
  <2>1. PICK k \in DOMAIN r : /\ k \notin DOMAIN q /\ r[k] = e
                              /\ \A i \in DOMAIN r : i = k \/ i \in DOMAIN q
    BY QueueAppend
  <2>2. \A i \in DOMAIN q : i \in DOMAIN r /\ r[i] = q[i]
    BY QueueAppend
  <2> HIDE DEF r
  <2>3. \A i \in DOMAIN r : r[i].kind = "delete" => i \in DOMAIN q /\ r[i] = q[i]
    BY <1>1, <2>1, <2>2
  <2>4. \A c : (\E i \in DOMAIN r : IsDelete(r, i, c)) <=> (\E i \in DOMAIN q : IsDelete(q, i, c))
    BY <2>2, <2>3 DEF IsDelete
  <2>5. \A i, j \in DOMAIN r :
           r[i].kind = "delete" /\ r[j].kind = "delete" /\ r[i].client = r[j].client => i = j
    BY <2>3 DEF Deletions
  <2>6. \A i \in DOMAIN r : r[i].kind = "delete" => r[i].client \in 1..Len(cs) /\ r[i].client # l
    BY <2>3 DEF Deletions
  <2> QED  BY <2>4, <2>5, <2>6 DEF Deletions, r
<1>2. ASSUME q # <<>>, Head(q).kind # "delete" PROVE Deletions(Tail(q), l, cs)
  <2> DEFINE t == Tail(q)
  <2>1. /\ q[1].kind # "delete"
        /\ \A i \in DOMAIN q : i \in Nat
        /\ \A i \in DOMAIN t : i \in Nat /\ i + 1 \in DOMAIN q /\ t[i] = q[i + 1]
        /\ \A i \in DOMAIN q : i # 1 => i - 1 \in DOMAIN t /\ t[i - 1] = q[i]
    BY <1>2, QueueTail
  <2> HIDE DEF t
  <2>2. \A c : (\E i \in DOMAIN t : IsDelete(t, i, c)) <=> (\E i \in DOMAIN q : IsDelete(q, i, c))
    BY <2>1 DEF IsDelete
  <2>3. \A i, j \in DOMAIN t :
           t[i].kind = "delete" /\ t[j].kind = "delete" /\ t[i].client = t[j].client => i = j
    <3> SUFFICES ASSUME NEW i \in DOMAIN t, NEW j \in DOMAIN t, t[i].kind = "delete",
                        t[j].kind = "delete", t[i].client = t[j].client
                 PROVE  i = j
      OBVIOUS
    <3>1. i + 1 = j + 1
      BY <2>1 DEF Deletions
    <3> QED  BY <2>1, <3>1
  <2>4. \A i \in DOMAIN t : t[i].kind = "delete" => t[i].client \in 1..Len(cs) /\ t[i].client # l
    BY <2>1 DEF Deletions
  <2> QED  BY <2>2, <2>3, <2>4 DEF Deletions, t
<1> QED  BY <1>1, <1>2

\* A link that is given up waits for its deletion.
LEMMA LinkGivenUp ==
    ASSUME NEW q \in Seq(Event), NEW cs \in Seq(Client), NEW l \in 1..Len(cs), Deletions(q, l, cs)
    PROVE  Deletions(Append(q, Delete(l)), 0, cs)
<1> DEFINE e == Delete(l)
           r == Append(q, e)
<1>1. e \in Event /\ e.kind = "delete" /\ e.client = l /\ l # 0
  BY DEF Delete, Event
<1> HIDE DEF e
<1>2. PICK k \in DOMAIN r : /\ k \notin DOMAIN q /\ r[k] = e
                            /\ \A i \in DOMAIN r : i = k \/ i \in DOMAIN q
  BY <1>1, QueueAppend
<1>3. \A i \in DOMAIN q : i \in DOMAIN r /\ r[i] = q[i]
  BY <1>1, QueueAppend
<1> HIDE DEF r
<1>4. \A i \in DOMAIN r : r[i].kind = "delete" => r[i].client \in 1..Len(cs) /\ r[i].client # 0
  <2>1. \A c \in 1..Len(cs) : c # 0
    OBVIOUS
  <2> QED  BY <1>1, <1>2, <1>3, <2>1 DEF Deletions
<1>5. \A i, j \in DOMAIN r :
         r[i].kind = "delete" /\ r[j].kind = "delete" /\ r[i].client = r[j].client => i = j
  BY <1>1, <1>2, <1>3 DEF Deletions
<1>6. \A c : (\E i \in DOMAIN r : IsDelete(r, i, c))
                <=> c = l \/ \E i \in DOMAIN q : IsDelete(q, i, c)
  BY <1>1, <1>2, <1>3 DEF IsDelete
<1>7. \A c \in 1..Len(cs) : c # 0
  OBVIOUS
<1> QED  BY <1>4, <1>5, <1>6, <1>7 DEF Deletions, e, r

\* A new client becomes the link where there was none.
LEMMA LinkMade ==
    ASSUME NEW q \in Seq(Event), NEW cs \in Seq(Client), NEW c \in Client,
           c.socket # "deleted", Deletions(q, 0, cs)
    PROVE  Deletions(q, Len(cs) + 1, Append(cs, c))
<1> DEFINE n == Len(cs) + 1
           ds == Append(cs, c)
<1>1. /\ Len(cs) \in Nat /\ n \in Nat /\ Len(ds) = n /\ ds[n] = c
      /\ \A k \in 1..Len(cs) : ds[k] = cs[k]
  BY AppendProperties
<1>2. 1..n = 1..Len(cs) \cup {n} /\ n \notin 1..Len(cs) /\ n # 0
  BY <1>1
<1> HIDE DEF n, ds
<1>3. \A i \in DOMAIN q : q[i].kind = "delete" => q[i].client \in 1..n /\ q[i].client # n
  BY <1>2 DEF Deletions
<1>4. \A k \in 1..n : ds[k].socket # "deleted" <=> (k = n \/ \E i \in DOMAIN q : IsDelete(q, i, k))
  <2>1. \A k \in 1..Len(cs) : k # 0 /\ k # n
    BY <1>2
  <2> QED  BY <1>1, <1>2, <2>1 DEF Deletions
<1> QED  BY <1>1, <1>3, <1>4 DEF Deletions, n, ds

\* A client whose deletion is carried out is deleted, and no other.
LEMMA DeletionDone ==
    ASSUME NEW q \in Seq(Event), q # <<>>, Head(q).kind = "delete", NEW cs \in Seq(Client), NEW l,
           Deletions(q, l, cs)
    PROVE  Deletions(Tail(q), l, [cs EXCEPT ![Head(q).client].socket = "deleted"])
<1> DEFINE t == Tail(q)
           d == q[1].client
           ds == [cs EXCEPT ![d].socket = "deleted"]
<1>1. /\ Head(q) = q[1] /\ q[1].kind = "delete" /\ 1 \in DOMAIN q
      /\ \A i \in DOMAIN q : i \in Nat
      /\ \A i \in DOMAIN t : i \in Nat /\ i + 1 \in DOMAIN q /\ i + 1 # 1 /\ t[i] = q[i + 1]
      /\ \A i \in DOMAIN q : i # 1 => i - 1 \in DOMAIN t /\ t[i - 1] = q[i]
  BY QueueTail
<1>2. d \in 1..Len(cs) /\ d # l
  BY <1>1 DEF Deletions
<1>3. /\ Len(ds) = Len(cs) /\ ds[d].socket = "deleted"
      /\ \A c \in 1..Len(cs) : c # d => ds[c] = cs[c]
  <2>1. DOMAIN cs = 1..Len(cs) /\ \A c \in 1..Len(cs) : cs[c] \in Client
    OBVIOUS
  <2>2. cs[d] \in Client
    BY <1>2, <2>1
  <2>3. DOMAIN ds = DOMAIN cs
    OBVIOUS
  <2>4. ds[d].socket = "deleted"
    BY <1>2, <2>1, <2>2 DEF Client
  <2>5. \A c \in 1..Len(cs) : ds[c] \in Client
    BY <1>2, <2>1, <2>2 DEF Client
  <2>6. ds \in Seq(Client) /\ Len(ds) = Len(cs)
    <3>1. ds = [c \in 1..Len(cs) |-> ds[c]]
      BY <2>1
    <3>2. ds \in [1..Len(cs) -> Client]
      BY <2>5, <3>1
    <3>3. Len(cs) \in Nat
      OBVIOUS
    <3> QED  BY <3>2, <3>3, SeqDef, LenProperties
  <2> QED  BY <1>2, <2>1, <2>4, <2>6
<1> HIDE DEF t, d, ds
<1>5. \A c : (\E i \in DOMAIN t : IsDelete(t, i, c))
                <=> c # d /\ \E i \in DOMAIN q : IsDelete(q, i, c)
  <2>1. ASSUME NEW c, NEW i \in DOMAIN t, IsDelete(t, i, c)
        PROVE  c # d /\ \E j \in DOMAIN q : IsDelete(q, j, c)
    <3>1. i + 1 \in DOMAIN q /\ q[i + 1].kind = "delete" /\ q[i + 1].client = c /\ i + 1 # 1
      BY <1>1, <2>1 DEF IsDelete
    <3> QED  BY <1>1, <3>1 DEF IsDelete, Deletions, d
  <2>2. ASSUME NEW c, c # d, NEW i \in DOMAIN q, IsDelete(q, i, c)
        PROVE  \E j \in DOMAIN t : IsDelete(t, j, c)
    <3>1. i # 1
      BY <2>2 DEF IsDelete, d
    <3>2. i - 1 \in DOMAIN t /\ t[i - 1] = q[i]
      BY <1>1, <3>1
    <3> QED  BY <2>2, <3>2 DEF IsDelete
  <2> QED  BY <2>1, <2>2
<1>6. \A i, j \in DOMAIN t :
         t[i].kind = "delete" /\ t[j].kind = "delete" /\ t[i].client = t[j].client => i = j
  <2> SUFFICES ASSUME NEW i \in DOMAIN t, NEW j \in DOMAIN t, t[i].kind = "delete",
                      t[j].kind = "delete", t[i].client = t[j].client
               PROVE  i = j
    OBVIOUS
  <2>1. /\ i + 1 \in DOMAIN q /\ q[i + 1].kind = "delete" /\ q[i + 1].client = t[i].client
        /\ j + 1 \in DOMAIN q /\ q[j + 1].kind = "delete" /\ q[j + 1].client = t[j].client
    BY <1>1
  <2>2. i + 1 = j + 1
    BY <2>1 DEF Deletions
  <2> QED  BY <1>1, <2>2
<1>7. ASSUME NEW i \in DOMAIN t, t[i].kind = "delete"
      PROVE  t[i].client \in 1..Len(ds) /\ t[i].client # l
  <2>1. i + 1 \in DOMAIN q /\ q[i + 1].kind = "delete" /\ q[i + 1].client = t[i].client
    BY <1>1, <1>7
  <2> QED  BY <1>3, <2>1 DEF Deletions
<1>8. \A c \in 1..Len(ds) :
         ds[c].socket # "deleted" <=> (c = l \/ \E i \in DOMAIN t : IsDelete(t, i, c))
  BY <1>2, <1>3, <1>5 DEF Deletions
<1> QED  BY <1>1, <1>3, <1>6, <1>7, <1>8 DEF Deletions, t, d, ds

\* What else happens to a socket is none of the deletions' business.
LEMMA SocketLives ==
    ASSUME NEW q, NEW l, NEW cs \in Seq(Client), NEW c \in 1..Len(cs), NEW ds,
           NEW s \in {"connected", "failed"}, cs[c].socket # "deleted",
           ds = [cs EXCEPT ![c].socket = s], Len(ds) = Len(cs), Deletions(q, l, cs)
    PROVE  Deletions(q, l, ds)
<1>1. \A k \in 1..Len(cs) : ds[k].socket # "deleted" <=> cs[k].socket # "deleted"
  <2>1. DOMAIN cs = 1..Len(cs) /\ \A k \in 1..Len(cs) : cs[k] \in Client
    OBVIOUS
  <2> QED  BY <2>1 DEF Client
<1> QED  BY <1>1 DEF Deletions

\* What is not a change of the type may come and go; a change that comes is the last.
LEMMA FollowsStays ==
    ASSUME NEW q \in Seq(Event), NEW current, NEW set, Follows(q, current, set)
    PROVE  /\ \A e \in Event : e.kind # "type" => Follows(Append(q, e), current, set)
           /\ \A e \in Event : e.kind = "type" => Follows(Append(q, e), current, e.type)
           /\ q # <<>> /\ Head(q).kind # "type" => Follows(Tail(q), current, set)
           /\ q # <<>> /\ Head(q).kind = "type" => Follows(Tail(q), Head(q).type, set)
<1>1. ASSUME NEW e \in Event
      PROVE  /\ e.kind # "type" => Follows(Append(q, e), current, set)
             /\ e.kind = "type" => Follows(Append(q, e), current, e.type)
  <2> DEFINE r == Append(q, e)
  <2>1. PICK k \in DOMAIN r : /\ k \notin DOMAIN q /\ r[k] = e
                              /\ \A i \in DOMAIN r : i = k \/ i \in DOMAIN q
                              /\ \A i \in DOMAIN q : i < k
    BY QueueAppend
  <2>2. \A i \in DOMAIN q : i \in DOMAIN r /\ r[i] = q[i]
    BY QueueAppend
  <2> HIDE DEF r
  <2>3. CASE e.kind # "type"
    <3>1. NoChange(r) => NoChange(q)
      BY <2>2 DEF NoChange
    <3>2. ASSUME NEW i \in DOMAIN r, r[i].kind = "type",
                 \A j \in DOMAIN r : i < j => r[j].kind # "type"
          PROVE  r[i].type = set
      BY <2>1, <2>2, <2>3, <3>2 DEF Follows
    <3>3. Follows(r, current, set)
      BY <3>1, <3>2 DEF Follows
    <3> QED  BY <2>3, <3>3 DEF r
  <2>4. CASE e.kind = "type"
    <3>1. ~NoChange(r)
      BY <2>1, <2>4 DEF NoChange
    <3>2. ASSUME NEW i \in DOMAIN r, r[i].kind = "type",
                 \A j \in DOMAIN r : i < j => r[j].kind # "type"
          PROVE  r[i].type = e.type
      BY <2>1, <2>2, <2>4, <3>2
    <3>3. Follows(r, current, e.type)
      BY <3>1, <3>2 DEF Follows
    <3> QED  BY <2>4, <3>3 DEF r
  <2> QED  BY <2>3, <2>4
<1>2. ASSUME q # <<>>
      PROVE  /\ Head(q).kind # "type" => Follows(Tail(q), current, set)
             /\ Head(q).kind = "type" => Follows(Tail(q), Head(q).type, set)
  <2> DEFINE t == Tail(q)
  <2>1. /\ Head(q) = q[1] /\ 1 \in DOMAIN q
        /\ \A i \in DOMAIN q : i \in Nat
        /\ \A i \in DOMAIN t : i \in Nat /\ i + 1 \in DOMAIN q /\ t[i] = q[i + 1]
        /\ \A i \in DOMAIN q : i # 1 => i - 1 \in DOMAIN t /\ t[i - 1] = q[i]
    BY <1>2, QueueTail
  <2> HIDE DEF t
  <2>2. NoChange(t) => \A i \in DOMAIN q : i # 1 => q[i].kind # "type"
    BY <2>1 DEF NoChange
  <2>3. ASSUME NEW i \in DOMAIN t, t[i].kind = "type",
               \A j \in DOMAIN t : i < j => t[j].kind # "type"
        PROVE  t[i].type = set
    <3>1. i + 1 \in DOMAIN q /\ q[i + 1] = t[i]
      BY <2>1
    <3>2. ASSUME NEW j \in DOMAIN q, i + 1 < j PROVE q[j].kind # "type"
      <4>1. j # 1 /\ i < j - 1
        BY <2>1, <3>2
      <4>2. j - 1 \in DOMAIN t /\ t[j - 1] = q[j]
        BY <2>1, <4>1
      <4> QED  BY <2>3, <4>1, <4>2
    <3> QED  BY <2>3, <3>1, <3>2 DEF Follows
  <2>4. CASE Head(q).kind # "type"
    <3>1. NoChange(t) => NoChange(q)
      BY <2>1, <2>2, <2>4 DEF NoChange
    <3>2. Follows(t, current, set)
      BY <2>3, <3>1 DEF Follows
    <3> QED  BY <2>4, <3>2 DEF t
  <2>5. CASE Head(q).kind = "type"
    <3>1. NoChange(t) => q[1].type = set
      <4> SUFFICES ASSUME NoChange(t) PROVE q[1].type = set
        OBVIOUS
      <4>1. \A j \in DOMAIN q : 1 < j => q[j].kind # "type"
        BY <2>1, <2>2
      <4> QED  BY <2>1, <2>5, <4>1 DEF Follows
    <3>2. Follows(t, q[1].type, set)
      BY <2>3, <3>1 DEF Follows
    <3> QED  BY <2>1, <2>5, <3>2 DEF t
  <2> QED  BY <2>4, <2>5
<1> QED  BY <1>1, <1>2

\* The constructor's first step is for the type that is set; nothing waits and nobody is
\* connected.
LEMMA CreateProtocolLinks == ASSUME IInv, LInv, CreateProtocol PROVE LInv'
<1> USE DEF IInv, LInv, CreateProtocol
<1>1. events = <<>> /\ DOMAIN events = {} /\ ProtocolOf(gimbalType) # "none"
  BY EmptySeq DEF NewController, ProtocolOf
<1>2. Members' /\ Sockets'
  BY DEF Members, Sockets, Early, Typed, ProtocolOf
<1>3. Follows(events', currentType', gimbalType')
  BY <1>1 DEF Follows
<1> QED  BY <1>2, <1>3

\* initLink changes no type and deletes nobody.
LEMMA EmitInitLinkLinks == ASSUME IInv, LInv, EmitInitLink PROVE LInv'
<1> USE DEF IInv, LInv, EmitInitLink
<1>1. Members' /\ Sockets'
  BY DEF Members, Sockets, Early, Typed
<1>2. CASE workerPc = "off"
  BY <1>1, <1>2
<1>3. CASE workerPc # "off"
  <2>1. InitLink(gimbalType) \in Event /\ InitLink(gimbalType).kind = "link"
    BY DEF InitLink, Event, Typed
  <2>2. events' = Append(events, InitLink(gimbalType)) /\ events \in Seq(Event)
    BY <1>3 DEF Typed
  <2>3. workerPc' # "ended" => Deletions(events', link', clients')
    BY <2>1, <2>2, DeletionsStay
  <2>4. workerPc' # "ended" => Follows(events', currentType', gimbalType')
    BY <2>1, <2>2, FollowsStays
  <2> QED  BY <1>1, <2>3, <2>4
<1> QED  BY <1>2, <1>3

\* The type has not been changed when the constructor says it is connected.
LEMMA MarkConnectedLinks == ASSUME IInv, LInv, MarkConnected PROVE LInv'
  BY DEF IInv, LInv, MarkConnected, Members, Sockets, Early, Typed

\* The change that is queued last is to the type that is set.
LEMMA ChangeTypeLinks == ASSUME IInv, LInv, NEW type \in Types, ChangeType(type) PROVE LInv'
<1> USE DEF IInv, LInv, ChangeType
<1>1. TypeChange(type) \in Event /\ TypeChange(type).kind = "type" /\ TypeChange(type).type = type
  BY DEF TypeChange, Event
<1>2. events' = Append(events, TypeChange(type)) /\ events \in Seq(Event)
  BY DEF Typed
<1>3. workerPc' # "ended" => Deletions(events', link', clients')
  BY <1>1, <1>2, DeletionsStay
<1>4. workerPc' # "ended" => Follows(events', currentType', gimbalType')
  BY <1>1, <1>2, FollowsStays
<1>5. ~NoChange(events')
  BY <1>1, <1>2, QueueAppend DEF NoChange
<1>6. changes' \in Nat
  BY DEF Members
<1>7. Members' /\ Sockets'
  BY <1>5, <1>6 DEF Members, Sockets, Early
<1> QED  BY <1>3, <1>4, <1>7

\* A command changes no type and deletes nobody.
LEMMA CommandLinks == ASSUME IInv, LInv, TestCommand \/ BuildCommand PROVE LInv'
<1> USE DEF IInv, LInv, TestCommand, BuildCommand
<1>1. mainPc \in {"idle", "build"} /\ mainPc' \in {"idle", "build"} /\ workerPc' = workerPc
      /\ UNCHANGED <<gimbalType, member, clients, changes>> /\ crashed' \in BOOLEAN
  BY DEF Members
<1>2. CASE UNCHANGED events
  BY <1>1, <1>2 DEF Members, Sockets, Early
<1>3. CASE protocol # "none" /\ events' = Append(events, SendCommand(protocol, Changing))
  <2> DEFINE e == SendCommand(protocol, Changing)
  <2>1. e \in Event /\ e.kind = "send"
    <3>1. protocol \in Protocols /\ Changing \in BOOLEAN
      BY <1>3 DEF Typed, Changing
    <3> QED  BY <3>1 DEF SendCommand, Event
  <2> HIDE DEF e
  <2>2. events' = Append(events, e) /\ events \in Seq(Event)
    BY <1>3 DEF Typed, e
  <2>3. workerPc' # "ended" => Deletions(events', link', clients')
    BY <1>1, <2>1, <2>2, DeletionsStay
  <2>4. workerPc' # "ended" => Follows(events', currentType', gimbalType')
    BY <1>1, <2>1, <2>2, FollowsStays
  <2>5. NoChange(events') => NoChange(events)
    BY <2>1, <2>2, QueueAppend DEF NoChange
  <2>6. Members' /\ Sockets'
    BY <1>1, <2>5 DEF Members, Sockets, Early
  <2> QED  BY <2>3, <2>4, <2>6
<1> QED  BY <1>2, <1>3

\* The end of the main thread changes no member.
LEMMA DestroyLinks == ASSUME IInv, LInv, Destroy PROVE LInv'
  BY DEF IInv, LInv, Destroy, Members, Sockets, Early

\* Nor does the start of the worker.
LEMMA StartLinks == ASSUME IInv, LInv, Start PROVE LInv'
  BY DEF IInv, LInv, Start, Members, Sockets, Early

\* A new client has a socket of its kind, and its predecessors keep theirs.
LEMMA NewSocket ==
    ASSUME clients \in Seq(Client), Sockets, NEW t \in Types, InitClient(t)
    PROVE  /\ Sockets' /\ NewClient(t) \in Client /\ NewClient(t).socket \in {"open", "connecting"}
           /\ clients'[link'] = NewClient(t) /\ link' # 0
           /\ clients' = Append(clients, NewClient(t)) /\ link' = Len(clients) + 1
<1>1. /\ NewClient(t) \in Client /\ NewClient(t).socket \in {"open", "connecting"}
      /\ NewClient(t).socket = "open" => t \in UdpTypes
      /\ NewClient(t).socket = "connecting" => t \in TcpTypes
      /\ NewClient(t).type = t
  BY DEF NewClient, Client, Types
<1>2. /\ Len(clients) \in Nat /\ Len(clients') = Len(clients) + 1
      /\ clients'[Len(clients) + 1] = NewClient(t)
      /\ \A k \in 1..Len(clients) : clients'[k] = clients[k]
  BY <1>1, AppendProperties DEF InitClient
<1>3. \A k \in 1..Len(clients') : k \in 1..Len(clients) \/ k = Len(clients) + 1
  BY <1>2
<1>4. Sockets'
  BY <1>1, <1>2, <1>3 DEF Sockets
<1> QED  BY <1>1, <1>2, <1>4 DEF InitClient

\* There was no link before the first one.
LEMMA HandleInitLinkLinks == ASSUME IInv, LInv, HandleInitLink PROVE LInv'
<1> USE DEF IInv, LInv, HandleInitLink
<1>1. /\ Head(events) = events[1] /\ 1 \in DOMAIN events /\ events[1] \in Event
      /\ events \in Seq(Event) /\ clients \in Seq(Client)
  BY QueueTail DEF Typed
<1>2. /\ events[1].kind = "link" /\ events[1].type = currentType /\ clients = <<>>
      /\ mainPc \notin {"protocol", "emit"} /\ currentType \in Types
  BY <1>1, EmptySeq DEF LinkIsFirst, NewController, Typed
<1>3. link = 0
  BY <1>2, EmptySeq DEF Typed
<1>4. /\ Sockets' /\ NewClient(currentType) \in Client
      /\ NewClient(currentType).socket \in {"open", "connecting"}
      /\ clients'[link'] = NewClient(currentType) /\ link' # 0
      /\ clients' = Append(clients, NewClient(currentType)) /\ link' = Len(clients) + 1
  BY <1>1, <1>2, NewSocket
<1>5. events' = Tail(events)
  BY <1>3
<1>6. Deletions(events', link, clients)
  BY <1>1, <1>2, <1>5, DeletionsStay
<1>7. Deletions(events', link', clients')
  BY <1>1, <1>3, <1>4, <1>6, LinkMade, QueueTail, <1>5
<1>8. Follows(events', currentType', gimbalType')
  BY <1>1, <1>2, <1>5, FollowsStays
<1>9. Members'
  BY <1>2, <1>4 DEF Members, Early
<1> QED  BY <1>4, <1>7, <1>8, <1>9

\* A link that is disconnected waits for its deletion, if there is one.
LEMMA Disconnected ==
    ASSUME NEW rest \in Seq(Event), NEW cs \in Seq(Client), link \in 0..Len(cs),
           Deletions(rest, link, cs), Disconnect(rest)
    PROVE  /\ Deletions(events', link', cs)
           /\ connected' = FALSE \/ UNCHANGED <<connected, link, protocol>>
           /\ link' = link \/ link' = 0
           /\ connected' => connected
<1>1. CASE ~connected
  BY <1>1 DEF Disconnect
<1>2. CASE connected /\ link = 0
  BY <1>2 DEF Disconnect
<1>3. CASE connected /\ link # 0
  <2>1. link \in 1..Len(cs)
    BY <1>3
  <2>2. Deletions(Append(rest, Delete(link)), 0, cs)
    BY <2>1, LinkGivenUp
  <2> QED  BY <1>3, <2>2 DEF Disconnect
<1> QED  BY <1>1, <1>2, <1>3

\* The deletion of a link is no change of the type.
LEMMA DisconnectedType ==
    ASSUME NEW rest \in Seq(Event), link \in Nat, NEW current, NEW set,
           Follows(rest, current, set), Disconnect(rest)
    PROVE  /\ Follows(events', current, set)
           /\ NoChange(events') => NoChange(rest)
<1>1. CASE events' = rest
  BY <1>1
<1>2. CASE events' = Append(rest, Delete(link))
  <2>1. Delete(link) \in Event /\ Delete(link).kind = "delete"
    BY DEF Delete, Event
  <2>2. Follows(events', current, set)
    BY <1>2, <2>1, FollowsStays
  <2>3. NoChange(events') => NoChange(rest)
    BY <1>2, <2>1, QueueAppend DEF NoChange
  <2> QED  BY <2>2, <2>3
<1> QED  BY <1>1, <1>2 DEF Disconnect

\* A change of the type disconnects, whether or not there is a link.
LEMMA HandleTypeChangeLinks == ASSUME IInv, LInv, HandleTypeChange PROVE LInv'
<1> USE DEF IInv, LInv, HandleTypeChange
<1>1. /\ Head(events) = events[1] /\ 1 \in DOMAIN events /\ events[1] \in Event
      /\ Tail(events) \in Seq(Event)
      /\ events \in Seq(Event) /\ clients \in Seq(Client) /\ link \in 0..Len(clients)
  BY QueueTail DEF Typed
<1>2. link \in Nat
  BY <1>1
<1>3. ~Early
  BY <1>1 DEF NewController
<1>4. mainPc # "protocol"
  BY <1>3 DEF Early
<1>5. Deletions(Tail(events), link, clients) /\ Follows(Tail(events), Head(events).type, gimbalType)
  BY <1>1, <1>4, DeletionsStay, FollowsStays
<1>6. Deletions(events', link', clients')
  BY <1>1, <1>5, Disconnected
<1>7. Follows(events', currentType', gimbalType')
  BY <1>1, <1>2, <1>5, DisconnectedType
<1>8. connected' = FALSE
  BY DEF Disconnect, Typed
<1>9. Members' /\ Sockets'
  BY <1>3, <1>4, <1>8 DEF Members, Sockets, Early
<1> QED  BY <1>6, <1>7, <1>9

\* The new link is the only one, because the old one was given up before.
LEMMA ConnectLinks == ASSUME IInv, LInv, Connect PROVE LInv'
<1> USE DEF IInv, LInv, Connect
<1>1. ~Early /\ currentType \in Types /\ mainPc # "protocol"
  BY DEF NewController, Early, Typed
<1>2. link = 0 /\ events \in Seq(Event) /\ clients \in Seq(Client)
  BY <1>1 DEF InUse, Typed
<1>3. /\ Sockets' /\ NewClient(currentType) \in Client
      /\ NewClient(currentType).socket \in {"open", "connecting"}
      /\ clients'[link'] = NewClient(currentType) /\ link' # 0
      /\ clients' = Append(clients, NewClient(currentType)) /\ link' = Len(clients) + 1
  BY <1>1, <1>2, NewSocket
<1>4. Deletions(events', link', clients')
  BY <1>2, <1>3, LinkMade
<1>5. protocol' # "none"
  BY DEF ProtocolOf
<1>6. Members'
  BY <1>1, <1>3, <1>5 DEF Members, Early
<1> QED  BY <1>1, <1>3, <1>4, <1>6

\* A command that is sent leaves members and clients.
LEMMA HandleSendLinks == ASSUME IInv, LInv, HandleSend PROVE LInv'
<1> USE DEF IInv, LInv, HandleSend
<1>1. /\ Head(events) = events[1] /\ 1 \in DOMAIN events /\ events \in Seq(Event)
      /\ Head(events).kind = "send"
  BY QueueTail DEF Typed
<1>2. ~Early /\ mainPc # "protocol"
  BY <1>1 DEF NewController, Early
<1>3. Deletions(events', link', clients') /\ Follows(events', currentType', gimbalType')
  BY <1>1, <1>2, DeletionsStay, FollowsStays
<1>4. NoChange(events') => NoChange(events)
  <2> SUFFICES ASSUME NoChange(events'), NEW i \in DOMAIN events PROVE events[i].kind # "type"
    BY DEF NoChange
  <2>1. i # 1 => i - 1 \in DOMAIN events' /\ events'[i - 1] = events[i]
    BY <1>1, QueueTail
  <2> QED  BY <1>1, <2>1 DEF NoChange
<1>5. Members' /\ Sockets'
  BY <1>4 DEF Members, Sockets, Early
<1> QED  BY <1>3, <1>5

\* The client that is deleted is not the link, but its end may disconnect the link.
LEMMA HandleDeleteLinks == ASSUME IInv, LInv, HandleDelete PROVE LInv'
<1> USE DEF IInv, LInv, HandleDelete
<1> DEFINE d == Head(events).client
<1>1. /\ Head(events) = events[1] /\ 1 \in DOMAIN events /\ events \in Seq(Event)
      /\ Tail(events) \in Seq(Event) /\ clients \in Seq(Client) /\ link \in 0..Len(clients)
      /\ Head(events).kind = "delete"
  BY QueueTail DEF Typed
<1>2. d \in 1..Len(clients) /\ d # link /\ link \in Nat
      /\ (link # 0 => link \in 1..Len(clients))
  BY <1>1 DEF Deletions
<1>3. /\ clients' \in Seq(Client) /\ Len(clients') = Len(clients)
      /\ \A c \in 1..Len(clients) : clients'[c].type = clients[c].type
  BY <1>1, SocketChanged
<1>4. clients'[d].socket = "deleted" /\ \A c \in 1..Len(clients) : c # d => clients'[c] = clients[c]
  <2>1. DOMAIN clients = 1..Len(clients) /\ clients[d] \in Client
    BY <1>1, <1>2
  <2> QED  BY <1>2, <2>1 DEF Client
<1>5. Deletions(Tail(events), link, clients')
  BY <1>1, DeletionDone
<1>6. mainPc # "protocol"
  BY <1>1 DEF NewController
<1>7. Follows(Tail(events), currentType, gimbalType)
  BY <1>1, <1>6, FollowsStays
<1>8. NoChange(Tail(events)) => NoChange(events)
  <2> SUFFICES ASSUME NoChange(Tail(events)), NEW i \in DOMAIN events PROVE events[i].kind # "type"
    BY DEF NoChange
  <2>1. i # 1 => i - 1 \in DOMAIN Tail(events) /\ Tail(events)[i - 1] = events[i]
    BY <1>1, QueueTail
  <2> QED  BY <1>1, <2>1 DEF NoChange
<1>9. Sockets'
  BY <1>3, <1>4 DEF Sockets
<1> HIDE DEF d
<1>10. CASE Disconnect(Tail(events))
  <2>1. Deletions(events', link', clients')
    BY <1>1, <1>3, <1>5, <1>10, Disconnected
  <2>2. /\ Follows(events', currentType', gimbalType')
        /\ NoChange(events') => NoChange(Tail(events))
    BY <1>1, <1>2, <1>7, <1>10, DisconnectedType
  <2>3. connected' = FALSE \/ UNCHANGED <<connected, link, protocol>>
    BY <1>10 DEF Disconnect
  <2>4. link # 0 => clients'[link] = clients[link]
    BY <1>2, <1>4
  <2>5. Members'
    BY <1>6, <1>8, <1>10, <2>2, <2>3, <2>4 DEF Members, Early, Disconnect
  <2> QED  BY <1>9, <2>1, <2>2, <2>5
<1>11. CASE events' = Tail(events) /\ UNCHANGED <<connected, link, protocol>>
  <2>1. link # 0 => clients'[link] = clients[link]
    BY <1>2, <1>4
  <2>2. Members'
    BY <1>6, <1>8, <1>11, <2>1 DEF Members, Early
  <2> QED  BY <1>5, <1>7, <1>9, <1>11, <2>2
<1> QED  BY <1>10, <1>11 DEF CloseSocket

\* Nothing of it is claimed of a worker that has ended.
LEMMA FinishLinks == ASSUME IInv, LInv, Finish PROVE LInv'
<1> USE DEF IInv, LInv
<1>1. /\ Len(clients') = Len(clients)
      /\ \A c \in 1..Len(clients) :
            /\ clients'[c].type = clients[c].type
            /\ clients'[c].socket = clients[c].socket \/ clients'[c].socket = "deleted"
  BY ClientsEnded DEF Typed
<1>2. Sockets'
  BY <1>1 DEF Sockets
<1>3. Members'
  BY DEF Members, Early, Finish
<1> QED  BY <1>2, <1>3 DEF Finish

\* Only the link is polled, because nobody else waits to be deleted then.
LEMMA OnlyTheLink ==
    ASSUME IInv, LInv, Polling, NEW c \in DOMAIN clients, clients[c].socket # "deleted"
    PROVE  c = link /\ c \in 1..Len(clients)
<1>1. DOMAIN clients = 1..Len(clients) /\ DOMAIN events = 1..Len(events)
  BY DEF IInv, Typed
<1>2. \A i \in DOMAIN events : ~IsDelete(events, i, c)
  BY <1>1 DEF Polling, IsDelete
<1> QED  BY <1>1, <1>2 DEF LInv, Polling, Deletions

\* A TCP link that gets its connection is not deleted.
LEMMA SocketConnectedLinks ==
    ASSUME IInv, LInv, NEW c \in DOMAIN clients, SocketConnected(c) PROVE LInv'
<1> USE DEF IInv, LInv, SocketConnected
<1>1. /\ clients \in Seq(Client) /\ DOMAIN clients = 1..Len(clients)
      /\ clients' \in Seq(Client) /\ Len(clients') = Len(clients)
      /\ \A k \in 1..Len(clients) : clients'[k].type = clients[k].type
  <2>1. clients \in Seq(Client)
    BY DEF Typed
  <2>2. DOMAIN clients = 1..Len(clients)
    BY <2>1
  <2>3. clients' = [clients EXCEPT ![c].socket = "connected"]
    OBVIOUS
  <2>4. /\ clients' \in Seq(Client) /\ Len(clients') = Len(clients)
        /\ \A k \in 1..Len(clients) : clients'[k].type = clients[k].type
    BY <2>1, <2>3, SocketChanged
  <2> QED  BY <2>1, <2>2, <2>4 DEF Typed
<1>2. clients'[c].socket = "connected" /\ \A k \in 1..Len(clients) : k # c => clients'[k] = clients[k]
  <2>1. clients[c] \in Client
    BY <1>1
  <2> QED  BY <1>1, <2>1 DEF Client
<1>3. Deletions(events', link', clients')
  <2>1. /\ Deletions(events, link, clients) /\ c \in 1..Len(clients)
        /\ clients[c].socket # "deleted" /\ clients' = [clients EXCEPT ![c].socket = "connected"]
    BY <1>1 DEF Polling
  <2>2. Deletions(events, link, clients')
    BY <1>1, <2>1, SocketLives
  <2> QED  BY <2>2
<1>4. Sockets'
  BY <1>1, <1>2 DEF Sockets
<1>5. Members'
  <2>1. link # 0 => link \in 1..Len(clients)
    BY <1>1 DEF Typed
  <2> QED  BY <1>2, <2>1 DEF Members, Early
<1> QED  BY <1>3, <1>4, <1>5

\* A TCP link that fails waits for its deletion, unless the constructor has not said yet
\* that it is connected.
LEMMA SocketFailsLinks == ASSUME IInv, LInv, NEW c \in DOMAIN clients, SocketFails(c) PROVE LInv'
<1> USE DEF IInv, LInv, SocketFails
<1>1. /\ clients \in Seq(Client) /\ DOMAIN clients = 1..Len(clients)
      /\ clients' \in Seq(Client) /\ Len(clients') = Len(clients)
      /\ \A k \in 1..Len(clients) : clients'[k].type = clients[k].type
      /\ events \in Seq(Event) /\ link \in 0..Len(clients)
  <2>1. clients \in Seq(Client)
    BY DEF Typed
  <2>2. DOMAIN clients = 1..Len(clients)
    BY <2>1
  <2>3. clients' = [clients EXCEPT ![c].socket = "failed"]
    OBVIOUS
  <2>4. /\ clients' \in Seq(Client) /\ Len(clients') = Len(clients)
        /\ \A k \in 1..Len(clients) : clients'[k].type = clients[k].type
    BY <2>1, <2>3, SocketChanged
  <2> QED  BY <2>1, <2>2, <2>4 DEF Typed
<1>2. clients'[c].socket = "failed" /\ \A k \in 1..Len(clients) : k # c => clients'[k] = clients[k]
  <2>1. clients[c] \in Client
    BY <1>1
  <2> QED  BY <1>1, <2>1 DEF Client
<1>3. Deletions(events, link, clients')
  <2>1. /\ Deletions(events, link, clients) /\ c \in 1..Len(clients)
        /\ clients[c].socket # "deleted" /\ clients' = [clients EXCEPT ![c].socket = "failed"]
    BY <1>1 DEF Polling
  <2>2. Deletions(events, link, clients')
    BY <1>1, <2>1, SocketLives
  <2> QED  BY <2>2
<1>4. Deletions(events', link', clients')
  BY <1>1, <1>3, Disconnected
<1>5. mainPc # "protocol" => Follows(events', currentType', gimbalType')
  <2>1. link \in Nat
    BY <1>1
  <2> QED  BY <1>1, <2>1, DisconnectedType DEF Polling
<1>6. Sockets'
  BY <1>1, <1>2 DEF Sockets
<1>7. connected' = FALSE
  BY DEF Disconnect, Typed
<1>8. mainPc # "protocol"
  BY <1>1, EmptySeq DEF NewController
<1>9. Members'
  BY <1>7, <1>8 DEF Members, Early, Disconnect
<1> QED  BY <1>4, <1>5, <1>6, <1>9

-----------------------------------------------------------------------------
(* Theorems *)

\* What is queued, in use and current agrees in every behaviour.
LEMMA Consistent == Spec => []IInv
<1>1. Init => IInv
  <2> SUFFICES ASSUME Init PROVE IInv
    OBVIOUS
  <2>1. /\ DOMAIN events = {} /\ events \in Seq(Event)
        /\ clients \in Seq(Client) /\ Len(clients) = 0
    BY EmptySeq DEF Init
  <2>2. Typed
    <3>1. link \in 0..Len(clients)
      BY <2>1, NoLink DEF Init
    <3> QED  BY <2>1, <3>1 DEF Init, Typed
  <2> QED
    BY <2>1, <2>2 DEF Init, IInv, NewController, Early, LinkIsFirst, InUse, SendsAreAhead,
       OwnProtocol
<1>2. IInv /\ [Next]_vars => IInv'
  <2> SUFFICES ASSUME IInv, [Next]_vars PROVE IInv'
    OBVIOUS
  <2>1. CASE Main
    BY <2>1, CreateProtocolKeeps, EmitInitLinkKeeps, MarkConnectedKeeps, TestCommandKeeps,
       BuildCommandKeeps, DestroyKeeps, ChangeTypeKeeps DEF Main
  <2>2. CASE Worker
    BY <2>2, StartKeeps, HandleInitLinkKeeps, HandleTypeChangeKeeps, ConnectKeeps, HandleSendKeeps,
       HandleDeleteKeeps, FinishKeeps DEF Worker
  <2>3. CASE Network
    BY <2>3, SocketConnectedKeeps, SocketFailsKeeps DEF Network
  <2>4. CASE UNCHANGED vars
    BY <2>4 DEF vars, IInv, Typed, NewController, Early, LinkIsFirst, InUse, SendsAreAhead,
       OwnProtocol
  <2> QED  BY <2>1, <2>2, <2>3, <2>4 DEF Next
<1> QED  BY <1>1, <1>2, PTL DEF Spec

\* Deletions, changes that wait, m_connected and the sockets agree in every behaviour.
LEMMA LinksAgree == Spec => []LInv
<1>1. Init => LInv
  <2> SUFFICES ASSUME Init PROVE LInv
    OBVIOUS
  <2>1. DOMAIN events = {} /\ Len(clients) = 0 /\ 1..Len(clients) = {}
    BY EmptySeq DEF Init
  <2> QED  BY <2>1 DEF Init, LInv, Sockets, Members, Early, Deletions
<1>2. IInv /\ LInv /\ [Next]_vars => LInv'
  <2> SUFFICES ASSUME IInv, LInv, [Next]_vars PROVE LInv'
    OBVIOUS
  <2>1. CASE Main
    BY <2>1, CreateProtocolLinks, EmitInitLinkLinks, MarkConnectedLinks, CommandLinks,
       DestroyLinks, ChangeTypeLinks DEF Main
  <2>2. CASE Worker
    BY <2>2, StartLinks, HandleInitLinkLinks, HandleTypeChangeLinks, ConnectLinks, HandleSendLinks,
       HandleDeleteLinks, FinishLinks DEF Worker
  <2>3. CASE Network
    BY <2>3, SocketConnectedLinks, SocketFailsLinks DEF Network
  <2>4. CASE UNCHANGED vars
    BY <2>4 DEF vars, LInv, Sockets, Members, Early
  <2> QED  BY <2>1, <2>2, <2>3, <2>4 DEF Next
<1> QED  BY <1>1, <1>2, Consistent, PTL DEF Spec

\* In every behaviour the bytes that reach a gimbal are in its own protocol, unless its type
\* was being changed when the command was given.
THEOREM BytesAreOwn == Spec => []OwnProtocol
<1>1. IInv => OwnProtocol
  BY DEF IInv
<1> QED  BY <1>1, Consistent, PTL

\* Whenever the worker rests, m_connected means a live client of the type that was set and
\* its protocol, once the type has been changed; and the client in use is the only one that
\* is not deleted.
THEOREM OneLinkOfTheType == Spec => []Inv
<1>1. IInv /\ LInv => Inv
  <2> SUFFICES ASSUME IInv, LInv PROVE Inv
    OBVIOUS
  <2>1. TypeOK
    <3>1. \A c \in DOMAIN clients : c \in 1..Len(clients) /\ clients[c] \in Client
      BY DEF IInv, Typed
    <3>2. \A i \in DOMAIN events : events[i].kind \in {"type", "link", "send", "delete"}
      BY DEF IInv, Typed, Event
    <3>3. \A c \in DOMAIN clients :
             /\ clients[c].type \in Types
             /\ clients[c].socket \in {"open", "connecting", "connected", "failed", "deleted"}
             /\ clients[c].socket = "open" => clients[c].type \in UdpTypes
      BY <3>1 DEF LInv, Sockets, Client
    <3>4. currentType \in Types \cup {"CUSTOM_PROTOCOL"}
      BY DEF IInv, Typed, LInv, Members
    <3> QED  BY <3>2, <3>3, <3>4 DEF IInv, Typed, LInv, Members, Protocols, TypeOK
  <2>2. ASSUME Quiet PROVE DOMAIN events = {} /\ workerPc # "ended" /\ ~Early
    BY <2>2, EmptySeq DEF Quiet, Early
  <2>3. ConnectedHasLink
    <3> SUFFICES ASSUME Quiet, connected, changes > 0
                 PROVE  /\ link # 0 /\ clients[link].type = gimbalType
                        /\ clients[link].socket \in {"open", "connecting", "connected"}
                        /\ protocol = ProtocolOf(gimbalType) /\ currentType = gimbalType
      BY DEF ConnectedHasLink
    <3>1. currentType = gimbalType /\ NoChange(events)
      BY <2>2 DEF LInv, Follows, NoChange, Early
    <3> QED  BY <2>2, <3>1 DEF LInv, Members, IInv, InUse, Early
  <2>4. OneLiveClient
    <3>1. DOMAIN clients = 1..Len(clients)
      BY DEF IInv, Typed
    <3> QED  BY <2>2, <3>1 DEF LInv, Deletions, OneLiveClient
  <2> QED  BY <2>1, <2>3, <2>4 DEF Inv
<1> QED  BY <1>1, Consistent, LinksAgree, PTL

\* The link of a UDP gimbal is lost only to the deletion of a TCP client that was replaced
\* before it.
THEOREM UdpLinkIsKept == Spec => UdpLinkKept
<1> DEFINE Lost == connected /\ ~connected' /\ workerPc' = "loop" /\ link # 0
                   /\ clients[link].type \in UdpTypes
           Replaced == /\ events # <<>> /\ Head(events).kind = "delete"
                       /\ Head(events).client < link
                       /\ clients[Head(events).client].type \in TcpTypes
<1>1. ASSUME IInv, LInv, Next, Lost PROVE Replaced
  <2>1. link \in 1..Len(clients) /\ DOMAIN clients = 1..Len(clients)
    BY <1>1 DEF IInv, Typed
  <2>2. CASE HandleDelete
    <3>1. CloseSocket(Head(events).client, Tail(events))
          /\ Head(events).kind = "delete" /\ events # <<>> /\ workerPc # "ended"
      BY <2>2 DEF HandleDelete
    <3>2. Head(events) = events[1] /\ 1 \in DOMAIN events
      BY <1>1, <3>1, QueueTail DEF IInv, Typed
    <3>3. /\ Head(events).client \in 1..Len(clients) /\ Head(events).client # link
          /\ link = Len(clients)
      BY <1>1, <3>1, <3>2 DEF LInv, Deletions
    <3>4. Head(events).client < link
      BY <2>1, <3>3
    <3>5. clients[Head(events).client].socket = "connected"
      BY <1>1, <3>1 DEF CloseSocket
    <3>6. clients[Head(events).client].type \in TcpTypes
      BY <1>1, <3>3, <3>5 DEF LInv, Sockets
    <3> QED  BY <3>1, <3>4, <3>6
  <2>3. ASSUME NEW c \in DOMAIN clients, SocketFails(c) PROVE FALSE
    <3>1. c = link
      BY <1>1, <2>3, OnlyTheLink DEF SocketFails
    <3>2. clients[c].type \in TcpTypes
      BY <1>1, <2>1, <2>3, <3>1 DEF SocketFails, LInv, Sockets
    <3> QED  BY <1>1, <3>1, <3>2
  <2>4. ~HandleTypeChange /\ ~Finish
    BY <1>1 DEF HandleTypeChange, Finish
  <2>5. CASE Main
    BY <1>1, <2>5 DEF Main, CreateProtocol, EmitInitLink, MarkConnected, TestCommand, BuildCommand,
                      Destroy, ChangeType
  <2>6. CASE Worker
    BY <1>1, <2>2, <2>4, <2>6 DEF Worker, Start, HandleInitLink, Connect, HandleSend
  <2>7. CASE Network
    BY <1>1, <2>3, <2>7 DEF Network, SocketConnected
  <2> QED  BY <1>1, <2>5, <2>6, <2>7 DEF Next
<1>2. IInv /\ LInv /\ [Next]_vars => [Lost => Replaced]_vars
  BY <1>1
<1> QED  BY <1>2, Consistent, LinksAgree, PTL DEF Spec, UdpLinkKept
=============================================================================

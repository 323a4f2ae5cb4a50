----------------------------- MODULE GimbalLink -----------------------------
(***************************************************************************)
(* GimbalController with its link clients.  The controller lives in its    *)
(* worker thread: a change of the gimbal's type, the links and the sending *)
(* of commands are events of that thread, handled in order.  The main      *)
(* thread runs the constructor, which connects for the first time while    *)
(* the worker may not have started, and the commands of the user           *)
(* interface, which read the same members without a lock.  A link client   *)
(* is deleted by a deferred event; a TCP client may fail, and closes its   *)
(* socket when it is deleted.                                              *)
(***************************************************************************)
EXTENDS Naturals, Sequences, SequencesExt

CONSTANTS TcpTypes,     \* the gimbal types reached by TCP
          UdpTypes,     \* those reached by UDP
          DytTypes,     \* those that speak the DYT protocol
          MaxChanges,   \* bound on the changes of the type
          MaxCommands   \* bound on the commands

Types == TcpTypes \cup UdpTypes

ASSUME GimbalAssumption ==
    /\ TcpTypes \cap UdpTypes = {} /\ DytTypes \subseteq Types /\ Types # {}
    /\ MaxChanges \in Nat /\ MaxCommands \in Nat

VARIABLES
    gimbalType,   \* the setting
    mainPc,       \* main thread: in the constructor, idle, in a command, gone
    workerPc,     \* worker: not started, in its event loop, inside a change, ended
    events,       \* the worker's event queue
    connected,    \* m_connected
    link,         \* m_linkClient: an index of clients, 0 for nullptr
    protocol,     \* m_protocol: its kind, "none" for null
    currentType,  \* m_currentType
    clients,      \* the link clients created so far
    sent,         \* the last bytes given to a link
    changes, commands,
    crashed       \* a command was built without a protocol

member == <<connected, link, protocol, currentType>>
vars == <<gimbalType, mainPc, workerPc, events, member, clients, sent, changes, commands, crashed>>

NothingSent == [protocol |-> "none", type |-> "none", changing |-> FALSE]

Init ==
    /\ gimbalType \in Types
    /\ mainPc = "protocol" /\ workerPc = "off" /\ events = <<>>
    /\ connected = FALSE /\ link = 0 /\ protocol = "none" /\ currentType = "CUSTOM_PROTOCOL"
    /\ clients = <<>> /\ sent = NothingSent
    /\ changes = 0 /\ commands = 0 /\ crashed = FALSE

ProtocolOf(type) == IF type \in DytTypes THEN "DYT" ELSE "Generic"

NewClient(type) == [type |-> type, socket |-> IF type \in TcpTypes THEN "connecting" ELSE "open"]

TypeChange(type) == [kind |-> "type", type |-> type]
InitLink(type) == [kind |-> "link", type |-> type]
Delete(client) == [kind |-> "delete", client |-> client]
SendCommand(p, late) == [kind |-> "send", protocol |-> p, changing |-> late]

Changing == \E i \in 1..Len(events) : events[i].kind = "type"

-----------------------------------------------------------------------------
\* The main thread: the constructor, whose connectToGimbal runs here

CreateProtocol ==
    /\ mainPc = "protocol" /\ mainPc' = "emit"
    /\ protocol' = ProtocolOf(gimbalType) /\ currentType' = gimbalType
    /\ UNCHANGED <<gimbalType, workerPc, events, connected, link, clients, sent, changes, commands, crashed>>

\* initLink has a receiver only once the worker has run initController
EmitInitLink ==
    /\ mainPc = "emit" /\ mainPc' = "mark"
    /\ events' = IF workerPc = "off" THEN events ELSE Append(events, InitLink(gimbalType))
    /\ UNCHANGED <<gimbalType, workerPc, member, clients, sent, changes, commands, crashed>>

MarkConnected ==
    /\ mainPc = "mark" /\ mainPc' = "idle"
    /\ connected' = TRUE
    /\ UNCHANGED <<gimbalType, workerPc, events, link, protocol, currentType, clients, sent, changes,
                   commands, crashed>>

\* The user chooses another type: rawValueChanged is queued for the worker
ChangeType(type) ==
    /\ mainPc = "idle" /\ changes < MaxChanges /\ type # gimbalType
    /\ gimbalType' = type /\ changes' = changes + 1
    /\ events' = Append(events, TypeChange(type))
    /\ UNCHANGED <<mainPc, workerPc, member, clients, sent, commands, crashed>>

\* A command: the tests of executeProtocolCommand, and then the builder
TestCommand ==
    /\ mainPc = "idle" /\ commands < MaxCommands
    /\ commands' = commands + 1
    /\ mainPc' = IF protocol # "none" /\ connected THEN "build" ELSE "idle"
    /\ UNCHANGED <<gimbalType, workerPc, events, member, clients, sent, changes, crashed>>

BuildCommand ==
    /\ mainPc = "build" /\ mainPc' = "idle"
    /\ IF protocol = "none"
       THEN crashed' = TRUE /\ UNCHANGED events
       ELSE /\ events' = IF workerPc = "off" THEN events
                         ELSE Append(events, SendCommand(protocol, Changing))
            /\ UNCHANGED crashed
    /\ UNCHANGED <<gimbalType, workerPc, member, clients, sent, changes, commands>>

\* ~GimbalController: quit() and wait()
Destroy ==
    /\ mainPc = "idle" /\ mainPc' = "gone"
    /\ UNCHANGED <<gimbalType, workerPc, events, member, clients, sent, changes, commands, crashed>>

Main ==
    \/ CreateProtocol \/ EmitInitLink \/ MarkConnected \/ TestCommand \/ BuildCommand \/ Destroy
    \/ \E type \in Types : ChangeType(type)

-----------------------------------------------------------------------------
\* The worker thread

\* started(): initController connects initLink and sendCommand
Start ==
    /\ workerPc = "off" /\ workerPc' = "loop"
    /\ UNCHANGED <<gimbalType, mainPc, events, member, clients, sent, changes, commands, crashed>>

\* disconnectFromGimbal, with the events that are left
Disconnect(rest) ==
    IF ~connected
    THEN events' = rest /\ UNCHANGED <<connected, link, protocol>>
    ELSE /\ connected' = FALSE /\ link' = 0 /\ protocol' = "none"
         /\ events' = IF link = 0 THEN rest ELSE Append(rest, Delete(link))

NoClient(type) == UNCHANGED <<clients, link>> \* mutant: initLink has no receiver
\* initClient: the link it replaces is deleted later
InitClient(type) ==
    /\ clients' = Append(clients, NewClient(type)) /\ link' = Len(clients) + 1

HandleInitLink ==
    /\ workerPc = "loop" /\ mainPc # "gone" /\ events # <<>> /\ Head(events).kind = "link"
    /\ InitClient(Head(events).type)
    /\ events' = IF link = 0 THEN Tail(events) ELSE Append(Tail(events), Delete(link))
    /\ UNCHANGED <<gimbalType, mainPc, workerPc, connected, protocol, currentType, sent, changes,
                   commands, crashed>>

ConnectOnly ==                                \* mutant: it does not disconnect first
    /\ workerPc = "loop" /\ mainPc # "gone" /\ events # <<>> /\ Head(events).kind = "type"
    /\ events' = Tail(events) /\ UNCHANGED <<connected, link, protocol>>
    /\ IF connected THEN UNCHANGED <<currentType, workerPc>>
       ELSE currentType' = Head(events).type /\ workerPc' = "connect"
    /\ UNCHANGED <<gimbalType, mainPc, clients, sent, changes, commands, crashed>>
\* _onGimbalTypeChanged: disconnect, and then connect, while the main thread may
\* be between the tests and the builder of a command
HandleTypeChange ==
    /\ workerPc = "loop" /\ mainPc # "gone" /\ events # <<>> /\ Head(events).kind = "type"
    /\ Disconnect(Tail(events))
    /\ currentType' = Head(events).type /\ workerPc' = "connect"
    /\ UNCHANGED <<gimbalType, mainPc, clients, sent, changes, commands, crashed>>

OldProtocol ==                                \* mutant: created before the type is set
    /\ workerPc = "connect" /\ workerPc' = "loop"
    /\ protocol' = ProtocolOf(IF clients = <<>> THEN currentType ELSE Last(clients).type)
    /\ connected' = TRUE /\ InitClient(currentType)
    /\ UNCHANGED <<gimbalType, mainPc, events, currentType, sent, changes, commands, crashed>>
\* connectToGimbal on the worker, where initLink is a direct call
Connect ==
    /\ workerPc = "connect" /\ workerPc' = "loop"
    /\ protocol' = ProtocolOf(currentType) /\ connected' = TRUE
    /\ InitClient(currentType)
    /\ UNCHANGED <<gimbalType, mainPc, events, currentType, sent, changes, commands, crashed>>

\* onSendCommand: a TCP client drops what it cannot send
HandleSend ==
    /\ workerPc = "loop" /\ mainPc # "gone" /\ events # <<>> /\ Head(events).kind = "send"
    /\ events' = Tail(events)
    /\ sent' = IF link # 0 /\ connected /\ clients[link].socket \in {"open", "connected"}
               THEN [protocol |-> Head(events).protocol, type |-> clients[link].type,
                     changing |-> Head(events).changing]
               ELSE sent
    /\ UNCHANGED <<gimbalType, mainPc, workerPc, member, clients, changes, commands, crashed>>

\* ~GimbalTcpClient closes the socket.  One that is connected, and has nothing left
\* to write, says at once that it is disconnected: onLinkFailed takes that for the
\* end of the link in use.
CloseSocket(client, rest) ==
    \/ /\ clients[client].socket = "connected"
       /\ Disconnect(rest)
    \/ /\ events' = rest /\ UNCHANGED <<connected, link, protocol>>

HandleDelete ==
    /\ workerPc = "loop" /\ mainPc # "gone" /\ events # <<>> /\ Head(events).kind = "delete"
    /\ CloseSocket(Head(events).client, Tail(events))
    /\ clients' = [clients EXCEPT ![Head(events).client].socket = "deleted"]
    /\ UNCHANGED <<gimbalType, mainPc, workerPc, currentType, sent, changes, commands, crashed>>

\* Sockets are polled when a pass over the posted events has ended, which runs the
\* deletions that it posted itself
Polling == workerPc = "loop" /\ mainPc # "gone" /\ \A i \in 1..Len(events) : events[i].kind # "delete"

SocketConnected(c) ==
    /\ Polling /\ clients[c].socket = "connecting"
    /\ clients' = [clients EXCEPT ![c].socket = "connected"]
    /\ UNCHANGED <<gimbalType, mainPc, workerPc, events, member, sent, changes, commands, crashed>>

AnySocketFails(c) ==                          \* mutant: a UDP socket says so too
    /\ Polling /\ clients[c].socket \in {"open", "connecting", "connected"}
    /\ clients' = [clients EXCEPT ![c].socket = "failed"]
    /\ Disconnect(events)
    /\ UNCHANGED <<gimbalType, mainPc, workerPc, currentType, sent, changes, commands, crashed>>
\* errorOccurred and disconnected both emit linkFailed; the second finds nothing to do
SocketFails(c) ==
    /\ Polling /\ clients[c].socket \in {"connecting", "connected"}
    /\ clients' = [clients EXCEPT ![c].socket = "failed"]
    /\ Disconnect(events)
    /\ UNCHANGED <<gimbalType, mainPc, workerPc, currentType, sent, changes, commands, crashed>>

\* finished(): disconnectFromGimbal, and the deferred deletions
Finish ==
    /\ mainPc = "gone" /\ workerPc = "loop" /\ workerPc' = "ended"
    /\ connected' = FALSE /\ link' = IF connected THEN 0 ELSE link
    /\ protocol' = IF connected THEN "none" ELSE protocol
    /\ events' = <<>>
    /\ clients' = [c \in DOMAIN clients |->
                     IF (c = link /\ connected) \/ Delete(c) \in ToSet(events)
                     THEN [clients[c] EXCEPT !.socket = "deleted"] ELSE clients[c]]
    /\ UNCHANGED <<gimbalType, mainPc, currentType, sent, changes, commands, crashed>>

Worker ==
    \/ Start \/ HandleInitLink \/ HandleTypeChange \/ Connect \/ HandleSend \/ HandleDelete \/ Finish

Network == \E c \in DOMAIN clients : SocketConnected(c) \/ SocketFails(c)

Next == Main \/ Worker \/ Network

Spec == Init /\ [][Next]_vars

\* Both threads run; the constructor goes on and a command is built once it is tested
Fairness ==
    /\ WF_vars(CreateProtocol \/ EmitInitLink \/ MarkConnected \/ BuildCommand)
    /\ WF_vars(Worker)

FairSpec == Spec /\ Fairness

-----------------------------------------------------------------------------
\* The members, the queue of the worker and the clients are of their kinds.
TypeOK ==
    /\ gimbalType \in Types /\ currentType \in Types \cup {"CUSTOM_PROTOCOL"}
    /\ mainPc \in {"protocol", "emit", "mark", "idle", "build", "gone"}
    /\ workerPc \in {"off", "loop", "connect", "ended"}
    /\ connected \in BOOLEAN /\ crashed \in BOOLEAN
    /\ link \in 0..Len(clients) /\ protocol \in {"none", "DYT", "Generic"}
    /\ \A c \in DOMAIN clients :
          /\ clients[c].type \in Types
          /\ clients[c].socket \in {"open", "connecting", "connected", "failed", "deleted"}
          /\ clients[c].socket = "open" => clients[c].type \in UdpTypes
    /\ \A i \in DOMAIN events : events[i].kind \in {"type", "link", "send", "delete"}

\* The worker has handled what was posted, and the constructor has returned
Quiet == events = <<>> /\ workerPc = "loop" /\ mainPc \in {"idle", "build"}

\* Once the type has been changed, m_connected tells the truth: a live client of the
\* type that is set, and its protocol.  (The first connection is made from the
\* constructor on the main thread; it may have no link, or one that failed unnoticed.)
ConnectedHasLink ==
    Quiet /\ connected /\ changes > 0 =>
        /\ link # 0 /\ clients[link].type = gimbalType
        /\ clients[link].socket \in {"open", "connecting", "connected"}
        /\ protocol = ProtocolOf(gimbalType) /\ currentType = gimbalType

\* Bytes that reach a gimbal are in its own protocol, unless its type was being
\* changed when the command was given.
OwnProtocol == sent = NothingSent \/ sent.changing \/ sent.protocol = ProtocolOf(sent.type)

\* Exactly the client in use is not deleted: nothing leaks, and nothing in use is deleted.
OneLiveClient ==
    Quiet => \A c \in DOMAIN clients : (clients[c].socket # "deleted") <=> (c = link)

\* What the controller says when its worker is idle is what it holds: m_connected, the
\* client, the protocol and the type agree, and no other client is left.
Inv == TypeOK /\ ConnectedHasLink /\ OneLiveClient

\* The link of a UDP gimbal is lost only to the closing of a TCP client that an earlier
\* change replaced: no failure of another client and no race with the main thread takes it.
UdpLinkKept ==
    [][connected /\ ~connected' /\ workerPc' = "loop" /\ link # 0 /\ clients[link].type \in UdpTypes
         => /\ events # <<>> /\ Head(events).kind = "delete"
            /\ Head(events).client < link
            /\ clients[Head(events).client].type \in TcpTypes]_vars

\* The type that is set last is in the end the one the controller works with.
TypeIsFollowed == <>[](currentType = gimbalType \/ mainPc = "gone")
=============================================================================

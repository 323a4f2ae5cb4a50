--------------------------- MODULE MqttReporting ---------------------------
(***************************************************************************)
(* VKMqttClient, which reports the vehicles to an MQTT broker and takes    *)
(* commands from it, with the QMqttClient and QMqttConnection it runs on   *)
(* (protocol 3.1.1, clean sessions, automatic keep-alive: their defaults). *)
(* All are objects of the GUI thread, so that each handler is one step: it *)
(* maps the record c of the client to the next one.  The broker and TCP    *)
(* are external.  A packet arrives as a header and, later, its body.       *)
(* VKMqttClient publishes at QoS 0 only; the actions of Library are the    *)
(* other calls of QMqttClient's interface.                                 *)
(***************************************************************************)
EXTENDS Naturals, Sequences, FiniteSets, FiniteSetsExt

CONSTANTS Vehicles,     \* the vehicles the manager knows
          CommandOf,    \* the commands of the control station: name -> content
          Messages,     \* what Library publishes
          MaxId,        \* the largest packet identifier (65535)
          Cap,          \* bound on the packets under way to the broker
          Budgets       \* bounds on the inputs: starts, stops, reports, commands, ...

Commands == DOMAIN CommandOf
Known == {"TakeOff", "Land", "ReturnMission", "FlyToPoint", "LookAtPoint",
          "CancelFlyToPoint", "CancelLookAtPoint"}

ASSUME MqttAssumption ==
    /\ MaxId \in Nat \ {0} /\ Cap \in Nat /\ IsFiniteSet(Vehicles)
    /\ \A m \in Commands : CommandOf[m].wellFormed \in BOOLEAN

VARIABLES
    c,          \* the client (see TypeOK)
    down,       \* packets on their way to the client
    broker,     \* the broker's session, and what it has got
    silent,     \* the peer no longer answers, and TCP has not noticed
    budget,     \* what is left of the inputs
    flown,      \* orders given to vehicles: <<command, vehicle>>
    sent,       \* messages of Library for which messageSent was emitted
    repeated    \* an unsubscription was asked for while one was under way

vars == <<c, down, broker, silent, budget, flown, sent, repeated>>

Packet(type, id, data) == [type |-> type, id |-> id, data |-> data]
NoSession == [on |-> FALSE, subs |-> FALSE]

Init ==
    /\ c = [state |-> "Disconnected", error |-> "NoError", internal |-> "BrokerDisconnected",
            transport |-> "none", missing |-> "none", pingTimer |-> FALSE, pings |-> 0,
            timer |-> FALSE, active |-> FALSE, sub |-> "Unsubscribed", subId |-> 0, counter |-> 1,
            pendingAck |-> {}, pendingUnsub |-> {}, pendingMsg |-> {}, pendingRel |-> {}, up |-> <<>>]
    /\ down = <<>> /\ silent = FALSE
    /\ broker = [session |-> NoSession, got |-> {}, acked |-> {}]
    /\ budget \in Budgets
    /\ flown = {} /\ sent = {} /\ repeated = FALSE

-----------------------------------------------------------------------------
\* QMqttConnection: packets and identifiers

Write(k, p) == IF k.transport = "open" THEN [k EXCEPT !.up = Append(@, p)] ELSE k

Ids(pending) == {q.id : q \in pending}
InUse(k) == k.pendingAck \cup k.pendingUnsub \cup Ids(k.pendingMsg) \cup Ids(k.pendingRel)

NextIdentifier(k) == (k.counter % MaxId) + 1   \* mutant: used or not
\* The loop ends at an unused identifier or back at the last one
UnusedIdentifier(k) ==
    LET after(n) == ((k.counter - 1 + n) % MaxId) + 1
    IN  after(Min({n \in 1..MaxId : n = MaxId \/ after(n) \notin InUse(k)}))

Insert(pending, q) == {r \in pending : r.id # q.id} \cup {q}

CleanSubscriptions(k) ==
    [k EXCEPT !.pendingAck = {}, !.pendingUnsub = {}, !.active = FALSE,
              !.sub = IF k.active THEN "Unsubscribed" ELSE @]

-----------------------------------------------------------------------------
\* VKMqttClient's slots run inside QMqttClient::setState

\* An active subscription to the topic is returned as it is.  Each other one is an object
\* of its own: the answer to its packet, of identifier subId, is for it alone.
LateSubscribe(k) ==   \* mutant: only an acknowledged subscription is active
    LET id == UnusedIdentifier(k)
    IN  [Write(k, Packet("SUBSCRIBE", id, "ctl")) EXCEPT
            !.counter = id, !.pendingAck = @ \cup {id}, !.subId = id, !.sub = "Pending"]
SendSubscribe(k) ==
    LET id == UnusedIdentifier(k)
    IN  IF k.active THEN k
        ELSE [Write(k, Packet("SUBSCRIBE", id, "ctl")) EXCEPT
                 !.counter = id, !.pendingAck = @ \cup {id}, !.active = TRUE, !.subId = id,
                 !.sub = "Pending"]

OnClientConnected(k) == SendSubscribe([k EXCEPT !.timer = TRUE])
NotStopped(k) == k                                                       \* mutant: no stop()
OnClientDisconnected(k) == [k EXCEPT !.timer = FALSE]

SetState(k, s) ==
    LET set == [k EXCEPT !.state = s]
    IN  IF k.state = s THEN k
        ELSE CASE s = "Connected"    -> OnClientConnected(set)
               [] s = "Disconnected" -> OnClientDisconnected(set)
               [] s = "Connecting"   -> set

SetStateAndError(k, s, e) == SetState([k EXCEPT !.error = IF e = "NoError" THEN @ ELSE e], s)

-----------------------------------------------------------------------------
\* QMqttConnection: the transport

\* Its signals are disconnected first
CloseConnection(k, e) ==
    SetStateAndError([k EXCEPT !.pingTimer = FALSE, !.pings = 0, !.active = FALSE, !.up = <<>>,
                               !.internal = "BrokerDisconnected", !.transport = "closed"],
                     "Disconnected", e)

ConnectionClosed(k) ==
    SetStateAndError([k EXCEPT !.pingTimer = FALSE, !.pings = 0, !.up = <<>>, !.transport = "closed"],
                     "Disconnected",
                     IF k.internal = "BrokerDisconnected" THEN "NoError" ELSE "TransportInvalid")

ResumedConnect(k) ==   \* mutant: m_missingData is kept
    Write([k EXCEPT !.internal = "BrokerWaitForConnectAck"], Packet("CONNECT", 0, "clean"))
SendConnect(k) ==
    Write([k EXCEPT !.internal = "BrokerWaitForConnectAck", !.missing = "none"],
          Packet("CONNECT", 0, "clean"))

ConnectionEstablished(k) ==
    LET open == [k EXCEPT !.transport = "open"]
    IN  IF k.internal # "BrokerConnecting" THEN open ELSE SendConnect(open)

SendPingRequest(k) ==
    IF k.internal # "BrokerConnected" THEN k
    ELSE IF k.pings > 1 THEN CloseConnection(k, "ServerUnavailable")
    ELSE [Write(k, Packet("PINGREQ", 0, "none")) EXCEPT !.pings = @ + 1]

\* When the packet is not written in 30 s the transport stays open
SendDisconnect(k, flushed) ==
    LET said == [Write(k, Packet("DISCONNECT", 0, "none")) EXCEPT
                    !.pingTimer = FALSE, !.pings = 0, !.active = FALSE, !.internal = "BrokerDisconnected"]
    IN  IF flushed THEN ConnectionClosed(said) ELSE said

\* An own transport is deleted first: it dangles when there is no host
EnsureTransport(k, host) ==
    [k EXCEPT !.transport = IF @ = "freed" THEN "undefined"
                            ELSE IF host THEN "opening"
                            ELSE IF @ = "none" THEN "none" ELSE "freed"]

EnsureTransportOpen(k) == [k EXCEPT !.internal = "BrokerConnecting"]

-----------------------------------------------------------------------------
\* QMqttClient

ConnectToHost(k, host) ==
    LET ensured == EnsureTransport(k, host)
        opening == SetState([ensured EXCEPT !.error = "NoError"], "Connecting")
    IN  IF k.state # "Disconnected" THEN k
        ELSE IF ensured.transport = "undefined" THEN ensured
        ELSE IF ~ host THEN SetStateAndError(ensured, "Disconnected", "TransportInvalid")
        ELSE EnsureTransportOpen(CleanSubscriptions(opening))

DisconnectFromHost(k, flushed) ==
    CASE k.internal = "BrokerConnected"    -> SendDisconnect(k, flushed)
      [] k.internal = "BrokerDisconnected" -> k
      [] OTHER -> IF k.transport \in {"opening", "open"} THEN ConnectionClosed(k) ELSE k

-----------------------------------------------------------------------------
\* The client's record becomes k.  A transport that is no longer open takes
\* what was on its way, and the broker's session, with it.

Becomes(k) ==
    /\ c' = k
    /\ IF k.transport = "open"
       THEN UNCHANGED <<down, broker>>
       ELSE /\ down' = <<>>
            /\ broker' = [broker EXCEPT !.session = NoSession]

Spend(input) == /\ budget[input] > 0
                /\ budget' = [budget EXCEPT ![input] = @ - 1]

\* VKMqttClient::start: the host may have been emptied in the settings
Start(host) ==
    /\ Spend("starts") /\ c.transport # "undefined"
    /\ Becomes(ConnectToHost(c, host))
    /\ UNCHANGED <<silent, flown, sent, repeated>>

\* VKMqttClient::stop does nothing while the client is connecting
Stop(flushed) ==
    /\ Spend("stops") /\ (flushed \/ silent)
    /\ Becomes(IF c.state = "Connected"
               THEN DisconnectFromHost([c EXCEPT !.timer = FALSE], flushed)
               ELSE [c EXCEPT !.timer = FALSE])
    /\ UNCHANGED <<silent, flown, sent, repeated>>

\* Bounds: the buffer to the broker, and identifiers are not all in use
Room == Len(c.up) < Cap
IdLeft == Cardinality(InUse(c)) < MaxId

\* VKMqttClient::onReportingTimer: one publication for each vehicle of the list
Publications(list) == [i \in DOMAIN list |-> Packet("PUBLISH", 0, list[i])]
Lists == {list \in [1..Cardinality(Vehicles) -> Vehicles] : Range(list) = Vehicles}

OnReportingTimer ==
    /\ c.timer /\ c.state = "Connected" /\ Room /\ Spend("reports")
    /\ IF c.transport # "open" THEN UNCHANGED c
       ELSE \E list \in Lists : c' = [c EXCEPT !.up = @ \o Publications(list)]
    /\ UNCHANGED <<down, broker, silent, flown, sent, repeated>>

OnPingTimer ==
    /\ c.pingTimer
    /\ Becomes(SendPingRequest(c))
    /\ UNCHANGED <<silent, budget, flown, sent, repeated>>

-----------------------------------------------------------------------------
\* Library: the rest of QMqttClient's interface

Unpublished ==
    Messages \ ({p.msg : p \in c.pendingMsg \cup c.pendingRel} \cup sent \cup broker.got)

Publish(qos) ==
    /\ Spend("library") /\ Room /\ IdLeft /\ Unpublished # {}
    /\ c.state = "Connected" /\ c.transport = "open"
    /\ LET m == CHOOSE x \in Unpublished : TRUE
           id == UnusedIdentifier(c)
           p == [id |-> id, msg |-> m, qos |-> qos]
       IN  /\ c' = [Write(c, Packet(IF qos = 1 THEN "PUBLISH1" ELSE "PUBLISH2", id, m)) EXCEPT
                    !.counter = id, !.pendingMsg = Insert(@, p)]
    /\ UNCHANGED <<down, broker, silent, flown, sent, repeated>>

Subscribe ==
    /\ Spend("library") /\ c.state = "Connected" /\ c.transport = "open" /\ IdLeft
    /\ c' = SendSubscribe(c)
    /\ UNCHANGED <<down, broker, silent, flown, sent, repeated>>

SendUnsubscribe(k) ==
    LET id == UnusedIdentifier(k)
    IN  IF ~ k.active THEN k
        ELSE IF k.internal # "BrokerConnected" THEN [k EXCEPT !.active = FALSE]
        ELSE [Write(k, Packet("UNSUBSCRIBE", id, "ctl")) EXCEPT
                 !.counter = id, !.pendingUnsub = @ \cup {id}, !.sub = "UnsubscriptionPending"]

Unsubscribe ==
    /\ Spend("library") /\ c.active /\ IdLeft
    /\ Becomes(SendUnsubscribe(c))
    /\ repeated' = (repeated \/ c.pendingUnsub # {})
    /\ UNCHANGED <<silent, flown, sent>>

Disconnect ==
    /\ Spend("library") /\ c.internal # "BrokerDisconnected"
    /\ Becomes(DisconnectFromHost(c, TRUE))
    /\ UNCHANGED <<silent, flown, sent, repeated>>

Library ==
    \/ \E qos \in 1..2 : Publish(qos)
    \/ Subscribe \/ Unsubscribe \/ Disconnect

-----------------------------------------------------------------------------
\* Packets that arrive

\* processCommandMessage and execCommand: a value that is no number is 0
CommandType(command) == IF command = "text" THEN "TakeOff" ELSE command
Orders(m) ==
    LET content == CommandOf[m]
    IN  IF content.wellFormed /\ CommandType(content.command) \in Known
        THEN {m} \X (content.drones \cap Vehicles) ELSE {}

NoKeepAlive(k, code) ==   \* mutant: the timer of the pings is not started
    IF code # "accepted" THEN CloseConnection(k, "Refused")
    ELSE SetState([CleanSubscriptions(k) EXCEPT !.internal = "BrokerConnected"], "Connected")
FinalizeConnack(k, code) ==
    LET clean == CleanSubscriptions(k)
        connected == SetState([clean EXCEPT !.internal = "BrokerConnected"], "Connected")
    IN  IF code # "accepted" THEN CloseConnection(clean, "Refused")
        ELSE [connected EXCEPT !.pingTimer = TRUE]

FinalizeSuback(k, id, code) ==
    IF id \notin k.pendingAck THEN k
    ELSE [k EXCEPT !.pendingAck = @ \ {id},
                   !.sub = IF id # k.subId THEN @
                           ELSE IF code = "failure" THEN "Error" ELSE "Subscribed"]

FinalizeUnsuback(k, id) ==
    IF id \notin k.pendingUnsub THEN k
    ELSE [k EXCEPT !.pendingUnsub = @ \ {id}, !.active = FALSE, !.sub = "Unsubscribed"]

\* The identifier of the broker stands for its message
FinalizePublish(k, p) == IF p.type = "PUBLISH1" THEN Write(k, Packet("PUBACK", p.id, p.data)) ELSE k

Taken(pending, id) == {q \in pending : q.id = id}

FinalizePuback(k, id) == [k EXCEPT !.pendingMsg = @ \ Taken(@, id)]
FinalizePubrec(k, id) ==
    LET taken == Taken(k.pendingMsg, id)
    IN  IF taken = {} THEN k
        ELSE Write([k EXCEPT !.pendingMsg = @ \ taken,
                             !.pendingRel = {q \in @ : q.id # id} \cup taken], Packet("PUBREL", id, "none"))
FinalizePubcomp(k, id) == [k EXCEPT !.pendingRel = @ \ Taken(@, id)]

FinalizePingresp(k) == [k EXCEPT !.pings = @ - 1]

\* The messages for which messageSent is emitted
NowSent(p) == CASE p.type = "PUBACK"  -> Taken(c.pendingMsg, p.id)
                [] p.type = "PUBCOMP" -> Taken(c.pendingRel, p.id)
                [] OTHER              -> {}

Finalize(k, p) ==
    CASE p.type = "CONNACK"  -> FinalizeConnack(k, p.data)
      [] p.type = "SUBACK"   -> FinalizeSuback(k, p.id, p.data)
      [] p.type = "UNSUBACK" -> FinalizeUnsuback(k, p.id)
      [] p.type \in {"PUBLISH", "PUBLISH1"} -> FinalizePublish(k, p)
      [] p.type = "PUBACK"   -> FinalizePuback(k, p.id)
      [] p.type = "PUBREC"   -> FinalizePubrec(k, p.id)
      [] p.type = "PUBCOMP"  -> FinalizePubcomp(k, p.id)
      [] p.type = "PINGRESP" -> FinalizePingresp(k)

Readable == down # <<>> /\ ~ silent /\ c.transport = "open"

\* processDataHelper, fixed header: what it can refuse of a correct broker
ReadHeader ==
    /\ Readable /\ c.missing = "none"
    /\ Becomes(IF Head(down).type = "CONNACK" /\ c.internal # "BrokerWaitForConnectAck"
               THEN CloseConnection(c, "ProtocolViolation")
               ELSE [c EXCEPT !.missing = Head(down).type])
    /\ UNCHANGED <<silent, budget, flown, sent, repeated>>

\* processDataHelper, the body: bytes of another packet make no sense
ReadBody ==
    /\ Readable /\ c.missing # "none"
    /\ LET p == Head(down)
           read == [c EXCEPT !.missing = "none"]
           k == IF c.missing = p.type THEN Finalize(read, p) ELSE CloseConnection(read, "ProtocolViolation")
       IN  /\ c' = k
           /\ IF k.transport = "open"
              THEN down' = Tail(down) /\ UNCHANGED <<broker>>
              ELSE down' = <<>> /\ broker' = [broker EXCEPT !.session = NoSession]
           /\ sent' = sent \cup {q.msg : q \in NowSent(p)}
           /\ flown' = IF p.type \in {"PUBLISH", "PUBLISH1"} /\ c.active
                       THEN flown \cup Orders(p.data) ELSE flown
    /\ UNCHANGED <<silent, budget, repeated>>

-----------------------------------------------------------------------------
\* TCP and the broker: external

SocketConnected ==
    /\ c.transport = "opening" /\ ~ silent
    /\ c' = ConnectionEstablished(c)
    /\ UNCHANGED <<down, broker, silent, budget, flown, sent, repeated>>

\* transportError: refused, reset, closed by the broker, timed out
SocketFails ==
    /\ c.transport \in {"opening", "open"}
    /\ Becomes(CloseConnection(c, "TransportInvalid"))
    /\ UNCHANGED <<silent, budget, flown, sent, repeated>>

PeerFallsSilent ==
    /\ Spend("silences") /\ silent' = TRUE
    /\ UNCHANGED <<c, down, broker, flown, sent, repeated>>

\* The broker's answers to a packet; a message may precede a SUBACK
Answers(p) ==
    CASE p.type = "CONNECT" -> {<<Packet("CONNACK", 0, code)>> : code \in {"accepted", "refused"}}
      [] p.type = "SUBSCRIBE" -> {<<Packet("SUBACK", p.id, code)>> : code \in {"granted", "failure"}}
      [] p.type = "UNSUBSCRIBE" -> {<<Packet("UNSUBACK", p.id, "none")>>}
      [] p.type = "PUBLISH1"  -> {<<Packet("PUBACK", p.id, "none")>>}
      [] p.type = "PUBLISH2"  -> {<<Packet("PUBREC", p.id, "none")>>}
      [] p.type = "PUBREL"    -> {<<Packet("PUBCOMP", p.id, "none")>>}
      [] p.type = "PINGREQ"   -> {<<Packet("PINGRESP", 0, "none")>>}
      [] OTHER                -> {<<>>}

Session(s, p, answer) ==
    CASE p.type = "CONNECT"     -> [s EXCEPT !.on = answer[1].data = "accepted"]
      [] p.type = "SUBSCRIBE"   -> [s EXCEPT !.subs = answer[1].data = "granted"]
      [] p.type = "UNSUBSCRIBE" -> [s EXCEPT !.subs = FALSE]
      [] OTHER                  -> s

BrokerReads ==
    /\ c.up # <<>> /\ ~ silent
    /\ LET p == Head(c.up)
       IN  \E answer \in Answers(p), early \in {<<>>} \cup {<<Packet("PUBLISH1", 1, m)>> : m \in Commands} :
             /\ IF early = <<>> THEN UNCHANGED budget
                ELSE /\ p.type = "SUBSCRIBE" /\ answer[1].data = "granted"
                     /\ Spend("commands")
             /\ down' = down \o early \o answer
             /\ broker' = [broker EXCEPT !.session = Session(@, p, answer),
                               !.got = IF p.type \in {"PUBLISH1", "PUBLISH2"} THEN @ \cup {p.data} ELSE @,
                               !.acked = IF p.type = "PUBACK" THEN @ \cup {p.data} ELSE @]
    /\ c' = [c EXCEPT !.up = Tail(@)]
    /\ UNCHANGED <<silent, flown, sent, repeated>>

\* A command at QoS 0 or 1, to a subscribed client
BrokerPublishes(m, type) ==
    /\ Spend("commands") /\ broker.session.subs /\ ~ silent
    /\ down' = Append(down, Packet(type, 1, m))
    /\ UNCHANGED <<c, broker, silent, flown, sent, repeated>>

External ==
    \/ SocketConnected \/ SocketFails \/ PeerFallsSilent \/ BrokerReads
    \/ \E m \in Commands, type \in {"PUBLISH", "PUBLISH1"} : BrokerPublishes(m, type)

Next ==
    \/ \E host \in BOOLEAN : Start(host)
    \/ \E flushed \in BOOLEAN : Stop(flushed)
    \/ OnReportingTimer \/ OnPingTimer \/ Library \/ ReadHeader \/ ReadBody
    \/ External

\* The event loop handles what has arrived and a timer that has expired; a
\* broker that is not silent reads and answers.
Fairness == /\ WF_vars(ReadHeader) /\ WF_vars(ReadBody) /\ WF_vars(OnPingTimer)
            /\ WF_vars(BrokerReads)
            /\ WF_vars(c.transport = "opening" /\ (SocketConnected \/ SocketFails))

Spec == Init /\ [][Next]_vars
FairSpec == Spec /\ Fairness
-----------------------------------------------------------------------------
Strings(pending) == \A q \in pending : q.id \in 1..MaxId /\ q.msg \in Messages /\ q.qos \in 1..2

\* The types of the client's record; at most three pings are unanswered
TypeOK ==
    /\ c.state \in {"Disconnected", "Connecting", "Connected"}
    /\ c.error \in {"NoError", "TransportInvalid", "ServerUnavailable", "Refused", "ProtocolViolation"}
    /\ c.internal \in {"BrokerDisconnected", "BrokerConnecting", "BrokerWaitForConnectAck", "BrokerConnected"}
    /\ c.transport \in {"none", "opening", "open", "closed", "freed", "undefined"}
    /\ c.pingTimer \in BOOLEAN /\ c.timer \in BOOLEAN /\ c.active \in BOOLEAN /\ c.pings \in 0..2
    /\ c.sub \in {"Unsubscribed", "Pending", "Subscribed", "UnsubscriptionPending", "Error"}
    /\ c.counter \in 1..MaxId /\ c.subId \in 0..MaxId
    /\ (c.pendingAck \cup c.pendingUnsub) \subseteq 1..MaxId
    /\ Strings(c.pendingMsg) /\ Strings(c.pendingRel)
    /\ flown \subseteq Commands \X Vehicles /\ sent \subseteq Messages

\* Telemetry is reported exactly while the client and the connection under
\* it agree that they are connected, whatever ended or began the connection
\* (VKMqttClient::onClientConnected, onClientDisconnected, stop).  They
\* disagree only about a DISCONNECT that could not be written.
ReportsWhileConnected ==
    /\ c.timer <=> (c.state = "Connected" /\ c.internal = "BrokerConnected")
    /\ c.timer => (c.transport = "open" /\ c.pingTimer)
    /\ (c.state = "Connected" /\ ~ c.timer) => (silent /\ c.transport = "open")

\* A broker that keeps to the protocol is never taken for one that violates
\* it, even when a connection was lost in the middle of a packet
\* (QMqttConnection::processDataHelper, sendControlConnect).
BrokerIsUnderstood == c.error # "ProtocolViolation"

\* An active subscription that says it is subscribed is one of the broker's
\* (QMqttConnection::finalize_suback, cleanSubscriptions), unless the
\* broker's answer to an unsubscription is on its way.
SubscriptionAgrees ==
    c.active /\ c.sub = "Subscribed" /\ c.pendingUnsub = {}
        => broker.session.subs

\* What the broker knows to have been received has been carried out, also
\* when it came before the answer to the subscription: the orders of a
\* command that was acknowledged were given to each vehicle it names
\* (QMqttConnection::finalize_publish).  Excepted is what follows a repeated
\* unsubscription: its late answer takes away the subscription that was made
\* between the two answers, to which messages already come.
AckedIsFlown ==
    repeated \/ \A m \in broker.acked : Orders(m) \subseteq flown

\* messageSent is not emitted for a message the broker has not got
\* (QMqttConnection::finalize_pubAckRecRelComp).
SentIsReceived == sent \subseteq broker.got

\* Client and broker understand each other: what one takes for said, the other has
\* said, across lost connections.
Inv == TypeOK /\ BrokerIsUnderstood /\ SubscriptionAgrees /\ SentIsReceived

\* A new packet identifier is not one that still waits for an answer, those
\* left by lost connections included
\* (QMqttConnection::unusedPacketIdentifier).
NewIdIsUnused ==
    [][c'.counter # c.counter => c'.counter \notin InUse(c)]_vars

\* A peer that has fallen silent is noticed by the pings
\* (QMqttConnection::sendControlPingRequest).
DeadPeerIsNoticed == (silent /\ c.internal = "BrokerConnected") ~> c.internal # "BrokerConnected"
=============================================================================

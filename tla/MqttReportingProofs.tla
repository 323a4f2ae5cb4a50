------------------------- MODULE MqttReportingProofs -------------------------
(***************************************************************************)
(* Proofs about MqttReporting, for any vehicles, commands and messages,    *)
(* any number of packet identifiers and any budgets of inputs.             *)
(***************************************************************************)
EXTENDS MqttReporting, SequenceTheorems, FiniteSetTheorems, WellFoundedInduction, TLAPS

-----------------------------------------------------------------------------
\* The inductive invariant

UpType == {"CONNECT", "SUBSCRIBE", "UNSUBSCRIBE", "PUBLISH", "PUBLISH1", "PUBLISH2", "PUBREL", "PUBACK",
           "PINGREQ", "DISCONNECT"}
DownType == {"CONNACK", "SUBACK", "UNSUBACK", "PUBLISH", "PUBLISH1", "PUBACK", "PUBREC", "PUBCOMP",
             "PINGRESP"}
Data == {"none", "clean", "ctl", "accepted", "refused", "granted", "failure"}
            \cup Vehicles \cup Messages \cup Commands
UpPacket == [type : UpType, id : Nat, data : Data]
DownPacket == [type : DownType, id : Nat, data : Data]
Identifiers == 1..MaxId
SubIds == Identifiers \cup {0}
Counts == 0..2
SubState == {"Unsubscribed", "Pending", "Subscribed", "UnsubscriptionPending", "Error"}
Waiting == [id : Identifiers, msg : Messages, qos : 1..2]
Client ==
    [state : {"Disconnected", "Connecting", "Connected"},
     error : {"NoError", "TransportInvalid", "ServerUnavailable", "Refused"},
     internal : {"BrokerDisconnected", "BrokerConnecting", "BrokerWaitForConnectAck", "BrokerConnected"},
     transport : {"none", "opening", "open", "closed", "freed", "undefined"},
     missing : {"none"} \cup DownType, pingTimer : BOOLEAN, pings : Counts, timer : BOOLEAN,
     active : BOOLEAN, sub : SubState,
     subId : SubIds, counter : Identifiers, pendingAck : SUBSET Identifiers,
     pendingUnsub : SUBSET Identifiers, pendingMsg : SUBSET Waiting, pendingRel : SUBSET Waiting,
     up : Seq(UpPacket)]
Broker == [session : [on : BOOLEAN, subs : BOOLEAN], got : SUBSET Data, acked : SUBSET Data]

\* Positions of the packets of certain types
At(s, types) == {i \in 1..Len(s) : s[i].type \in types}
None(s, types) == \A i \in 1..Len(s) : s[i].type \notin types

\* Types: the client is not told of a violation, and what is published are commands
Typed ==
    /\ c \in Client /\ down \in Seq(DownPacket) /\ broker \in Broker
    /\ silent \in BOOLEAN /\ repeated \in BOOLEAN
    /\ flown \subseteq Commands \X Vehicles /\ sent \subseteq Messages
    /\ \A i \in At(down, {"PUBLISH", "PUBLISH1"}) : down[i].data \in Commands

\* The phases of a connection
Unsaid(k) == ~ k.pingTimer /\ ~ k.timer /\ ~ k.active /\ k.pings = 0
Shut == /\ c.state = "Disconnected" /\ c.internal # "BrokerConnected"
        /\ c.transport \notin {"opening", "open"} /\ Unsaid(c)
        /\ Len(c.up) = 0 /\ Len(down) = 0 /\ ~ broker.session.subs
Opening == /\ c.state = "Connecting" /\ c.internal = "BrokerConnecting" /\ c.transport = "opening"
           /\ Unsaid(c) /\ c.pendingAck = {} /\ c.pendingUnsub = {}
           /\ Len(c.up) = 0 /\ Len(down) = 0 /\ ~ broker.session.subs
Shaking == /\ c.state = "Connecting" /\ c.internal = "BrokerWaitForConnectAck" /\ c.transport = "open"
           /\ Unsaid(c) /\ c.pendingAck = {} /\ c.pendingUnsub = {} /\ ~ broker.session.subs
           /\ \/ Len(c.up) = 1 /\ c.up[1].type = "CONNECT" /\ Len(down) = 0
              \/ Len(c.up) = 0 /\ Len(down) = 1 /\ down[1].type = "CONNACK"
Talking == /\ c.state = "Connected" /\ c.internal = "BrokerConnected" /\ c.transport = "open"
           /\ c.pingTimer /\ c.timer /\ None(c.up, {"CONNECT"}) /\ None(down, {"CONNACK"})
Hushed == /\ c.state = "Connected" /\ c.internal = "BrokerDisconnected" /\ c.transport = "open"
          /\ ~ c.pingTimer /\ ~ c.timer /\ silent
Phases == Shut \/ Opening \/ Shaking \/ Talking \/ Hushed

\* A header that has been read is that of the packet whose body comes next
Understood ==
    c.transport = "open" /\ c.missing # "none" => Len(down) > 0 /\ down[1].type = c.missing

\* The requests under way and the answers that come back have identifiers for which the
\* client waits, each its own
AreIn(s, types, waits) == \A i \in At(s, types) : s[i].id \in waits
Differ(s, types) == \A i, j \in At(s, types) : s[i].id = s[j].id => i = j
Apart(s, types, t, others) == \A i \in At(s, types), j \in At(t, others) : s[i].id # t[j].id
Flight(up, dn, requests, answers, waits) ==
    /\ AreIn(up, requests, waits) /\ AreIn(dn, answers, waits)
    /\ Differ(up, requests) /\ Differ(dn, answers) /\ Apart(up, requests, dn, answers)

Exchanges ==
    silent \/ /\ Flight(c.up, down, {"SUBSCRIBE"}, {"SUBACK"}, c.pendingAck)
              /\ Flight(c.up, down, {"UNSUBSCRIBE"}, {"UNSUBACK"}, c.pendingUnsub)
              /\ Flight(c.up, down, {"PUBLISH1", "PUBLISH2"}, {"PUBACK", "PUBREC"}, Ids(c.pendingMsg))

\* The active subscription: its own answer settles it, and comes after those of the earlier ones
Subscriptions ==
    /\ c.active /\ c.sub = "Subscribed" /\ c.pendingUnsub = {} => broker.session.subs
    /\ (c.active /\ ~ silent) =>
         /\ c.sub = "Subscribed" => c.subId \notin c.pendingAck
         /\ \A i \in At(c.up, {"SUBSCRIBE"}) :
               c.up[i].id = c.subId <=> \A j \in At(c.up, {"SUBSCRIBE"}) : j <= i
         /\ \A i \in At(down, {"SUBACK"}) : down[i].id = c.subId =>
               /\ None(c.up, {"SUBSCRIBE"})
               /\ down[i].data # "failure" => (broker.session.subs \/ c.pendingUnsub # {})

\* What is taken for received has been received
Receipts ==
    /\ sent \subseteq broker.got
    /\ \A q \in c.pendingRel : q.msg \in broker.got
    /\ silent \/
         /\ \A i \in At(down, {"PUBACK", "PUBREC"}) :
               \A q \in c.pendingMsg : q.id = down[i].id => q.msg \in broker.got
         /\ \A i \in At(c.up, {"PUBLISH1", "PUBLISH2"}) :
               \A q \in c.pendingMsg : q.id = c.up[i].id => q.msg = c.up[i].data

\* While nothing was unsubscribed twice, a message that comes finds the subscription active:
\* the broker stops sending before it answers an unsubscription
Before(s, i, type) == \E j \in At(s, {type}) : j < i
Hearing ==
    repeated \/
      /\ \A m \in broker.acked : Orders(m) \subseteq flown
      /\ silent \/
           /\ \A i \in At(c.up, {"PUBACK"}) : Orders(c.up[i].data) \subseteq flown
           /\ \A i \in At(down, {"PUBLISH", "PUBLISH1"}) : c.active /\ ~ Before(down, i, "UNSUBACK")
           /\ broker.session.subs => c.active /\ None(down, {"UNSUBACK"})
           /\ \A i \in At(c.up, {"SUBSCRIBE"}) :
                 c.active /\ None(down, {"UNSUBACK"}) /\ ~ Before(c.up, i, "UNSUBSCRIBE")
           /\ c.transport = "open" =>
                 /\ \A x, y \in c.pendingUnsub : x = y
                 /\ ~ c.active => c.pendingUnsub = {}

\* No more answers to pings come than pings are counted
Pinging == silent \/ Cardinality(At(c.up, {"PINGREQ"})) + Cardinality(At(down, {"PINGRESP"})) <= c.pings

IInv == /\ Typed /\ Phases /\ Understood /\ Exchanges
        /\ Subscriptions /\ Receipts /\ Hearing /\ Pinging

-----------------------------------------------------------------------------
(* Sequences of packets *)

\* A sequence of packets, and one with a packet more at its end.
LEMMA Appended ==
    ASSUME NEW S, NEW s \in Seq(S), NEW e \in S
    PROVE  /\ Append(s, e) \in Seq(S) /\ Len(s) \in Nat /\ Len(Append(s, e)) = Len(s) + 1
           /\ \A i \in 1..Len(s) : Append(s, e)[i] = s[i]
           /\ Append(s, e)[Len(s) + 1] = e
           /\ \A i : i \in 1..Len(Append(s, e)) <=> i \in 1..Len(s) \/ i = Len(s) + 1
           /\ \A i \in 1..Len(s) : i # Len(s) + 1 /\ i <= Len(s) + 1 /\ ~ (Len(s) + 1 <= i)
<1> DEFINE t == Append(s, e)
<1>1. /\ t \in Seq(S) /\ Len(s) \in Nat /\ Len(t) = Len(s) + 1
      /\ \A i \in 1..Len(s) : t[i] = s[i]
      /\ t[Len(s) + 1] = e
  BY AppendProperties
<1> HIDE DEF t
<1>2. \A i : i \in 1..Len(t) <=> i \in 1..Len(s) \/ i = Len(s) + 1
  BY <1>1
<1>3. \A i \in 1..Len(s) : i # Len(s) + 1 /\ i <= Len(s) + 1 /\ ~ (Len(s) + 1 <= i)
  BY <1>1
<1> QED BY <1>1, <1>2, <1>3 DEF t

\* The positions of the packets of certain types, with a packet more.
LEMMA AppendedAt ==
    ASSUME NEW S, NEW s \in Seq(S), NEW e \in S, NEW T
    PROVE  /\ e.type \in T => At(Append(s, e), T) = At(s, T) \cup {Len(s) + 1}
           /\ e.type \notin T => At(Append(s, e), T) = At(s, T)
           /\ None(Append(s, e), T) <=> None(s, T) /\ e.type \notin T
           /\ \A i \in At(s, T) : i \in 1..Len(s) /\ Append(s, e)[i] = s[i]
<1> DEFINE t == Append(s, e)
<1>1. /\ t \in Seq(S) /\ Len(s) \in Nat
      /\ \A i \in 1..Len(s) : t[i] = s[i]
      /\ t[Len(s) + 1] = e
      /\ \A i : i \in 1..Len(t) <=> i \in 1..Len(s) \/ i = Len(s) + 1
  BY Appended
<1> HIDE DEF t
<1>2. \A i \in At(s, T) : i \in 1..Len(s) /\ t[i] = s[i]
  BY <1>1 DEF At
<1>3. \A i : i \in At(t, T) <=> (i \in At(s, T) \/ (i = Len(s) + 1 /\ e.type \in T))
  BY <1>1 DEF At
<1>4. None(t, T) <=> None(s, T) /\ e.type \notin T
  BY <1>1 DEF None
<1>5. e.type \in T => At(t, T) = At(s, T) \cup {Len(s) + 1}
  BY <1>3
<1>6. e.type \notin T => At(t, T) = At(s, T)
  BY <1>3
<1> QED BY <1>2, <1>4, <1>5, <1>6 DEF t

\* The positions of the packets of certain types, when the first packet is gone.
LEMMA TailAt ==
    ASSUME NEW S, NEW s \in Seq(S), Len(s) > 0
    PROVE  /\ Tail(s) \in Seq(S) /\ Len(s) \in Nat /\ Len(Tail(s)) = Len(s) - 1 /\ Head(s) = s[1]
           /\ s[1] \in S
           /\ \A i \in 1..Len(Tail(s)) : i \in Nat /\ i + 1 \in 1..Len(s) /\ Tail(s)[i] = s[i + 1] 
           /\ \A T : \A i \in At(Tail(s), T) : i \in Nat /\ i + 1 \in At(s, T) /\ Tail(s)[i] = s[i + 1]
           /\ \A T : \A i \in At(s, T) : i # 1 => i \in Nat /\ i - 1 \in At(Tail(s), T) /\ Tail(s)[i - 1] = s[i]
           /\ \A T : None(s, T) => None(Tail(s), T) /\ s[1].type \notin T
           /\ \A T : 1 \in At(s, T) <=> s[1].type \in T
<1> DEFINE t == Tail(s)
<1>1. s # <<>> /\ Len(s) \in Nat
  BY EmptySeq, LenProperties
<1>2. /\ t \in Seq(S) /\ Len(t) = Len(s) - 1 /\ \A i \in 1..Len(t) : t[i] = s[i + 1]
  BY <1>1, HeadTailProperties
<1>3. Head(s) = s[1] /\ s[1] \in S
  BY <1>1, HeadTailProperties, ElementOfSeq
<1> HIDE DEF t
<1>4. \A i \in 1..Len(t) : i \in Nat /\ i + 1 \in 1..Len(s) /\ t[i] = s[i + 1]
  BY <1>1, <1>2
<1>5. ASSUME NEW T, NEW i \in At(t, T) PROVE i \in Nat /\ i + 1 \in At(s, T) /\ t[i] = s[i + 1]
  BY <1>4 DEF At
<1>6. ASSUME NEW T, NEW i \in At(s, T), i # 1
      PROVE  i \in Nat /\ i - 1 \in At(t, T) /\ t[i - 1] = s[i]
  <2>1. i \in 1..Len(s) /\ s[i].type \in T
    BY DEF At
  <2>2. i - 1 \in 1..Len(t) /\ (i - 1) + 1 = i
    BY <1>1, <1>2, <1>6, <2>1
  <2>3. t[i - 1] = s[i]
    BY <1>2, <2>2
  <2> QED BY <2>1, <2>2, <2>3 DEF At
<1>7. ASSUME NEW T, None(s, T) PROVE None(t, T) /\ s[1].type \notin T
  <2>1. 1 \in 1..Len(s)
    BY <1>1
  <2> QED BY <1>4, <1>7, <2>1 DEF None
<1>8. ASSUME NEW T PROVE 1 \in At(s, T) <=> s[1].type \in T
  <2>1. 1 \in 1..Len(s)
    BY <1>1
  <2> QED BY <2>1 DEF At
<1> QED BY <1>1, <1>2, <1>3, <1>4, <1>5, <1>6, <1>7, <1>8 DEF t

\* Nothing is in an empty sequence.
LEMMA EmptyAt ==
    ASSUME NEW s, Len(s) = 0
    PROVE  \A T : At(s, T) = {} /\ None(s, T)
<1>1. \A i : i \notin 1..Len(s)
  OBVIOUS
<1> QED BY <1>1 DEF At, None

\* There is none where there are no positions.
LEMMA NoneAt ==
    ASSUME NEW s, NEW T
    PROVE  None(s, T) <=> At(s, T) = {}
<1> QED BY DEF At, None

-----------------------------------------------------------------------------
(* Requests and answers *)

\* A packet is sent: a request takes an identifier for which nothing waits.
LEMMA FlightSends ==
    ASSUME NEW S, NEW u \in Seq(S), NEW p \in S, NEW d, NEW R, NEW A, NEW W, NEW V,
           Flight(u, d, R, A, W), W \subseteq V,
           p.type \in R => p.id \in V /\ p.id \notin W
    PROVE  Flight(Append(u, p), d, R, A, V)
<1> DEFINE t == Append(u, p)
<1>1. /\ p.type \in R => At(t, R) = At(u, R) \cup {Len(u) + 1}
      /\ p.type \notin R => At(t, R) = At(u, R)
      /\ \A i \in At(u, R) : i \in 1..Len(u) /\ t[i] = u[i]
  BY AppendedAt
<1>2. t[Len(u) + 1] = p
  BY Appended
<1> HIDE DEF t
<1>0. AreIn(d, A, V) /\ Differ(d, A)
  BY DEF Flight, AreIn
<1>3. CASE p.type \notin R
  <2>1. \A i \in At(t, R) : i \in At(u, R) /\ t[i] = u[i]
    BY <1>1, <1>3
  <2>2. AreIn(t, R, V)
    BY <2>1 DEF Flight, AreIn
  <2>3. Differ(t, R)
    BY <2>1 DEF Flight, Differ
  <2>4. Apart(t, R, d, A)
    BY <2>1 DEF Flight, Apart
  <2> QED BY <1>0, <2>2, <2>3, <2>4 DEF Flight, t
<1>4. CASE p.type \in R
  <2>1. \A i \in At(t, R) : i \in At(u, R) \/ (i = Len(u) + 1 /\ t[i].id = p.id)
    BY <1>1, <1>2, <1>4
  <2>2. \A i \in At(u, R) : t[i].id = u[i].id /\ u[i].id # p.id /\ u[i].id \in V
    BY <1>1, <1>4 DEF Flight, AreIn
  <2>3. \A i \in At(d, A) : d[i].id # p.id
    BY <1>4 DEF Flight, AreIn
  <2>4. AreIn(t, R, V)
    BY <1>4, <2>1, <2>2 DEF AreIn
  <2>5. Differ(t, R)
    BY <2>1, <2>2 DEF Flight, Differ
  <2>6. Apart(t, R, d, A)
    BY <2>1, <2>2, <2>3 DEF Flight, Apart
  <2> QED BY <1>0, <2>4, <2>5, <2>6 DEF Flight, t
<1> QED BY <1>3, <1>4 DEF t

\* A packet comes that answers nothing.
LEMMA FlightAdds ==
    ASSUME NEW S, NEW d \in Seq(S), NEW p \in S, NEW u, NEW R, NEW A, NEW W,
           Flight(u, d, R, A, W), p.type \notin A
    PROVE  Flight(u, Append(d, p), R, A, W)
<1>1. /\ At(Append(d, p), A) = At(d, A)
      /\ \A i \in At(d, A) : Append(d, p)[i] = d[i]
  BY AppendedAt
<1>2. AreIn(Append(d, p), A, W) /\ Differ(Append(d, p), A) /\ Apart(u, R, Append(d, p), A)
  BY <1>1 DEF Flight, AreIn, Differ, Apart
<1> QED BY <1>2 DEF Flight

\* The first request is answered.
LEMMA FlightTurns ==
    ASSUME NEW S, NEW u \in Seq(S), Len(u) > 0, NEW Z, NEW d \in Seq(Z), NEW p \in Z,
           NEW R, NEW A, NEW W, Flight(u, d, R, A, W),
           u[1].type \in R, p.type \in A, p.id = u[1].id
    PROVE  Flight(Tail(u), Append(d, p), R, A, W)
<1> DEFINE t == Append(d, p)
           v == Tail(u)
<1>1. /\ At(t, A) = At(d, A) \cup {Len(d) + 1}
      /\ \A i \in At(d, A) : i \in 1..Len(d) /\ t[i] = d[i]
  BY AppendedAt
<1>2. t[Len(d) + 1] = p
  BY Appended
<1>3. \A i \in At(v, R) : i \in Nat /\ i + 1 \in At(u, R) /\ v[i] = u[i + 1] /\ i + 1 # 1
  <2>1. \A i \in At(v, R) : i \in 1..Len(v)
    BY DEF At
  <2>2. Len(v) \in Nat
    BY TailAt, LenProperties
  <2>3. \A i \in At(v, R) : i + 1 # 1
    BY <2>1, <2>2
  <2>4. \A i \in At(Tail(u), R) : i \in Nat /\ i + 1 \in At(u, R) /\ Tail(u)[i] = u[i + 1]
    BY TailAt, ZenonT(30)
  <2> QED BY <2>3, <2>4
<1>4. 1 \in At(u, R)
  BY TailAt
<1> HIDE DEF t, v
<1>5. \A i \in At(t, A) : i \in At(d, A) \/ (i = Len(d) + 1 /\ t[i].id = u[1].id)
  BY <1>1, <1>2
<1>6. \A i \in At(d, A) : t[i].id = d[i].id /\ d[i].id # u[1].id /\ d[i].id \in W
  BY <1>1, <1>4 DEF Flight, AreIn, Apart
<1>7. \A i \in At(v, R) : v[i].id \in W /\ v[i].id # u[1].id
  BY <1>3, <1>4 DEF Flight, AreIn, Differ
<1>8. u[1].id \in W
  BY <1>4 DEF Flight, AreIn
<1>9. AreIn(v, R, W) /\ AreIn(t, A, W)
  BY <1>5, <1>6, <1>7, <1>8 DEF AreIn
<1>10. Differ(v, R)
  BY <1>3 DEF Flight, Differ
<1>11. Differ(t, A)
  BY <1>5, <1>6 DEF Flight, Differ
<1>12. Apart(v, R, t, A)
  <2> SUFFICES ASSUME NEW i \in At(v, R), NEW j \in At(t, A) PROVE v[i].id # t[j].id
    BY DEF Apart
  <2>1. CASE j \in At(d, A)
    BY <1>3, <1>6, <2>1 DEF Flight, Apart
  <2>2. CASE j \notin At(d, A)
    BY <1>5, <1>7, <2>2
  <2> QED BY <2>1, <2>2
<1> QED BY <1>9, <1>10, <1>11, <1>12 DEF Flight, t, v

\* The first packet that was sent is read, and not answered.
LEMMA FlightDrops ==
    ASSUME NEW S, NEW u \in Seq(S), Len(u) > 0, NEW d, NEW R, NEW A, NEW W, Flight(u, d, R, A, W)
    PROVE  Flight(Tail(u), d, R, A, W)
<1> DEFINE v == Tail(u)
<1>1. \A i \in At(v, R) : i \in Nat /\ i + 1 \in At(u, R) /\ v[i] = u[i + 1]
  BY TailAt, ZenonT(30)
<1> HIDE DEF v
<1>2. AreIn(v, R, W)
  BY <1>1 DEF Flight, AreIn
<1>3. Differ(v, R)
  BY <1>1 DEF Flight, Differ
<1>4. Apart(v, R, d, A)
  BY <1>1 DEF Flight, Apart
<1> QED BY <1>2, <1>3, <1>4 DEF Flight, v

\* The first packet that came is taken; if it is an answer it is waited for no longer.
LEMMA FlightTakes ==
    ASSUME NEW S, NEW d \in Seq(S), Len(d) > 0, NEW u, NEW R, NEW A, NEW W, NEW V,
           Flight(u, d, R, A, W), d[1].type \in A => W \ {d[1].id} \subseteq V,
           d[1].type \notin A => W \subseteq V
    PROVE  Flight(u, Tail(d), R, A, V)
<1> DEFINE t == Tail(d)
<1>1. \A i \in At(t, A) : i \in Nat /\ i + 1 \in At(d, A) /\ t[i] = d[i + 1] /\ i + 1 # 1
  <2>1. \A i \in At(t, A) : i \in 1..Len(t)
    BY DEF At
  <2>2. Len(t) \in Nat
    BY TailAt, LenProperties
  <2>3. \A i \in At(t, A) : i + 1 # 1
    BY <2>1, <2>2
  <2>4. \A i \in At(Tail(d), A) : i \in Nat /\ i + 1 \in At(d, A) /\ Tail(d)[i] = d[i + 1]
    BY TailAt, ZenonT(30)
  <2> QED BY <2>3, <2>4
<1>2. 1 \in At(d, A) <=> d[1].type \in A
  BY TailAt
<1> HIDE DEF t
<1>3. Differ(t, A)
  BY <1>1 DEF Flight, Differ
<1>4. Apart(u, R, t, A)
  BY <1>1 DEF Flight, Apart
<1>5. \A i \in At(t, A) : t[i].id \in W /\ (d[1].type \in A => t[i].id # d[1].id)
  BY <1>1, <1>2 DEF Flight, AreIn, Differ
<1>6. \A i \in At(u, R) : u[i].id \in W /\ (d[1].type \in A => u[i].id # d[1].id)
  BY <1>2 DEF Flight, AreIn, Apart
<1>7. AreIn(t, A, V) /\ AreIn(u, R, V)
  BY <1>5, <1>6 DEF AreIn
<1> QED BY <1>3, <1>4, <1>7 DEF Flight, t

\* Nothing is under way when nothing was sent and nothing has come.
LEMMA FlightEmpty ==
    ASSUME NEW u, NEW d, NEW R, NEW A, NEW W, None(u, R), None(d, A)
    PROVE  Flight(u, d, R, A, W)
<1> QED BY NoneAt DEF Flight, AreIn, Differ, Apart

-----------------------------------------------------------------------------
(* Counting *)

\* Positions are finite in number.
LEMMA AtFinite ==
    ASSUME NEW S, NEW s \in Seq(S), NEW T
    PROVE  IsFiniteSet(At(s, T)) /\ Cardinality(At(s, T)) \in Nat
<1>1. Len(s) \in Nat
  BY LenProperties
<1>2. IsFiniteSet(1..Len(s))
  BY <1>1, FS_Interval
<1>3. At(s, T) \in SUBSET (1..Len(s))
  BY DEF At
<1> QED BY <1>2, <1>3, FS_Subset, FS_CardinalityType

\* A packet more is counted if it is of the type.
LEMMA CountAppended ==
    ASSUME NEW S, NEW s \in Seq(S), NEW e \in S, NEW T
    PROVE  Cardinality(At(Append(s, e), T)) =
             IF e.type \in T THEN Cardinality(At(s, T)) + 1 ELSE Cardinality(At(s, T))
<1>1. IsFiniteSet(At(s, T))
  BY AtFinite
<1>2. Len(s) + 1 \notin At(s, T)
  <2>1. Len(s) \in Nat
    BY LenProperties
  <2>2. Len(s) + 1 \notin 1..Len(s)
    BY <2>1
  <2> QED BY <2>2 DEF At
<1>3. Cardinality(At(s, T) \cup {Len(s) + 1}) = Cardinality(At(s, T)) + 1
  BY <1>1, <1>2, FS_AddElement
<1> QED BY <1>3, AppendedAt, ZenonT(30)

\* The first packet is no longer counted when it is gone.
LEMMA CountTail ==
    ASSUME NEW S, NEW s \in Seq(S), Len(s) > 0, NEW T
    PROVE  Cardinality(At(Tail(s), T)) =
             IF s[1].type \in T THEN Cardinality(At(s, T)) - 1 ELSE Cardinality(At(s, T))
<1> DEFINE t == Tail(s)
           Rest == At(s, T) \ {1}
           Shift == [i \in At(t, T) |-> i + 1]
<1>1. t \in Seq(S)
  BY TailAt
<1>2. \A i \in At(t, T) : i \in Nat /\ i + 1 \in At(s, T) /\ i + 1 # 1
  <2>1. \A i \in At(t, T) : i \in 1..Len(t)
    BY DEF At
  <2>2. Len(t) \in Nat
    BY <1>1, LenProperties
  <2>3. \A i \in At(t, T) : i + 1 # 1
    BY <2>1, <2>2
  <2> QED BY <2>3, TailAt
<1>3. \A i \in Rest : i \in Nat /\ i - 1 \in At(t, T) /\ (i - 1) + 1 = i
  BY TailAt
<1>4. 1 \in At(s, T) <=> s[1].type \in T
  BY TailAt
<1>5. IsFiniteSet(At(t, T)) /\ IsFiniteSet(At(s, T)) /\ Cardinality(At(s, T)) \in Nat
  BY <1>1, AtFinite
<1> HIDE DEF t
<1>6. Shift \in Bijection(At(t, T), Rest)
  <2>1. Shift \in [At(t, T) -> Rest]
    BY <1>2
  <2>2. \A i, j \in At(t, T) : Shift[i] = Shift[j] => i = j
    BY <1>2
  <2>3. \A j \in Rest : \E i \in At(t, T) : Shift[i] = j
    BY <1>3
  <2> QED BY <2>1, <2>2, <2>3 DEF Bijection, Injection, Surjection, IsInjective
<1>7. Cardinality(Rest) = Cardinality(At(t, T))
  BY <1>5, <1>6, FS_Bijection DEF ExistsBijection
<1>8. Cardinality(Rest) = IF 1 \in At(s, T) THEN Cardinality(At(s, T)) - 1 ELSE Cardinality(At(s, T))
  BY <1>5, FS_RemoveElement
<1> QED BY <1>4, <1>7, <1>8 DEF t

-----------------------------------------------------------------------------
(* Packet identifiers *)

\* The least of a set of natural numbers is one of them.
LEMMA MinIsIn ==
    ASSUME NEW N \in SUBSET Nat, N # {}
    PROVE  Min(N) \in N /\ \A n \in N : Min(N) <= n
<1>1. IsWellFoundedOn(OpToRel(<, Nat), Nat)
  BY NatLessThanWellFounded
<1>2. PICK x \in N : \A y \in N : ~ (<<y, x>> \in OpToRel(<, Nat))
  BY <1>1, WFMin
<1>3. \A y \in N : x <= y
  <2>1. OpToRel(<, Nat) = {ss \in Nat \X Nat : ss[1] < ss[2]}
    BY DEF OpToRel
  <2>2. ASSUME NEW y \in N, y < x PROVE FALSE
    <3>1. <<y, x>> \in {ss \in Nat \X Nat : ss[1] < ss[2]}
      BY <2>2
    <3> QED BY <1>2, <2>1, <3>1
  <2> QED BY <2>2
<1> QED BY <1>3 DEF Min

\* Identifiers of what waits.
LEMMA InUseType ==
    ASSUME NEW k \in Client
    PROVE  InUse(k) \subseteq Identifiers
<1> QED BY DEF InUse, Ids, Client, Waiting

\* The new identifier is one of those there are; it is either the last one again, after a whole
\* turn, or in no use; and it is in no use if one is left.
LEMMA IdentifierFound ==
    ASSUME NEW k \in Client
    PROVE  /\ UnusedIdentifier(k) \in Identifiers
           /\ UnusedIdentifier(k) = k.counter \/ UnusedIdentifier(k) \notin InUse(k)
           /\ Cardinality(InUse(k)) < MaxId => UnusedIdentifier(k) \notin InUse(k)
<1> DEFINE after(n) == ((k.counter - 1 + n) % MaxId) + 1
           N == {n \in 1..MaxId : n = MaxId \/ after(n) \notin InUse(k)}
<1> USE MqttAssumption DEF Identifiers
<1>1. k.counter \in 1..MaxId
  BY DEF Client
<1>2. \A n \in 1..MaxId : after(n) \in 1..MaxId
  BY <1>1
<1>3. after(MaxId) = k.counter
  BY <1>1
<1>4. UnusedIdentifier(k) = after(Min(N))
  BY DEF UnusedIdentifier
<1>5. Min(N) \in N /\ \A n \in N : Min(N) <= n
  <2>1. MaxId \in N
    OBVIOUS
  <2>2. N \in SUBSET Nat
    OBVIOUS
  <2> HIDE DEF N
  <2> QED BY ONLY <2>1, <2>2, MinIsIn
<1>6. ASSUME Cardinality(InUse(k)) < MaxId PROVE after(Min(N)) \notin InUse(k)
  <2>1. PICK x \in 1..MaxId : x \notin InUse(k)
    <3>1. Cardinality(1..MaxId) = MaxId
      BY FS_Interval
    <3>2. InUse(k) # 1..MaxId
      BY <1>6, <3>1
    <3> QED BY <3>2, InUseType
  <2> DEFINE n == IF x > k.counter THEN x - k.counter ELSE MaxId - k.counter + x
  <2>2. n \in 1..MaxId
    BY <1>1
  <2>3. after(n) = x
    <3>1. CASE x > k.counter
      <4>1. k.counter - 1 + n = x - 1
        BY <1>1, <3>1
      <4>2. x - 1 \in 0..(MaxId - 1)
        OBVIOUS
      <4>3. (x - 1) % MaxId = x - 1
        BY <4>2
      <4> QED BY <4>1, <4>3
    <3>2. CASE x <= k.counter
      <4>1. k.counter - 1 + n = MaxId + (x - 1)
        BY <1>1, <3>2
      <4>2. x - 1 \in 0..(MaxId - 1)
        OBVIOUS
      <4>3. (MaxId + (x - 1)) % MaxId = x - 1
        BY <4>2
      <4> QED BY <4>1, <4>3
    <3> QED BY <1>1, <3>1, <3>2
  <2> HIDE DEF n, after
  <2>4. n \in N
    BY <2>1, <2>2, <2>3
  <2>5. Min(N) <= n /\ Min(N) \in 1..MaxId
    BY <1>5, <2>4
  <2>6. CASE Min(N) = MaxId
    <3>1. n = MaxId
      BY <2>2, <2>5, <2>6
    <3> QED BY <2>1, <2>3, <2>6, <3>1
  <2>7. CASE Min(N) # MaxId
    BY <1>5, <2>7
  <2> QED BY <2>6, <2>7
<1> HIDE DEF after
<1>7. after(Min(N)) = k.counter \/ after(Min(N)) \notin InUse(k)
  BY <1>3, <1>5
<1>8. after(Min(N)) \in 1..MaxId
  BY <1>2, <1>5
<1> QED BY <1>4, <1>6, <1>7, <1>8

-----------------------------------------------------------------------------
(* What the handlers make of the client *)

\* No packets are a sequence of packets; no pings are a number of pings.
LEMMA Nothing ==
    /\ <<>> \in Seq(UpPacket) /\ <<>> \in Seq(DownPacket) /\ Len(<<>>) = 0
    /\ 0 \in Counts
<1>1. 0 \in Counts
  BY DEF Counts
<1> QED BY <1>1, EmptySeq

\* r is k without a connection.
Ended(k, r) ==
    /\ r \in Client /\ r.state = "Disconnected" /\ r.internal # "BrokerConnected"
    /\ r.transport \notin {"opening", "open"} /\ Unsaid(r) /\ Len(r.up) = 0
    /\ r.counter = k.counter /\ r.pendingMsg = k.pendingMsg /\ r.pendingRel = k.pendingRel

\* The client that is told of a disconnection stops its timer.
LEMMA SetDisconnected ==
    ASSUME NEW k \in Client, k.timer => k.state # "Disconnected"
    PROVE  SetState(k, "Disconnected") = [k EXCEPT !.state = "Disconnected", !.timer = FALSE]
<1>1. CASE k.state = "Disconnected"
  <2>1. k.timer = FALSE
    BY <1>1 DEF Client
  <2>2. SetState(k, "Disconnected") = k
    BY <1>1 DEF SetState
  <2> QED BY <1>1, <2>1, <2>2 DEF Client
<1>2. CASE k.state # "Disconnected"
  BY <1>2 DEF Client, SetState, OnClientDisconnected
<1> QED BY <1>1, <1>2

\* closeConnection ends the connection.
LEMMA CloseEnds ==
    ASSUME NEW k \in Client, k.timer => k.state # "Disconnected",
           NEW e \in {"TransportInvalid", "ServerUnavailable", "Refused"}
    PROVE  Ended(k, CloseConnection(k, e)) /\ CloseConnection(k, e).transport = "closed"
<1> DEFINE s == <<>>
           r == [k EXCEPT !.pingTimer = FALSE, !.pings = 0, !.active = FALSE, !.up = s,
                          !.internal = "BrokerDisconnected", !.transport = "closed"]
           t == [r EXCEPT !.error = e]
           u == [t EXCEPT !.state = "Disconnected", !.timer = FALSE]
<1>0. s \in Seq(UpPacket) /\ Len(s) = 0 /\ 0 \in Counts
  BY Nothing
<1> HIDE DEF s
<1>1. r \in Client /\ r.timer = k.timer /\ r.state = k.state
  BY <1>0 DEF Client
<1>2. /\ r.counter = k.counter /\ r.pendingMsg = k.pendingMsg /\ r.pendingRel = k.pendingRel
      /\ r.internal = "BrokerDisconnected" /\ r.transport = "closed" /\ r.up = s
      /\ r.pingTimer = FALSE /\ r.active = FALSE /\ r.pings = 0
  BY DEF Client
<1>3. CloseConnection(k, e) = SetState(t, "Disconnected")
  BY DEF CloseConnection, SetStateAndError, s
<1> HIDE DEF r
<1>4. t \in Client /\ t.timer = k.timer /\ t.state = k.state
  BY <1>1 DEF Client
<1>5. /\ t.counter = k.counter /\ t.pendingMsg = k.pendingMsg /\ t.pendingRel = k.pendingRel
      /\ t.internal = "BrokerDisconnected" /\ t.transport = "closed" /\ t.up = s
      /\ t.pingTimer = FALSE /\ t.active = FALSE /\ t.pings = 0
  BY <1>1, <1>2 DEF Client
<1> HIDE DEF t
<1>6. CloseConnection(k, e) = u
  BY <1>3, <1>4, SetDisconnected
<1>7. u \in Client /\ u.timer = FALSE /\ u.state = "Disconnected"
  BY <1>4 DEF Client
<1>8. /\ u.counter = k.counter /\ u.pendingMsg = k.pendingMsg /\ u.pendingRel = k.pendingRel
      /\ u.internal = "BrokerDisconnected" /\ u.transport = "closed" /\ u.up = s
      /\ u.pingTimer = FALSE /\ u.active = FALSE /\ u.pings = 0
  BY <1>4, <1>5 DEF Client
<1> HIDE DEF u
<1> QED BY <1>0, <1>6, <1>7, <1>8 DEF Ended, Unsaid

\* A transport that has closed ends a connection that was not made, or was said to end.
LEMMA ClosedEnds ==
    ASSUME NEW k \in Client, k.timer => k.state # "Disconnected",
           ~ k.active, k.internal # "BrokerConnected"
    PROVE  Ended(k, ConnectionClosed(k)) /\ ConnectionClosed(k).transport = "closed"
<1> DEFINE s == <<>>
           r == [k EXCEPT !.pingTimer = FALSE, !.pings = 0, !.up = s, !.transport = "closed"]
           e == IF k.internal = "BrokerDisconnected" THEN k.error ELSE "TransportInvalid"
           t == [r EXCEPT !.error = e]
           u == [t EXCEPT !.state = "Disconnected", !.timer = FALSE]
<1>0. s \in Seq(UpPacket) /\ Len(s) = 0 /\ 0 \in Counts
  BY Nothing
<1>e. e \in {"NoError", "TransportInvalid", "ServerUnavailable", "Refused"}
  BY DEF Client
<1> HIDE DEF s
<1>1. r \in Client /\ r.timer = k.timer /\ r.state = k.state
  BY <1>0 DEF Client
<1>2. /\ r.counter = k.counter /\ r.pendingMsg = k.pendingMsg /\ r.pendingRel = k.pendingRel
      /\ r.internal = k.internal /\ r.transport = "closed" /\ r.up = s
      /\ r.pingTimer = FALSE /\ r.active = FALSE /\ r.pings = 0 /\ r.error = k.error
  BY DEF Client
<1>3. ConnectionClosed(k) = SetState(t, "Disconnected")
  <2>1. ConnectionClosed(k) =
          SetStateAndError(r, "Disconnected",
                           IF k.internal = "BrokerDisconnected" THEN "NoError" ELSE "TransportInvalid")
    BY DEF ConnectionClosed, s
  <2> HIDE DEF r
  <2>2. CASE k.internal = "BrokerDisconnected"
    BY <1>2, <2>1, <2>2 DEF SetStateAndError
  <2>3. CASE k.internal # "BrokerDisconnected"
    BY <1>2, <2>1, <2>3 DEF SetStateAndError
  <2> QED BY <2>2, <2>3
<1> HIDE DEF r, e
<1>4. t \in Client /\ t.timer = k.timer /\ t.state = k.state
  BY <1>1, <1>e DEF Client
<1>5. /\ t.counter = k.counter /\ t.pendingMsg = k.pendingMsg /\ t.pendingRel = k.pendingRel
      /\ t.internal = k.internal /\ t.transport = "closed" /\ t.up = s
      /\ t.pingTimer = FALSE /\ t.active = FALSE /\ t.pings = 0
  BY <1>1, <1>2 DEF Client
<1> HIDE DEF t
<1>6. ConnectionClosed(k) = u
  BY <1>3, <1>4, SetDisconnected
<1>7. u \in Client /\ u.timer = FALSE /\ u.state = "Disconnected"
  BY <1>4 DEF Client
<1>8. /\ u.counter = k.counter /\ u.pendingMsg = k.pendingMsg /\ u.pendingRel = k.pendingRel
      /\ u.internal = k.internal /\ u.transport = "closed" /\ u.up = s
      /\ u.pingTimer = FALSE /\ u.active = FALSE /\ u.pings = 0
  BY <1>4, <1>5 DEF Client
<1> HIDE DEF u
<1> QED BY <1>0, <1>6, <1>7, <1>8 DEF Ended, Unsaid

\* Fields that belong together
Link(k) == <<k.state, k.internal, k.transport, k.missing, k.pingTimer, k.timer>>
Topic(k) == <<k.active, k.sub, k.subId, k.pendingAck, k.pendingUnsub>>
Outbox(k) == <<k.pendingMsg, k.pendingRel>>

\* Packets of the client.
LEMMA PacketIsUp ==
    ASSUME NEW type \in UpType, NEW id, id = 0 \/ id \in Identifiers, NEW data \in Data
    PROVE  Packet(type, id, data) \in UpPacket
<1>1. id \in Nat
  BY MqttAssumption DEF Identifiers
<1> QED BY <1>1 DEF Packet, UpPacket

\* A packet is put in the buffer.
LEMMA Written ==
    ASSUME NEW k \in Client, k.transport = "open", NEW p \in UpPacket, NEW r, r = Write(k, p)
    PROVE  /\ r \in Client /\ r.up = Append(k.up, p)
           /\ Link(r) = Link(k) /\ Topic(r) = Topic(k) /\ Outbox(r) = Outbox(k)
           /\ r.counter = k.counter /\ r.pings = k.pings /\ r.error = k.error
<1> DEFINE s == Append(k.up, p)
<1>1. k.up \in Seq(UpPacket)
  BY DEF Client
<1>2. s \in Seq(UpPacket)
  BY <1>1, AppendProperties
<1>3. r = [k EXCEPT !.up = s]
  BY DEF Write
<1> HIDE DEF s
<1>4. r \in Client /\ r.up = s
  BY <1>2, <1>3 DEF Client
<1>5. Link(r) = Link(k)
  BY <1>3 DEF Client, Link
<1>6. Topic(r) = Topic(k) /\ Outbox(r) = Outbox(k)
  BY <1>3 DEF Client, Topic, Outbox
<1>7. r.counter = k.counter /\ r.pings = k.pings /\ r.error = k.error
  BY <1>3 DEF Client
<1> QED BY <1>4, <1>5, <1>6, <1>7 DEF s

\* Disconnecting, when the packet cannot be written: the transport stays open.
LEMMA SaysGoodbye ==
    ASSUME NEW k \in Client, k.transport = "open", NEW r, r = SendDisconnect(k, FALSE)
    PROVE  /\ r \in Client /\ r.up = Append(k.up, Packet("DISCONNECT", 0, "none"))
           /\ r.state = k.state /\ r.internal = "BrokerDisconnected" /\ r.transport = "open"
           /\ r.missing = k.missing /\ r.timer = k.timer
           /\ r.pingTimer = FALSE /\ r.pings = 0 /\ r.active = FALSE
           /\ r.pendingUnsub = k.pendingUnsub /\ Outbox(r) = Outbox(k) /\ r.counter = k.counter
<1> DEFINE p == Packet("DISCONNECT", 0, "none")
           w == Write(k, p)
<1>1. p \in UpPacket
  BY PacketIsUp DEF UpType, Data
<1> HIDE DEF p
<1>2. /\ w \in Client /\ w.up = Append(k.up, p) /\ Link(w) = Link(k) /\ Topic(w) = Topic(k)
      /\ Outbox(w) = Outbox(k) /\ w.counter = k.counter
  BY <1>1, Written
<1>3. r = [w EXCEPT !.pingTimer = FALSE, !.pings = 0, !.active = FALSE, !.internal = "BrokerDisconnected"]
  BY DEF SendDisconnect, p
<1> HIDE DEF w
<1>4. r \in Client /\ r.up = w.up /\ r.state = w.state /\ r.internal = "BrokerDisconnected"
  BY <1>2, <1>3, Nothing, ZenonT(30) DEF Client
<1>5. r.transport = w.transport /\ r.missing = w.missing /\ r.timer = w.timer /\ r.counter = w.counter
  BY <1>2, <1>3 DEF Client
<1>6. r.pendingUnsub = w.pendingUnsub /\ Outbox(r) = Outbox(w)
  BY <1>2, <1>3 DEF Client, Outbox
<1>7. r.pingTimer = FALSE /\ r.pings = 0 /\ r.active = FALSE
  BY <1>2, <1>3 DEF Client
<1> QED BY <1>2, <1>4, <1>5, <1>6, <1>7 DEF Link, Topic, p

\* Disconnecting, when the packet is written.
LEMMA GoodbyeEnds ==
    ASSUME NEW k \in Client, k.transport = "open", k.timer => k.state # "Disconnected"
    PROVE  Ended(k, SendDisconnect(k, TRUE)) /\ SendDisconnect(k, TRUE).transport = "closed"
<1> DEFINE r == SendDisconnect(k, FALSE)
<1>1. SendDisconnect(k, TRUE) = ConnectionClosed(r)
  BY DEF SendDisconnect
<1>2. /\ r \in Client /\ r.state = k.state /\ r.internal = "BrokerDisconnected" /\ r.timer = k.timer
      /\ r.active = FALSE /\ r.counter = k.counter /\ Outbox(r) = Outbox(k)
  BY SaysGoodbye
<1> HIDE DEF r
<1>3. Ended(r, ConnectionClosed(r)) /\ ConnectionClosed(r).transport = "closed"
  BY <1>2, ClosedEnds
<1> QED BY <1>1, <1>2, <1>3 DEF Ended, Outbox

\* A start without a host, or after a transport that dangles, leaves the client without a connection.
LEMMA NoHostEnds ==
    ASSUME NEW k \in Client, Ended(k, k), NEW host \in BOOLEAN, ~ host \/ k.transport = "freed"
    PROVE  Ended(k, ConnectToHost(k, host))
<1> DEFINE e == EnsureTransport(k, host)
           r == [e EXCEPT !.error = "TransportInvalid"]
<1>1. k.transport \in {"none", "closed", "freed", "undefined"}
  BY DEF Client, Ended
<1>2. /\ e \in Client /\ e.transport \in {"none", "freed", "undefined"}
      /\ k.transport = "freed" => e.transport = "undefined"
      /\ e.state = k.state /\ e.internal = k.internal /\ e.up = k.up
      /\ e.counter = k.counter /\ e.pendingMsg = k.pendingMsg /\ e.pendingRel = k.pendingRel
  BY <1>1 DEF Client, EnsureTransport
<1>3. /\ e.pingTimer = k.pingTimer /\ e.timer = k.timer /\ e.active = k.active /\ e.pings = k.pings
  BY DEF Client, EnsureTransport
<1>4. Ended(k, e)
  BY <1>2, <1>3 DEF Ended, Unsaid
<1>5. ConnectToHost(k, host) = e \/ (~ host /\ ConnectToHost(k, host) = SetState(r, "Disconnected"))
  BY <1>2 DEF ConnectToHost, SetStateAndError, Ended
<1> HIDE DEF e
<1>6. /\ r \in Client /\ r.transport = e.transport /\ r.state = e.state /\ r.internal = e.internal
      /\ r.counter = e.counter /\ r.pendingMsg = e.pendingMsg /\ r.pendingRel = e.pendingRel
  BY <1>2 DEF Client
<1>7. /\ r.up = e.up /\ r.pingTimer = e.pingTimer /\ r.timer = e.timer /\ r.active = e.active
      /\ r.pings = e.pings
  BY <1>2 DEF Client
<1>8. SetState(r, "Disconnected") = r
  <2>1. r.state = "Disconnected"
    BY <1>4, <1>6 DEF Ended
  <2> HIDE DEF r
  <2> QED BY <2>1 DEF SetState
<1> HIDE DEF r
<1>9. Ended(k, r)
  BY <1>4, <1>6, <1>7 DEF Ended, Unsaid
<1> QED BY <1>4, <1>5, <1>8, <1>9

\* A start with a host opens a transport.
LEMMA HostOpens ==
    ASSUME NEW k \in Client, Ended(k, k), k.transport # "freed", NEW r, r = ConnectToHost(k, TRUE)
    PROVE  /\ r \in Client /\ r.state = "Connecting" /\ r.internal = "BrokerConnecting"
           /\ r.transport = "opening" /\ Unsaid(r) /\ r.pendingAck = {} /\ r.pendingUnsub = {}
           /\ Len(r.up) = 0 /\ r.counter = k.counter /\ Outbox(r) = Outbox(k)
<1> DEFINE e == [k EXCEPT !.transport = "opening"]
           n == [e EXCEPT !.error = "NoError", !.state = "Connecting"]
           v == IF n.active THEN "Unsubscribed" ELSE n.sub
           l == [n EXCEPT !.pendingAck = {}, !.pendingUnsub = {}, !.active = FALSE, !.sub = v]
<1>1. EnsureTransport(k, TRUE) = e
  BY DEF EnsureTransport
<1>2. /\ e \in Client /\ e.transport = "opening" /\ e.state = k.state /\ e.up = k.up
      /\ e.counter = k.counter /\ e.pendingMsg = k.pendingMsg /\ e.pendingRel = k.pendingRel
      /\ e.pingTimer = k.pingTimer /\ e.timer = k.timer /\ e.active = k.active /\ e.pings = k.pings
  BY DEF Client
<1>3. k.state = "Disconnected"
  BY DEF Ended
<1>4. r = EnsureTransportOpen(CleanSubscriptions(SetState([e EXCEPT !.error = "NoError"], "Connecting")))
  <2>1. r = LET opening == SetState([e EXCEPT !.error = "NoError"], "Connecting")
            IN  EnsureTransportOpen(CleanSubscriptions(opening))
    <3> HIDE DEF e
    <3> QED BY <1>1, <1>2, <1>3 DEF ConnectToHost
  <2> QED BY <2>1
<1> HIDE DEF e
<1>5. SetState([e EXCEPT !.error = "NoError"], "Connecting") = n
  BY <1>2, <1>3 DEF Client, SetState
<1>6. /\ n \in Client /\ n.transport = "opening" /\ n.state = "Connecting" /\ n.up = k.up
      /\ n.counter = k.counter /\ n.pendingMsg = k.pendingMsg /\ n.pendingRel = k.pendingRel
      /\ n.pingTimer = k.pingTimer /\ n.timer = k.timer /\ n.active = k.active /\ n.pings = k.pings
  BY <1>2 DEF Client
<1> HIDE DEF n
<1>7. CleanSubscriptions(n) = l
  BY DEF CleanSubscriptions
<1>8. v \in SubState
  BY <1>6 DEF Client, SubState
<1> HIDE DEF v
<1>z. l \in Client
  BY <1>6, <1>8 DEF Client
<1>9. /\ l.transport = n.transport /\ l.state = n.state /\ l.up = n.up
      /\ l.counter = n.counter /\ l.pendingMsg = n.pendingMsg /\ l.pendingRel = n.pendingRel
  BY <1>6 DEF Client
<1>10. /\ l.pingTimer = n.pingTimer /\ l.timer = n.timer /\ l.active = FALSE /\ l.pings = n.pings
       /\ l.pendingAck = {} /\ l.pendingUnsub = {}
  BY <1>6 DEF Client
<1> HIDE DEF l
<1>11. r = [l EXCEPT !.internal = "BrokerConnecting"]
  BY <1>4, <1>5, <1>7 DEF EnsureTransportOpen
<1>12. r \in Client /\ r.internal = "BrokerConnecting"
  BY <1>z, <1>11 DEF Client
<1>13. /\ r.transport = l.transport /\ r.state = l.state /\ r.up = l.up /\ r.counter = l.counter
       /\ r.pendingMsg = l.pendingMsg /\ r.pendingRel = l.pendingRel
  BY <1>z, <1>11 DEF Client
<1>14. /\ r.pingTimer = l.pingTimer /\ r.timer = l.timer /\ r.active = l.active /\ r.pings = l.pings
       /\ r.pendingAck = l.pendingAck /\ r.pendingUnsub = l.pendingUnsub
  BY <1>z, <1>11 DEF Client
<1> QED BY <1>6, <1>9, <1>10, <1>12, <1>13, <1>14, ZenonT(30) DEF Ended, Unsaid, Outbox

\* The connection is made: CONNECT is sent, and what was read of the last connection forgotten.
LEMMA SaysConnect ==
    ASSUME NEW k \in Client, k.transport = "opening", k.internal = "BrokerConnecting",
           NEW r, r = ConnectionEstablished(k)
    PROVE  /\ r \in Client /\ r.internal = "BrokerWaitForConnectAck" /\ r.transport = "open"
           /\ r.missing = "none" /\ r.up = Append(k.up, Packet("CONNECT", 0, "clean"))
           /\ r.state = k.state /\ r.pingTimer = k.pingTimer /\ r.timer = k.timer /\ r.pings = k.pings
           /\ r.counter = k.counter /\ Topic(r) = Topic(k) /\ Outbox(r) = Outbox(k)
<1> DEFINE o == [k EXCEPT !.transport = "open"]
           n == [o EXCEPT !.internal = "BrokerWaitForConnectAck", !.missing = "none"]
           p == Packet("CONNECT", 0, "clean")
<1>1. /\ o \in Client /\ o.internal = k.internal /\ o.transport = "open" /\ o.up = k.up
      /\ o.state = k.state /\ o.pingTimer = k.pingTimer /\ o.timer = k.timer /\ o.pings = k.pings
      /\ o.counter = k.counter
  BY DEF Client
<1>2. Topic(o) = Topic(k) /\ Outbox(o) = Outbox(k)
  BY DEF Client, Topic, Outbox
<1>3. r = SendConnect(o)
  BY <1>1 DEF ConnectionEstablished
<1> HIDE DEF o
<1>4. /\ n \in Client /\ n.internal = "BrokerWaitForConnectAck" /\ n.transport = "open" /\ n.up = k.up
      /\ n.state = k.state /\ n.pingTimer = k.pingTimer /\ n.timer = k.timer /\ n.pings = k.pings
      /\ n.counter = k.counter /\ n.missing = "none"
  BY <1>1 DEF Client
<1>5. Topic(n) = Topic(k) /\ Outbox(n) = Outbox(k)
  BY <1>1, <1>2 DEF Client, Topic, Outbox
<1>6. r = Write(n, p)
  BY <1>3 DEF SendConnect
<1>7. p \in UpPacket
  BY PacketIsUp DEF UpType, Data
<1> HIDE DEF n, p
<1>8. /\ r \in Client /\ r.up = Append(n.up, p)
      /\ Link(r) = Link(n) /\ Topic(r) = Topic(n) /\ Outbox(r) = Outbox(n)
      /\ r.counter = n.counter /\ r.pings = n.pings
  BY <1>4, <1>6, <1>7, Written
<1> QED BY <1>4, <1>5, <1>8 DEF Link, p

\* An active subscription is made: a request with a new identifier, whose answer is for it.
LEMMA Subscribes ==
    ASSUME NEW k \in Client, k.transport = "open", ~ k.active, NEW r, r = SendSubscribe(k)
    PROVE  LET id == UnusedIdentifier(k) IN
           /\ r \in Client /\ Packet("SUBSCRIBE", id, "ctl") \in UpPacket
           /\ r.up = Append(k.up, Packet("SUBSCRIBE", id, "ctl"))
           /\ Link(r) = Link(k) /\ Outbox(r) = Outbox(k) /\ r.pings = k.pings
           /\ r.counter = id /\ r.active = TRUE /\ r.sub = "Pending" /\ r.subId = id
           /\ r.pendingAck = k.pendingAck \cup {id} /\ r.pendingUnsub = k.pendingUnsub
<1> DEFINE id == UnusedIdentifier(k)
           p == Packet("SUBSCRIBE", id, "ctl")
           w == Write(k, p)
           n == k.pendingAck \cup {id}
<1>1. id \in Identifiers
  BY IdentifierFound
<1>2. r = [w EXCEPT !.counter = id, !.pendingAck = @ \cup {id}, !.active = TRUE, !.subId = id,
                    !.sub = "Pending"]
  BY DEF SendSubscribe
<1> HIDE DEF id
<1>3. p \in UpPacket
  BY <1>1, PacketIsUp DEF UpType, Data
<1> HIDE DEF p
<1>4. /\ w \in Client /\ w.up = Append(k.up, p) /\ Link(w) = Link(k) /\ Topic(w) = Topic(k)
      /\ Outbox(w) = Outbox(k) /\ w.pings = k.pings
  BY <1>3, Written
<1> HIDE DEF w
<1>5. w.pendingAck = k.pendingAck /\ w.pendingUnsub = k.pendingUnsub
  BY <1>4 DEF Topic
<1>6. r = [w EXCEPT !.counter = id, !.pendingAck = n, !.active = TRUE, !.subId = id, !.sub = "Pending"]
  BY <1>2, <1>5
<1>7. n \in SUBSET Identifiers /\ "Pending" \in SubState /\ id \in SubIds
  BY <1>1 DEF Client, SubState, SubIds
<1> HIDE DEF n
<1>8. r \in Client
  BY <1>1, <1>4, <1>6, <1>7, ZenonT(30) DEF Client
<1>9. Link(r) = Link(w) /\ Outbox(r) = Outbox(w)
  BY <1>4, <1>6 DEF Client, Link, Outbox
<1>10. r.up = w.up /\ r.pings = w.pings /\ r.pendingUnsub = w.pendingUnsub
  BY <1>4, <1>6 DEF Client
<1>11. r.counter = id /\ r.active = TRUE /\ r.sub = "Pending" /\ r.subId = id /\ r.pendingAck = n
  BY <1>4, <1>6 DEF Client
<1> QED BY <1>3, <1>4, <1>5, <1>8, <1>9, <1>10, <1>11 DEF id, p, n

\* The active subscription is to be ended: a request with a new identifier.
LEMMA Unsubscribes ==
    ASSUME NEW k \in Client, k.transport = "open", k.active, k.internal = "BrokerConnected",
           NEW r, r = SendUnsubscribe(k)
    PROVE  LET id == UnusedIdentifier(k) IN
           /\ r \in Client /\ Packet("UNSUBSCRIBE", id, "ctl") \in UpPacket
           /\ r.up = Append(k.up, Packet("UNSUBSCRIBE", id, "ctl"))
           /\ Link(r) = Link(k) /\ Outbox(r) = Outbox(k) /\ r.pings = k.pings
           /\ r.counter = id /\ r.active = k.active /\ r.sub = "UnsubscriptionPending"
           /\ r.subId = k.subId /\ r.pendingAck = k.pendingAck
           /\ r.pendingUnsub = k.pendingUnsub \cup {id}
<1> DEFINE id == UnusedIdentifier(k)
           p == Packet("UNSUBSCRIBE", id, "ctl")
           w == Write(k, p)
           n == k.pendingUnsub \cup {id}
<1>1. id \in Identifiers
  BY IdentifierFound
<1>2. r = [w EXCEPT !.counter = id, !.pendingUnsub = @ \cup {id}, !.sub = "UnsubscriptionPending"]
  BY DEF SendUnsubscribe
<1> HIDE DEF id
<1>3. p \in UpPacket
  BY <1>1, PacketIsUp DEF UpType, Data
<1> HIDE DEF p
<1>4. /\ w \in Client /\ w.up = Append(k.up, p) /\ Link(w) = Link(k) /\ Topic(w) = Topic(k)
      /\ Outbox(w) = Outbox(k) /\ w.pings = k.pings
  BY <1>3, Written
<1> HIDE DEF w
<1>5. /\ w.pendingAck = k.pendingAck /\ w.pendingUnsub = k.pendingUnsub
      /\ w.active = k.active /\ w.subId = k.subId
  BY <1>4 DEF Topic
<1>6. r = [w EXCEPT !.counter = id, !.pendingUnsub = n, !.sub = "UnsubscriptionPending"]
  BY <1>2, <1>5
<1>7. n \in SUBSET Identifiers /\ "UnsubscriptionPending" \in SubState
  BY <1>1 DEF Client, SubState
<1> HIDE DEF n
<1>8. r \in Client
  <2> DEFINE a == [w EXCEPT !.counter = id]
             b == [a EXCEPT !.pendingUnsub = n]
  <2>1. a \in Client
    BY <1>1, <1>4 DEF Client
  <2> HIDE DEF a
  <2>2. b \in Client
    BY <1>7, <2>1 DEF Client
  <2> HIDE DEF b
  <2>3. [b EXCEPT !.sub = "UnsubscriptionPending"] \in Client
    BY <1>7, <2>2 DEF Client
  <2>4. r = [b EXCEPT !.sub = "UnsubscriptionPending"]
    BY <1>6 DEF a, b
  <2> QED BY <2>3, <2>4
<1>9. Link(r) = Link(w) /\ Outbox(r) = Outbox(w)
  BY <1>4, <1>6 DEF Client, Link, Outbox
<1>10. /\ r.up = w.up /\ r.pings = w.pings /\ r.pendingAck = w.pendingAck /\ r.subId = w.subId
       /\ r.active = w.active
  BY <1>4, <1>6 DEF Client
<1>11. r.counter = id /\ r.sub = "UnsubscriptionPending" /\ r.pendingUnsub = n
  BY <1>4, <1>6 DEF Client
<1> QED BY <1>3, <1>4, <1>5, <1>8, <1>9, <1>10, <1>11 DEF id, p, n

\* The connection is accepted: the timers run, and the subscription is made.
LEMMA Connects ==
    ASSUME NEW k \in Client, k.transport = "open", k.state = "Connecting", ~ k.active,
           k.pendingAck = {}, k.pendingUnsub = {}, NEW r, r = FinalizeConnack(k, "accepted")
    PROVE  \E id \in Identifiers :
           /\ r \in Client /\ Packet("SUBSCRIBE", id, "ctl") \in UpPacket
           /\ r.up = Append(k.up, Packet("SUBSCRIBE", id, "ctl"))
           /\ r.state = "Connected" /\ r.internal = "BrokerConnected" /\ r.transport = "open"
           /\ r.pingTimer = TRUE /\ r.timer = TRUE /\ r.missing = k.missing /\ r.pings = k.pings
           /\ Outbox(r) = Outbox(k) /\ r.counter = id /\ (id = k.counter \/ id \notin InUse(k))
           /\ r.active = TRUE /\ r.sub = "Pending" /\ r.subId = id
           /\ r.pendingAck = {id} /\ r.pendingUnsub = {}
<1> DEFINE l == [k EXCEPT !.pendingAck = {}, !.pendingUnsub = {}, !.active = FALSE]
           m == [l EXCEPT !.internal = "BrokerConnected"]
           n == [m EXCEPT !.state = "Connected", !.timer = TRUE]
           s == SendSubscribe(n)
           id == UnusedIdentifier(n)
<1>1. CleanSubscriptions(k) = l
  <2>1. k.sub = IF k.active THEN "Unsubscribed" ELSE k.sub
    OBVIOUS
  <2>2. CleanSubscriptions(k) = [k EXCEPT !.pendingAck = {}, !.pendingUnsub = {}, !.active = FALSE, !.sub = k.sub]
    BY <2>1 DEF CleanSubscriptions
  <2> QED BY <2>2 DEF Client
<1>2. /\ l \in Client /\ Link(l) = Link(k) /\ Outbox(l) = Outbox(k) /\ l.up = k.up
      /\ l.pings = k.pings /\ l.counter = k.counter
  BY DEF Client, Link, Outbox
<1>3. l.active = FALSE /\ l.pendingAck = {} /\ l.pendingUnsub = {}
  BY DEF Client
<1> HIDE DEF l
<1>4. /\ m \in Client /\ m.state = "Connecting" /\ m.internal = "BrokerConnected"
      /\ m.transport = "open" /\ m.missing = k.missing /\ m.up = k.up /\ m.pings = k.pings
      /\ m.counter = k.counter
  BY <1>2 DEF Client, Link
<1>5. m.active = FALSE /\ m.pendingAck = {} /\ m.pendingUnsub = {} /\ Outbox(m) = Outbox(k)
  BY <1>2, <1>3 DEF Client, Outbox
<1>6. r = [SetState(m, "Connected") EXCEPT !.pingTimer = TRUE]
  BY <1>1 DEF FinalizeConnack
<1> HIDE DEF m
<1>7. SetState(m, "Connected") = s
  BY <1>4 DEF SetState, OnClientConnected, Client
<1>8. /\ n \in Client /\ n.state = "Connected" /\ n.internal = "BrokerConnected"
      /\ n.transport = "open" /\ n.missing = k.missing /\ n.up = k.up /\ n.pings = k.pings
      /\ n.counter = k.counter /\ n.timer = TRUE
  BY <1>4 DEF Client
<1>9. n.active = FALSE /\ n.pendingAck = {} /\ n.pendingUnsub = {} /\ Outbox(n) = Outbox(k)
  BY <1>4, <1>5 DEF Client, Outbox
<1> HIDE DEF n
<1>10. /\ s \in Client /\ Packet("SUBSCRIBE", id, "ctl") \in UpPacket
       /\ s.up = Append(n.up, Packet("SUBSCRIBE", id, "ctl"))
       /\ Link(s) = Link(n) /\ Outbox(s) = Outbox(n) /\ s.pings = n.pings
       /\ s.counter = id /\ s.active = TRUE /\ s.sub = "Pending" /\ s.subId = id
       /\ s.pendingAck = n.pendingAck \cup {id} /\ s.pendingUnsub = n.pendingUnsub
  BY <1>8, <1>9, Subscribes
<1>11. id \in Identifiers /\ (id = n.counter \/ id \notin InUse(n))
  BY <1>8, IdentifierFound
<1>12. InUse(n) = InUse(k)
  BY <1>9 DEF InUse, Outbox
<1> HIDE DEF s, id
<1>13. r = [s EXCEPT !.pingTimer = TRUE]
  BY <1>6, <1>7
<1>14. /\ r \in Client /\ r.up = s.up /\ r.state = s.state /\ r.internal = s.internal
       /\ r.transport = s.transport /\ r.timer = s.timer /\ r.missing = s.missing /\ r.pings = s.pings
       /\ r.pingTimer = TRUE
  BY <1>10, <1>13, ZenonT(30) DEF Client
<1>15. Topic(r) = Topic(s) /\ Outbox(r) = Outbox(s) /\ r.counter = s.counter
  BY <1>10, <1>13 DEF Client, Topic, Outbox
<1> QED BY <1>8, <1>9, <1>10, <1>11, <1>12, <1>14, <1>15 DEF Link, Topic

\* The answers that only change what waits.
LEMMA Settles ==
    ASSUME NEW k \in Client, NEW id, NEW code, id \in k.pendingAck,
           NEW r, r = FinalizeSuback(k, id, code)
    PROVE  /\ r \in Client /\ r.up = k.up /\ Link(r) = Link(k) /\ Outbox(r) = Outbox(k)
           /\ r.pings = k.pings /\ r.counter = k.counter /\ r.active = k.active /\ r.subId = k.subId
           /\ r.pendingAck = k.pendingAck \ {id} /\ r.pendingUnsub = k.pendingUnsub
           /\ r.sub = IF id # k.subId THEN k.sub ELSE IF code = "failure" THEN "Error" ELSE "Subscribed"
<1> DEFINE v == IF id # k.subId THEN k.sub ELSE IF code = "failure" THEN "Error" ELSE "Subscribed"
           n == k.pendingAck \ {id}
<1>1. r = [k EXCEPT !.pendingAck = n, !.sub = v]
  BY DEF FinalizeSuback
<1>2. n \in SUBSET Identifiers /\ v \in SubState
  BY DEF Client, SubState
<1> HIDE DEF n, v
<1>3. r \in Client
  BY <1>1, <1>2, ZenonT(30) DEF Client
<1>4. /\ r.up = k.up /\ Link(r) = Link(k) /\ Outbox(r) = Outbox(k) /\ r.pings = k.pings
      /\ r.counter = k.counter
  BY <1>1 DEF Client, Link, Outbox
<1>5. /\ r.active = k.active /\ r.subId = k.subId /\ r.pendingAck = n
      /\ r.pendingUnsub = k.pendingUnsub /\ r.sub = v
  BY <1>1 DEF Client
<1> QED BY <1>3, <1>4, <1>5 DEF n, v

\* An unsubscription is answered: there is no active subscription.
LEMMA Forgets ==
    ASSUME NEW k \in Client, NEW id, id \in k.pendingUnsub, NEW r, r = FinalizeUnsuback(k, id)
    PROVE  /\ r \in Client /\ r.up = k.up /\ Link(r) = Link(k) /\ Outbox(r) = Outbox(k)
           /\ r.pings = k.pings /\ r.counter = k.counter /\ ~ r.active
           /\ r.pendingAck = k.pendingAck /\ r.pendingUnsub = k.pendingUnsub \ {id}
<1> DEFINE n == k.pendingUnsub \ {id}
<1>1. r = [k EXCEPT !.pendingUnsub = n, !.active = FALSE, !.sub = "Unsubscribed"]
  BY DEF FinalizeUnsuback
<1>2. n \in SUBSET Identifiers /\ "Unsubscribed" \in SubState
  BY DEF Client, SubState
<1> HIDE DEF n
<1>3. r \in Client
  BY <1>1, <1>2, ZenonT(30) DEF Client
<1>4. /\ r.up = k.up /\ Link(r) = Link(k) /\ Outbox(r) = Outbox(k) /\ r.pings = k.pings
      /\ r.counter = k.counter
  BY <1>1 DEF Client, Link, Outbox
<1>5. r.active = FALSE /\ r.pendingAck = k.pendingAck /\ r.pendingUnsub = n
  BY <1>1 DEF Client
<1> QED BY <1>3, <1>4, <1>5 DEF n

-----------------------------------------------------------------------------
(* Steps that end, begin or keep a connection *)

USE DEF Broker

\* The fields of the invariant's parts.
LEMMA IsTyped ==
    ASSUME IInv
    PROVE  /\ c \in Client /\ c.up \in Seq(UpPacket) /\ down \in Seq(DownPacket) /\ broker \in Broker
           /\ c.timer => c.state = "Connected" /\ c.internal = "BrokerConnected"
           /\ c.transport = "open" \/ (Len(c.up) = 0 /\ Len(down) = 0 /\ ~ broker.session.subs)
<1> QED BY DEF IInv, Typed, Client, Phases, Shut, Opening, Shaking, Talking, Hushed, Unsaid

\* A client that is not connected expects nothing, and nothing comes.
LEMMA QuietKeeps ==
    ASSUME IInv, c' \in Client, c'.transport # "open", ~ c'.active, c'.pings = 0, Len(c'.up) = 0,
           Outbox(c') = Outbox(c), Phases', down' = <<>>, broker' = [broker EXCEPT !.session = NoSession],
           UNCHANGED <<silent, flown, sent, repeated>>
    PROVE  IInv'
<1>1. /\ broker' \in Broker /\ broker'.session.subs = FALSE /\ broker'.got = broker.got
      /\ broker'.acked = broker.acked
  BY DEF IInv, Typed, NoSession
<1>2. c'.pendingMsg = c.pendingMsg /\ c'.pendingRel = c.pendingRel
  BY DEF Outbox
<1>3. down' \in Seq(DownPacket) /\ Len(down') = 0
  BY Nothing
<1>4. \A T : At(c'.up, T) = {} /\ At(down', T) = {} /\ None(c'.up, T) /\ None(down', T)
  BY <1>3, EmptyAt
<1>5. Typed'
  BY <1>1, <1>3, <1>4 DEF IInv, Typed
<1>7. Understood'
  BY DEF Understood
<1>8. Exchanges'
  BY <1>4, FlightEmpty DEF Exchanges
<1>9. Subscriptions'
  BY DEF Subscriptions
<1>10. Receipts'
  BY <1>1, <1>2, <1>4 DEF IInv, Receipts
<1>11. Hearing'
  <2>1. repeated \/ \A m \in broker.acked : Orders(m) \subseteq flown
    BY DEF IInv, Hearing
  <2>2. CASE repeated
    BY <2>2 DEF Hearing
  <2>3. CASE ~ repeated
    <3>1. \A m \in broker'.acked : Orders(m) \subseteq flown'
      BY <1>1, <2>1, <2>3
    <3> QED BY <1>1, <1>4, <3>1 DEF Hearing
  <2> QED BY <2>2, <2>3
<1>12. Pinging'
  <2>1. c'.pings = 0 /\ At(c'.up, {"PINGREQ"}) = {} /\ At(down', {"PINGRESP"}) = {}
    BY <1>4
  <2>2. Cardinality(At(c'.up, {"PINGREQ"})) = 0 /\ Cardinality(At(down', {"PINGRESP"})) = 0
    BY <2>1, FS_EmptySet
  <2> QED BY <2>1, <2>2 DEF Pinging
<1> QED BY <1>5, <1>7, <1>8, <1>9, <1>10, <1>11, <1>12 DEF IInv

\* A new packet identifier waits for no answer
Fresh == c'.counter # c.counter => c'.counter \notin InUse(c)

\* The client becomes one without a connection.
LEMMA EndsKeeps ==
    ASSUME IInv, Ended(c, c'), down' = <<>>, broker' = [broker EXCEPT !.session = NoSession],
           UNCHANGED <<silent, flown, sent, repeated>>
    PROVE  IInv' /\ Fresh
<1>1. /\ c' \in Client /\ c'.transport # "open" /\ ~ c'.active /\ c'.pings = 0 /\ Len(c'.up) = 0
      /\ Outbox(c') = Outbox(c)
  BY DEF Ended, Unsaid, Outbox
<1>2. broker'.session.subs = FALSE
  BY IsTyped DEF NoSession
<1>3. Len(down') = 0
  BY Nothing
<1>4. Phases'
  BY <1>2, <1>3 DEF Phases, Shut, Ended
<1> QED BY <1>1, <1>4, QuietKeeps DEF Fresh, Ended

\* The client stays as it is.
LEMMA SameKeeps ==
    ASSUME IInv, c' = c, down' = down,
           broker' = broker \/ (~ broker.session.subs /\ broker' = [broker EXCEPT !.session = NoSession]),
           UNCHANGED <<silent, flown, sent, repeated>>
    PROVE  IInv' /\ Fresh
<1>1. /\ broker' \in Broker /\ broker'.session.subs = broker.session.subs /\ broker'.got = broker.got
      /\ broker'.acked = broker.acked
  <2>1. broker \in Broker
    BY IsTyped
  <2>2. CASE broker' = broker
    BY <2>1, <2>2
  <2>3. CASE ~ broker.session.subs /\ broker' = [broker EXCEPT !.session = NoSession]
    BY <2>1, <2>3 DEF NoSession
  <2> QED BY <2>2, <2>3
<1>2. Typed'
  BY <1>1 DEF IInv, Typed
<1>3. Phases'
  BY <1>1 DEF IInv, Phases, Shut, Opening, Shaking, Talking, Hushed
<1>4. Understood' /\ Exchanges' /\ Pinging'
  BY DEF IInv, Understood, Exchanges, Pinging
<1>5. Subscriptions'
  BY <1>1 DEF IInv, Subscriptions
<1>6. Receipts'
  BY <1>1 DEF IInv, Receipts
<1>7. Hearing'
  BY <1>1 DEF IInv, Hearing
<1> QED BY <1>2, <1>3, <1>4, <1>5, <1>6, <1>7 DEF IInv, Fresh

\* What becomes of what is under way when the client stays as it is.
LEMMA BecomesSame ==
    ASSUME IInv, Becomes(c), UNCHANGED <<silent, flown, sent, repeated>>
    PROVE  IInv' /\ Fresh
<1>1. c' = c
  BY DEF Becomes
<1>2. CASE c.transport = "open"
  BY <1>1, <1>2, SameKeeps DEF Becomes
<1>3. CASE c.transport # "open"
  <2>1. down' = down
    BY <1>3, IsTyped, EmptySeq DEF Becomes
  <2> QED BY <1>1, <1>3, <2>1, IsTyped, SameKeeps DEF Becomes
<1> QED BY <1>2, <1>3

\* The same, as the steps say it.
LEMMA BecomesEnded ==
    ASSUME IInv, NEW k, Becomes(k), Ended(c, k), UNCHANGED <<silent, flown, sent, repeated>>
    PROVE  IInv' /\ Fresh
<1>1. c' = k /\ down' = <<>> /\ broker' = [broker EXCEPT !.session = NoSession]
  BY DEF Becomes, Ended
<1> QED BY <1>1, EndsKeeps

\* Without a connection the client is what Ended says.
LEMMA ShutEnded ==
    ASSUME IInv, c.state = "Disconnected"
    PROVE  Ended(c, c)
<1> QED BY DEF IInv, Typed, Phases, Shut, Opening, Shaking, Talking, Hushed, Ended, Unsaid

\* The first states.
LEMMA InitKeeps == Init => IInv
<1> SUFFICES ASSUME Init PROVE IInv
  OBVIOUS
<1>1. /\ c.state = "Disconnected" /\ c.internal = "BrokerDisconnected" /\ c.transport = "none"
      /\ Unsaid(c) /\ Len(c.up) = 0 /\ c.sub = "Unsubscribed" /\ c.pendingRel = {} /\ c.up = <<>>
  BY Nothing DEF Init, Unsaid
<1>2. c \in Client
  <2> DEFINE s == <<>>
  <2>1. s \in Seq(UpPacket) /\ 0 \in Counts /\ 0 \in SubIds /\ 1 \in Identifiers /\ "Unsubscribed" \in SubState
    BY Nothing, MqttAssumption DEF SubIds, Identifiers, SubState
  <2>2. c = [state |-> "Disconnected", error |-> "NoError", internal |-> "BrokerDisconnected",
            transport |-> "none", missing |-> "none", pingTimer |-> FALSE, pings |-> 0,
            timer |-> FALSE, active |-> FALSE, sub |-> "Unsubscribed", subId |-> 0, counter |-> 1,
            pendingAck |-> {}, pendingUnsub |-> {}, pendingMsg |-> {}, pendingRel |-> {}, up |-> s]
    BY DEF Init
  <2> HIDE DEF s
  <2> QED BY <2>1, <2>2 DEF Client
<1>3. down \in Seq(DownPacket) /\ Len(down) = 0 /\ ~ silent /\ ~ repeated /\ flown = {} /\ sent = {}
  BY Nothing DEF Init
<1>4. broker \in Broker /\ broker.session.subs = FALSE /\ broker.got = {} /\ broker.acked = {}
  BY DEF Init, NoSession
<1>5. \A T : At(c.up, T) = {} /\ At(down, T) = {} /\ None(c.up, T) /\ None(down, T)
  BY <1>1, <1>3, EmptyAt
<1>6. Typed
  <2>1. silent \in BOOLEAN /\ repeated \in BOOLEAN
    BY DEF Init
  <2> QED BY <1>2, <1>3, <1>4, <1>5, <2>1 DEF Typed
<1>7. Phases
  BY <1>1, <1>3, <1>4 DEF Phases, Shut
<1>8. Understood
  BY <1>1 DEF Understood
<1>9. Exchanges
  BY <1>5, FlightEmpty DEF Exchanges
<1>10. Subscriptions
  BY <1>1 DEF Subscriptions, Unsaid
<1>11. Receipts
  BY <1>1, <1>3, <1>5 DEF Receipts
<1>12. Hearing
  <2>1. c.pendingUnsub = {}
    BY DEF Init
  <2> QED BY <1>3, <1>4, <1>5, <2>1 DEF Hearing
<1>13. Pinging
  <2>1. c.pings = 0 /\ At(c.up, {"PINGREQ"}) = {} /\ At(down, {"PINGRESP"}) = {}
    BY <1>1, <1>5 DEF Unsaid
  <2> QED BY <2>1, FS_EmptySet DEF Pinging
<1> QED BY <1>6, <1>7, <1>8, <1>9, <1>10, <1>11, <1>12, <1>13 DEF IInv

\* VKMqttClient::start.
LEMMA StartKeeps ==
    ASSUME IInv, NEW host \in BOOLEAN, Start(host)
    PROVE  IInv' /\ Fresh
<1> DEFINE k == ConnectToHost(c, host)
<1>1. Becomes(k) /\ UNCHANGED <<silent, flown, sent, repeated>> /\ c \in Client
  BY IsTyped DEF Start
<1>2. CASE c.state # "Disconnected"
  <2>1. k = c
    BY <1>2 DEF ConnectToHost
  <2> QED BY <1>1, <2>1, BecomesSame
<1>3. CASE c.state = "Disconnected"
  <2>1. Ended(c, c)
    BY <1>3, ShutEnded
  <2>2. CASE ~ host \/ c.transport = "freed"
    <3>1. Ended(c, k)
      BY <1>1, <2>1, <2>2, NoHostEnds
    <3> HIDE DEF k
    <3> QED BY <1>1, <3>1, BecomesEnded
  <2>3. CASE host /\ c.transport # "freed"
    <3>1. host = TRUE
      BY <2>3
    <3>2. c' = ConnectToHost(c, TRUE)
      BY <1>1, <3>1 DEF Becomes
    <3>3. /\ c' \in Client /\ c'.state = "Connecting" /\ c'.internal = "BrokerConnecting"
          /\ c'.transport = "opening" /\ Unsaid(c') /\ c'.pendingAck = {} /\ c'.pendingUnsub = {}
          /\ Len(c'.up) = 0 /\ c'.counter = c.counter /\ Outbox(c') = Outbox(c)
      BY <1>1, <2>1, <2>3, <3>2, HostOpens
    <3>4. down' = <<>> /\ broker' = [broker EXCEPT !.session = NoSession]
      BY <1>1, <3>2, <3>3 DEF Becomes
    <3>5. broker'.session.subs = FALSE
      BY <3>4, IsTyped DEF NoSession
    <3>6. Len(down') = 0
      BY <3>4, Nothing
    <3>7. Phases'
      BY <3>3, <3>5, <3>6 DEF Phases, Opening
    <3>8. ~ c'.active /\ c'.pings = 0
      BY <3>3 DEF Unsaid
    <3> QED BY <1>1, <3>3, <3>4, <3>7, <3>8, QuietKeeps DEF Fresh
  <2> QED BY <2>2, <2>3
<1> QED BY <1>2, <1>3

\* VKMqttClient::stop.
LEMMA StopKeeps ==
    ASSUME IInv, NEW flushed \in BOOLEAN, Stop(flushed)
    PROVE  IInv' /\ Fresh
<1> DEFINE n == [c EXCEPT !.timer = FALSE]
<1>1. UNCHANGED <<silent, flown, sent, repeated>> /\ c \in Client /\ (flushed \/ silent)
  BY IsTyped DEF Stop
<1>2. Becomes(IF c.state = "Connected" THEN DisconnectFromHost(n, flushed) ELSE n)
  BY DEF Stop
<1>3. ASSUME ~ c.timer PROVE n = c
  BY <1>1, <1>3 DEF Client
<1>4. CASE c.state # "Connected"
  <2>1. n = c
    BY <1>3, <1>4, IsTyped
  <2> QED BY <1>1, <1>2, <1>4, <2>1, BecomesSame
<1>5. CASE c.state = "Connected" /\ c.internal # "BrokerConnected"
  <2>1. c.internal = "BrokerDisconnected" /\ ~ c.timer
    BY <1>5 DEF IInv, Phases, Shut, Opening, Shaking, Talking, Hushed
  <2>2. DisconnectFromHost(n, flushed) = c
    BY <1>3, <2>1 DEF DisconnectFromHost
  <2> QED BY <1>1, <1>2, <1>5, <2>2, BecomesSame
<1>6. CASE c.state = "Connected" /\ c.internal = "BrokerConnected"
  <2>1. /\ n \in Client /\ n.state = "Connected" /\ n.transport = c.transport /\ n.timer = FALSE
        /\ n.up = c.up /\ n.missing = c.missing /\ n.counter = c.counter /\ n.internal = c.internal
    BY <1>1, <1>6 DEF Client
  <2>2. Outbox(n) = Outbox(c) /\ n.pendingUnsub = c.pendingUnsub
    BY <1>1 DEF Client, Outbox
  <2>3. c.transport = "open"
    BY <1>6 DEF IInv, Phases, Shut, Opening, Shaking, Talking, Hushed
  <2>4. DisconnectFromHost(n, flushed) = SendDisconnect(n, flushed)
    BY <1>6, <2>1 DEF DisconnectFromHost
  <2> HIDE DEF n
  <2>5. Becomes(SendDisconnect(n, flushed))
    BY <1>2, <1>6, <2>4
  <2>6. CASE flushed
    <3>1. flushed = TRUE
      BY <2>6
    <3>2. Ended(n, SendDisconnect(n, TRUE))
      BY <2>1, <2>3, GoodbyeEnds
    <3>3. Ended(c, SendDisconnect(n, TRUE))
      BY <2>1, <2>2, <3>2 DEF Ended, Outbox
    <3> QED BY <1>1, <2>5, <3>1, <3>3, BecomesEnded
  <2>7. CASE ~ flushed
    <3>1. flushed = FALSE
      BY <2>7
    <3>2. c' = SendDisconnect(n, FALSE)
      BY <2>5, <3>1 DEF Becomes
    <3>3. /\ c' \in Client /\ c'.state = "Connected" /\ c'.internal = "BrokerDisconnected"
          /\ c'.transport = "open" /\ c'.missing = c.missing /\ c'.timer = FALSE
          /\ c'.pingTimer = FALSE /\ c'.pings = 0 /\ c'.active = FALSE
          /\ c'.pendingRel = c.pendingRel /\ c'.counter = c.counter
      BY <2>1, <2>2, <2>3, <3>2, SaysGoodbye, ZenonT(30) DEF Outbox
    <3>4. silent /\ UNCHANGED <<down, broker>>
      BY <1>1, <2>5, <2>7, <3>2, <3>3 DEF Becomes
    <3>5. Typed'
      BY <1>1, <3>3, <3>4 DEF IInv, Typed
    <3>6. Phases'
      BY <1>1, <3>3, <3>4 DEF Phases, Hushed
    <3>7. Understood'
      BY <2>3, <3>3, <3>4 DEF IInv, Understood
    <3>8. Exchanges' /\ Pinging'
      BY <1>1, <3>4 DEF Exchanges, Pinging
    <3>9. Subscriptions'
      BY <3>3 DEF Subscriptions
    <3>10. Receipts'
      BY <1>1, <3>3, <3>4 DEF IInv, Receipts
    <3>11. Hearing'
      BY <1>1, <3>4 DEF IInv, Hearing
    <3> QED BY <3>3, <3>5, <3>6, <3>7, <3>8, <3>9, <3>10, <3>11 DEF IInv, Fresh
  <2> QED BY <2>6, <2>7
<1> QED BY <1>4, <1>5, <1>6

\* QMqttClient::disconnectFromHost.
LEMMA DisconnectKeeps ==
    ASSUME IInv, Disconnect
    PROVE  IInv' /\ Fresh
<1>1. /\ UNCHANGED <<silent, flown, sent, repeated>> /\ c \in Client /\ c.internal # "BrokerDisconnected"
      /\ Becomes(DisconnectFromHost(c, TRUE))
  BY IsTyped DEF Disconnect
<1>2. c.timer => c.state # "Disconnected"
  BY IsTyped
<1>3. CASE c.internal = "BrokerConnected"
  <2>1. c.transport = "open"
    BY <1>3 DEF IInv, Phases, Shut, Opening, Shaking, Talking, Hushed
  <2>2. Ended(c, SendDisconnect(c, TRUE))
    BY <1>1, <1>2, <2>1, GoodbyeEnds
  <2> QED BY <1>1, <1>3, <2>2, BecomesEnded DEF DisconnectFromHost
<1>4. CASE c.internal # "BrokerConnected" /\ c.transport \in {"opening", "open"}
  <2>1. ~ c.active
    BY <1>1, <1>4 DEF IInv, Phases, Shut, Opening, Shaking, Talking, Hushed, Unsaid
  <2>2. Ended(c, ConnectionClosed(c))
    BY <1>1, <1>2, <1>4, <2>1, ClosedEnds
  <2>3. DisconnectFromHost(c, TRUE) = ConnectionClosed(c)
    BY <1>1, <1>4 DEF DisconnectFromHost
  <2> QED BY <1>1, <2>2, <2>3, BecomesEnded
<1>5. CASE c.internal # "BrokerConnected" /\ c.transport \notin {"opening", "open"}
  BY <1>1, <1>5, BecomesSame DEF DisconnectFromHost
<1> QED BY <1>3, <1>4, <1>5

\* The transport fails.
LEMMA SocketFailsKeeps ==
    ASSUME IInv, SocketFails
    PROVE  IInv' /\ Fresh
<1>1. Ended(c, CloseConnection(c, "TransportInvalid"))
  BY IsTyped, CloseEnds
<1> QED BY <1>1, BecomesEnded DEF SocketFails

\* The transport is open.
LEMMA SocketConnectedKeeps ==
    ASSUME IInv, SocketConnected
    PROVE  IInv' /\ Fresh
<1>1. c.transport = "opening" /\ c' = ConnectionEstablished(c) /\ ~ silent
  BY DEF SocketConnected
<1>2. UNCHANGED <<down, broker, silent, flown, sent, repeated>>
  BY DEF SocketConnected
<1>3. /\ c.state = "Connecting" /\ c.internal = "BrokerConnecting" /\ Unsaid(c)
      /\ c.pendingAck = {} /\ c.pendingUnsub = {} /\ Len(c.up) = 0 /\ Len(down) = 0
      /\ ~ broker.session.subs
  BY <1>1 DEF IInv, Phases, Shut, Opening, Shaking, Talking, Hushed
<1> DEFINE p == Packet("CONNECT", 0, "clean")
<1>4. /\ c' \in Client /\ c'.internal = "BrokerWaitForConnectAck" /\ c'.transport = "open"
      /\ c'.missing = "none" /\ c'.up = Append(c.up, p)
      /\ c'.state = c.state /\ c'.pingTimer = c.pingTimer /\ c'.timer = c.timer /\ c'.pings = c.pings
      /\ c'.counter = c.counter /\ Topic(c') = Topic(c) /\ Outbox(c') = Outbox(c)
  BY <1>1, <1>3, IsTyped, SaysConnect
<1>5. /\ c'.pendingAck = {} /\ c'.pendingUnsub = {} /\ c'.pendingMsg = c.pendingMsg
      /\ c'.pendingRel = c.pendingRel /\ c'.active = FALSE /\ Unsaid(c')
  BY <1>3, <1>4, IsTyped DEF Topic, Outbox, Unsaid, Client
<1>6. p \in UpPacket /\ p.type = "CONNECT"
  BY PacketIsUp DEF UpType, Data, Packet
<1> HIDE DEF p
<1>7. Len(c'.up) = 1 /\ c'.up[1] = p
  BY <1>3, <1>4, <1>6, IsTyped, Appended
<1>8. \A T : At(c.up, T) = {} /\ At(down', T) = {} /\ None(down', T)
  BY <1>2, <1>3, EmptyAt
<1>9. \A T : "CONNECT" \notin T => At(c'.up, T) = {} /\ None(c'.up, T)
  <2>1. \A T : "CONNECT" \notin T => At(Append(c.up, p), T) = At(c.up, T)
    BY <1>6, IsTyped, AppendedAt
  <2> QED BY <1>4, <1>8, <2>1, NoneAt
<1>10. Typed'
  BY <1>2, <1>4, <1>8 DEF IInv, Typed
<1>11. Phases'
  BY <1>2, <1>3, <1>4, <1>5, <1>6, <1>7 DEF Phases, Shaking
<1>12. Understood'
  BY <1>4 DEF Understood
<1>13. Exchanges'
  <2>1. None(c'.up, {"SUBSCRIBE"}) /\ None(c'.up, {"UNSUBSCRIBE"}) /\ None(c'.up, {"PUBLISH1", "PUBLISH2"})
    BY <1>9
  <2> QED BY <1>8, <2>1, FlightEmpty DEF Exchanges
<1>14. Subscriptions'
  BY <1>5 DEF Subscriptions
<1>15. Receipts'
  BY <1>2, <1>5, <1>8, <1>9 DEF IInv, Receipts
<1>16. Hearing'
  <2>1. At(c'.up, {"PUBACK"}) = {} /\ At(c'.up, {"SUBSCRIBE"}) = {}
    BY <1>9
  <2>2. repeated \/ \A m \in broker.acked : Orders(m) \subseteq flown
    BY DEF IInv, Hearing
  <2> QED BY <1>2, <1>3, <1>5, <1>8, <2>1, <2>2 DEF Hearing
<1>17. Pinging'
  <2>1. c'.pings = 0 /\ At(c'.up, {"PINGREQ"}) = {} /\ At(down', {"PINGRESP"}) = {}
    BY <1>5, <1>8, <1>9 DEF Unsaid
  <2>2. Cardinality(At(c'.up, {"PINGREQ"})) = 0 /\ Cardinality(At(down', {"PINGRESP"})) = 0
    BY <2>1, FS_EmptySet
  <2> QED BY <2>1, <2>2 DEF Pinging
<1> QED BY <1>4, <1>10, <1>11, <1>12, <1>13, <1>14, <1>15, <1>16, <1>17 DEF IInv, Fresh

\* The other end is gone: nothing is read any more.
LEMMA PeerFallsSilentKeeps ==
    ASSUME IInv, PeerFallsSilent
    PROVE  IInv' /\ Fresh
<1>1. silent' = TRUE /\ UNCHANGED <<c, down, broker, flown, sent, repeated>>
  BY DEF PeerFallsSilent
<1>2. Typed' /\ Understood' /\ Exchanges' /\ Pinging'
  BY <1>1 DEF IInv, Typed, Understood, Exchanges, Pinging
<1>3. Phases'
  BY <1>1 DEF IInv, Phases, Shut, Opening, Shaking, Talking, Hushed
<1>4. Subscriptions'
  BY <1>1 DEF IInv, Subscriptions
<1>5. Receipts' /\ Hearing'
  BY <1>1 DEF IInv, Receipts, Hearing
<1> QED BY <1>1, <1>2, <1>3, <1>4, <1>5 DEF IInv, Fresh

-----------------------------------------------------------------------------
(* Steps that send a packet *)

\* p is put in the buffer of a connected client, which may also change what it waits for.
Writes(p) ==
    /\ c.state = "Connected" /\ c.transport = "open" /\ p \in UpPacket /\ p.type # "CONNECT"
    /\ c' \in Client /\ c'.up = Append(c.up, p) /\ Link(c') = Link(c)
    /\ UNCHANGED <<down, broker, silent, flown, sent>>

\* The connection is as it was.
LEMMA WriteLinked ==
    ASSUME IInv, NEW p, Writes(p), repeated' \in BOOLEAN
    PROVE  Typed' /\ Phases' /\ Understood'
<1>1. Typed'
  BY DEF IInv, Typed, Writes
<1>2. /\ c'.state = c.state /\ c'.internal = c.internal /\ c'.transport = c.transport
      /\ c'.missing = c.missing /\ c'.pingTimer = c.pingTimer /\ c'.timer = c.timer
  BY DEF Writes, Link
<1>3. None(c.up, {"CONNECT"}) => None(c'.up, {"CONNECT"})
  BY IsTyped, AppendedAt DEF Writes
<1>4. Phases'
  <2>1. Talking \/ Hushed
    BY DEF IInv, Writes, Phases, Shut, Opening, Shaking
  <2>2. CASE Talking
    BY <1>2, <1>3, <2>2 DEF Talking, Phases, Writes
  <2>3. CASE Hushed
    BY <1>2, <2>3 DEF Hushed, Phases, Writes
  <2> QED BY <2>1, <2>2, <2>3
<1>5. Understood'
  BY <1>2 DEF IInv, Writes, Understood
<1> QED BY <1>1, <1>4, <1>5

\* The subscription is as it was.
LEMMA WriteSubscribed ==
    ASSUME IInv, NEW p, Writes(p), p.type # "SUBSCRIBE", Topic(c') = Topic(c)
    PROVE  Subscriptions'
<1>1. /\ c'.active = c.active /\ c'.sub = c.sub /\ c'.subId = c.subId
      /\ c'.pendingAck = c.pendingAck /\ c'.pendingUnsub = c.pendingUnsub
  BY DEF Topic
<1>2. /\ At(c'.up, {"SUBSCRIBE"}) = At(c.up, {"SUBSCRIBE"})
      /\ None(c'.up, {"SUBSCRIBE"}) <=> None(c.up, {"SUBSCRIBE"})
      /\ \A i \in At(c.up, {"SUBSCRIBE"}) : c'.up[i] = c.up[i]
  BY IsTyped, AppendedAt DEF Writes
<1>3. UNCHANGED <<down, broker, silent>>
  BY DEF Writes
<1> QED BY <1>1, <1>2, <1>3 DEF IInv, Subscriptions

\* What waits for a receipt is as it was.
LEMMA WriteReceived ==
    ASSUME IInv, NEW p, Writes(p), p.type \notin {"PUBLISH1", "PUBLISH2"}, Outbox(c') = Outbox(c)
    PROVE  Receipts'
<1>1. c'.pendingMsg = c.pendingMsg /\ c'.pendingRel = c.pendingRel
  BY DEF Outbox
<1>2. /\ At(c'.up, {"PUBLISH1", "PUBLISH2"}) = At(c.up, {"PUBLISH1", "PUBLISH2"})
      /\ \A i \in At(c.up, {"PUBLISH1", "PUBLISH2"}) : c'.up[i] = c.up[i]
  BY IsTyped, AppendedAt DEF Writes
<1>3. UNCHANGED <<down, broker, silent, sent>>
  BY DEF Writes
<1> QED BY <1>1, <1>2, <1>3 DEF IInv, Receipts

\* What can be heard is as it was.
LEMMA WriteHeard ==
    ASSUME IInv, NEW p, Writes(p), p.type \notin {"SUBSCRIBE", "PUBACK"},
           c'.active = c.active, repeated' = repeated,
           repeated \/ silent \/ c'.pendingUnsub = c.pendingUnsub \/
              (c.active /\ \A x, y \in c'.pendingUnsub : x = y)
    PROVE  Hearing'
<1>1. c'.transport = "open" /\ c.transport = "open" /\ UNCHANGED <<down, broker, silent, flown, sent>>
  BY DEF Writes, Link
<1>2. At(c'.up, {"PUBACK"}) = At(c.up, {"PUBACK"}) /\ \A i \in At(c.up, {"PUBACK"}) : c'.up[i] = c.up[i]
  BY IsTyped, AppendedAt DEF Writes
<1>3. /\ At(c'.up, {"SUBSCRIBE"}) = At(c.up, {"SUBSCRIBE"})
      /\ \A i \in At(c.up, {"SUBSCRIBE"}) : i \in 1..Len(c.up)
  BY IsTyped, AppendedAt DEF Writes
<1>4. \A i \in At(c.up, {"SUBSCRIBE"}) : Before(c'.up, i, "UNSUBSCRIBE") => Before(c.up, i, "UNSUBSCRIBE")
  <2> SUFFICES ASSUME NEW i \in At(c.up, {"SUBSCRIBE"}), NEW j \in At(c'.up, {"UNSUBSCRIBE"}), j < i
               PROVE  Before(c.up, i, "UNSUBSCRIBE")
    BY DEF Before
  <2>1. i \in 1..Len(c.up) /\ Len(c.up) \in Nat
    BY <1>3, IsTyped, LenProperties
  <2>2. j \in At(c.up, {"UNSUBSCRIBE"}) \/ j = Len(c.up) + 1
    BY IsTyped, AppendedAt DEF Writes
  <2>3. j # Len(c.up) + 1
    BY <2>1
  <2> QED BY <2>2, <2>3 DEF Before
<1>5. CASE repeated \/ silent
  <2>1. CASE repeated
    BY <2>1 DEF Hearing
  <2>2. CASE silent /\ ~ repeated
    BY <1>1, <2>2 DEF IInv, Hearing
  <2> QED BY <1>5, <2>1, <2>2
<1>6. CASE ~ repeated /\ ~ silent
  <2>1. \A m \in broker'.acked : Orders(m) \subseteq flown'
    BY <1>1, <1>6 DEF IInv, Hearing
  <2>2. \A i \in At(c'.up, {"PUBACK"}) : Orders(c'.up[i].data) \subseteq flown'
    BY <1>1, <1>2, <1>6 DEF IInv, Hearing
  <2>3. \A i \in At(down', {"PUBLISH", "PUBLISH1"}) : c'.active /\ ~ Before(down', i, "UNSUBACK")
    BY <1>1, <1>6 DEF IInv, Hearing
  <2>4. broker'.session.subs => c'.active /\ None(down', {"UNSUBACK"})
    BY <1>1, <1>6 DEF IInv, Hearing
  <2>5. \A i \in At(c'.up, {"SUBSCRIBE"}) :
           c'.active /\ None(down', {"UNSUBACK"}) /\ ~ Before(c'.up, i, "UNSUBSCRIBE")
    BY <1>1, <1>3, <1>4, <1>6 DEF IInv, Hearing
  <2>6. (\A x, y \in c'.pendingUnsub : x = y) /\ (~ c'.active => c'.pendingUnsub = {})
    BY <1>1, <1>6 DEF IInv, Hearing
  <2> QED BY <2>1, <2>2, <2>3, <2>4, <2>5, <2>6 DEF Hearing
<1> QED BY <1>5, <1>6

\* Pings are counted as they were.
LEMMA WritePinged ==
    ASSUME IInv, NEW p, Writes(p), p.type # "PINGREQ", c'.pings = c.pings
    PROVE  Pinging'
<1>1. At(c'.up, {"PINGREQ"}) = At(c.up, {"PINGREQ"})
  BY IsTyped, AppendedAt DEF Writes
<1> QED BY <1>1 DEF IInv, Pinging, Writes

\* No request is sent.
LEMMA WriteExchanged ==
    ASSUME IInv, NEW p, Writes(p), p.type \notin {"SUBSCRIBE", "UNSUBSCRIBE", "PUBLISH1", "PUBLISH2"},
           Topic(c') = Topic(c), Outbox(c') = Outbox(c)
    PROVE  Exchanges'
<1>1. /\ c'.pendingAck = c.pendingAck /\ c'.pendingUnsub = c.pendingUnsub
      /\ c'.pendingMsg = c.pendingMsg /\ UNCHANGED <<down, silent>>
  BY DEF Topic, Outbox, Writes
<1>2. CASE silent
  BY <1>1, <1>2 DEF Exchanges
<1>3. CASE ~ silent
  <2>1. c.up \in Seq(UpPacket) /\ p \in UpPacket /\ c'.up = Append(c.up, p)
    BY IsTyped DEF Writes
  <2>2. /\ Flight(c.up, down, {"SUBSCRIBE"}, {"SUBACK"}, c.pendingAck)
        /\ Flight(c.up, down, {"UNSUBSCRIBE"}, {"UNSUBACK"}, c.pendingUnsub)
        /\ Flight(c.up, down, {"PUBLISH1", "PUBLISH2"}, {"PUBACK", "PUBREC"}, Ids(c.pendingMsg))
    BY <1>3 DEF IInv, Exchanges
  <2>3. Flight(c'.up, down, {"SUBSCRIBE"}, {"SUBACK"}, c.pendingAck)
    BY <2>1, <2>2, FlightSends
  <2>4. Flight(c'.up, down, {"UNSUBSCRIBE"}, {"UNSUBACK"}, c.pendingUnsub)
    BY <2>1, <2>2, FlightSends
  <2>5. Flight(c'.up, down, {"PUBLISH1", "PUBLISH2"}, {"PUBACK", "PUBREC"}, Ids(c.pendingMsg))
    BY <2>1, <2>2, FlightSends
  <2> QED BY <1>1, <2>3, <2>4, <2>5 DEF Exchanges
<1> QED BY <1>2, <1>3

\* QMqttConnection::timerEvent.
LEMMA OnPingTimerKeeps ==
    ASSUME IInv, OnPingTimer
    PROVE  IInv' /\ Fresh
<1> DEFINE p == Packet("PINGREQ", 0, "none")
           w == Write(c, p)
           n == c.pings + 1
<1>1. /\ c.pingTimer /\ Becomes(SendPingRequest(c)) /\ c \in Client
      /\ UNCHANGED <<silent, flown, sent, repeated>>
  BY IsTyped DEF OnPingTimer
<1>2. c.state = "Connected" /\ c.internal = "BrokerConnected" /\ c.transport = "open"
  BY <1>1 DEF IInv, Phases, Shut, Opening, Shaking, Talking, Hushed, Unsaid
<1>3. CASE c.pings > 1
  <2>1. Ended(c, CloseConnection(c, "ServerUnavailable"))
    BY IsTyped, CloseEnds
  <2>2. SendPingRequest(c) = CloseConnection(c, "ServerUnavailable")
    BY <1>2, <1>3 DEF SendPingRequest
  <2> QED BY <1>1, <2>1, <2>2, BecomesEnded
<1>4. CASE ~ (c.pings > 1)
  <2>1. SendPingRequest(c) = [w EXCEPT !.pings = @ + 1]
    BY <1>2, <1>4 DEF SendPingRequest
  <2>2. p \in UpPacket /\ p.type = "PINGREQ"
    BY PacketIsUp DEF UpType, Data, Packet
  <2> HIDE DEF p
  <2>3. /\ w \in Client /\ w.up = Append(c.up, p) /\ Link(w) = Link(c) /\ Topic(w) = Topic(c)
        /\ Outbox(w) = Outbox(c) /\ w.counter = c.counter /\ w.pings = c.pings
    BY <1>1, <1>2, <2>2, Written
  <2>4. n \in Counts
    BY <1>1, <1>4 DEF Client, Counts
  <2> HIDE DEF w
  <2>5. SendPingRequest(c) = [w EXCEPT !.pings = n]
    BY <2>1, <2>3
  <2>6. Becomes([w EXCEPT !.pings = n])
    BY <1>1, <2>5
  <2> HIDE DEF n
  <2>7. c' = [w EXCEPT !.pings = n]
    BY <2>6 DEF Becomes
  <2>8. /\ c' \in Client /\ c'.up = w.up /\ c'.counter = w.counter /\ c'.pings = n
        /\ c'.transport = w.transport
    BY <2>3, <2>4, <2>7 DEF Client
  <2>9. Link(c') = Link(w) /\ Topic(c') = Topic(w) /\ Outbox(c') = Outbox(w)
    BY <2>3, <2>7 DEF Client, Link, Topic, Outbox
  <2>10. UNCHANGED <<down, broker>>
    BY <1>2, <2>3, <2>6, <2>7, <2>8 DEF Becomes, Link
  <2>11. Writes(p)
    BY <1>1, <1>2, <2>2, <2>3, <2>8, <2>9, <2>10 DEF Writes
  <2>12. c'.active = c.active /\ c'.pendingUnsub = c.pendingUnsub
    BY <2>3, <2>9 DEF Topic
  <2>13. Typed' /\ Phases' /\ Understood'
    BY <1>1, <2>11, WriteLinked DEF IInv, Typed
  <2>14. Subscriptions' /\ Receipts' /\ Exchanges'
    BY <2>2, <2>3, <2>9, <2>11, WriteSubscribed, WriteReceived, WriteExchanged
  <2>15. Hearing'
    BY <1>1, <2>2, <2>11, <2>12, WriteHeard
  <2>16. Pinging'
    <3>1. CASE silent
      BY <1>1, <3>1 DEF Pinging
    <3>2. CASE ~ silent
      <4>1. Cardinality(At(c'.up, {"PINGREQ"})) = Cardinality(At(c.up, {"PINGREQ"})) + 1
        BY <2>2, <2>3, <2>8, IsTyped, CountAppended
      <4>2. Cardinality(At(c.up, {"PINGREQ"})) \in Nat /\ Cardinality(At(down, {"PINGRESP"})) \in Nat
        BY IsTyped, AtFinite
      <4>3. Cardinality(At(c.up, {"PINGREQ"})) + Cardinality(At(down, {"PINGRESP"})) <= c.pings
        BY <3>2 DEF IInv, Pinging
      <4>4. c'.pings = c.pings + 1 /\ c.pings \in Nat
        BY <1>1, <2>8 DEF n, Client, Counts
      <4> QED BY <2>10, <4>1, <4>2, <4>3, <4>4 DEF Pinging
    <3> QED BY <3>1, <3>2
  <2> QED BY <2>3, <2>8, <2>13, <2>14, <2>15, <2>16 DEF IInv, Fresh
<1> QED BY <1>3, <1>4

\* Publications of telemetry are not among the packets that anything waits for.
LEMMA Published ==
    ASSUME NEW u \in Seq(UpPacket), NEW q \in Seq(UpPacket), \A i \in 1..Len(q) : q[i].type = "PUBLISH"
    PROVE  /\ u \o q \in Seq(UpPacket)
           /\ \A T : "PUBLISH" \notin T =>
                /\ At(u \o q, T) = At(u, T)
                /\ None(u \o q, T) <=> None(u, T)
           /\ \A T : \A i \in At(u, T) : (u \o q)[i] = u[i]
<1> DEFINE t == u \o q
<1>1. /\ t \in Seq(UpPacket) /\ Len(t) = Len(u) + Len(q)
      /\ \A i \in 1..(Len(u) + Len(q)) : t[i] = IF i <= Len(u) THEN u[i] ELSE q[i - Len(u)]
  BY ConcatProperties
<1>2. Len(u) \in Nat /\ Len(q) \in Nat
  BY LenProperties
<1> HIDE DEF t
<1>3. \A i \in 1..Len(u) : i \in 1..Len(t) /\ t[i] = u[i]
  BY <1>1, <1>2
<1>4. \A i \in 1..Len(t) : i \in 1..Len(u) \/ t[i].type = "PUBLISH"
  <2> SUFFICES ASSUME NEW i \in 1..Len(t), i \notin 1..Len(u) PROVE t[i].type = "PUBLISH"
    OBVIOUS
  <2>1. i - Len(u) \in 1..Len(q) /\ t[i] = q[i - Len(u)]
    BY <1>1, <1>2
  <2> QED BY <2>1
<1>5. ASSUME NEW T, "PUBLISH" \notin T PROVE At(t, T) = At(u, T)
  BY <1>3, <1>4, <1>5 DEF At
<1>6. \A T : \A i \in At(u, T) : t[i] = u[i]
  BY <1>3 DEF At
<1> QED BY <1>1, <1>5, <1>6, NoneAt DEF t

\* Requests and answers are the same in another sequence.
LEMMA FlightSame ==
    ASSUME NEW u, NEW v, NEW d, NEW R, NEW A, NEW W, Flight(u, d, R, A, W),
           At(v, R) = At(u, R), \A i \in At(u, R) : v[i] = u[i]
    PROVE  Flight(v, d, R, A, W)
<1>1. AreIn(v, R, W) /\ Differ(v, R) /\ Apart(v, R, d, A)
  BY DEF Flight, AreIn, Differ, Apart
<1> QED BY <1>1 DEF Flight

\* VKMqttClient::onReportingTimer.
LEMMA OnReportingTimerKeeps ==
    ASSUME IInv, OnReportingTimer
    PROVE  IInv' /\ Fresh
<1>1. c.timer /\ c \in Client /\ UNCHANGED <<down, broker, silent, flown, sent, repeated>>
  BY IsTyped DEF OnReportingTimer
<1>2. Talking
  BY <1>1 DEF IInv, Phases, Shut, Opening, Shaking, Hushed, Unsaid
<1>3. PICK list \in Lists : c' = [c EXCEPT !.up = @ \o Publications(list)]
  BY <1>2 DEF OnReportingTimer, Talking
<1> DEFINE q == Publications(list)
           u == c.up \o q
<1>4. q \in Seq(UpPacket) /\ \A i \in 1..Len(q) : q[i].type = "PUBLISH"
  <2> DEFINE n == Cardinality(Vehicles)
  <2>1. n \in Nat
    BY MqttAssumption, FS_CardinalityType
  <2> HIDE DEF n
  <2>2. list \in [1..n -> Vehicles]
    BY DEF Lists, n
  <2>3. \A i \in 1..n : Packet("PUBLISH", 0, list[i]) \in UpPacket
    BY <2>2, PacketIsUp DEF UpType, Data
  <2>4. q = [i \in 1..n |-> Packet("PUBLISH", 0, list[i])]
    BY <2>2 DEF Publications
  <2>5. q \in [1..n -> UpPacket]
    BY <2>3, <2>4
  <2>6. q \in Seq(UpPacket)
    BY <2>1, <2>5, SeqDef
  <2> HIDE DEF q
  <2>7. 1..Len(q) = 1..n
    BY <2>5, <2>6, LenProperties
  <2> QED BY <2>4, <2>6, <2>7 DEF Packet
<1> HIDE DEF q
<1>5. c' = [c EXCEPT !.up = u]
  BY <1>3 DEF q
<1>6. /\ u \in Seq(UpPacket)
      /\ \A T : "PUBLISH" \notin T =>
            /\ At(u, T) = At(c.up, T)
            /\ None(u, T) <=> None(c.up, T)
      /\ \A T : \A i \in At(c.up, T) : u[i] = c.up[i]
  BY <1>4, IsTyped, Published
<1> HIDE DEF u
<1>7. c' \in Client /\ c'.up = u /\ c'.counter = c.counter /\ c'.pings = c.pings
  BY <1>1, <1>5, <1>6 DEF Client
<1>8. Link(c') = Link(c) /\ Topic(c') = Topic(c) /\ Outbox(c') = Outbox(c)
  BY <1>1, <1>5 DEF Client, Link, Topic, Outbox
<1>9. /\ c'.state = c.state /\ c'.internal = c.internal /\ c'.transport = c.transport
      /\ c'.missing = c.missing /\ c'.pingTimer = c.pingTimer /\ c'.timer = c.timer
  BY <1>8 DEF Link
<1>10. /\ c'.active = c.active /\ c'.sub = c.sub /\ c'.subId = c.subId
       /\ c'.pendingAck = c.pendingAck /\ c'.pendingUnsub = c.pendingUnsub
       /\ c'.pendingMsg = c.pendingMsg /\ c'.pendingRel = c.pendingRel
  BY <1>8 DEF Topic, Outbox
<1>11. /\ At(u, {"SUBSCRIBE"}) = At(c.up, {"SUBSCRIBE"})
       /\ At(u, {"UNSUBSCRIBE"}) = At(c.up, {"UNSUBSCRIBE"})
       /\ At(u, {"PUBLISH1", "PUBLISH2"}) = At(c.up, {"PUBLISH1", "PUBLISH2"})
       /\ At(u, {"PUBACK"}) = At(c.up, {"PUBACK"}) /\ At(u, {"PINGREQ"}) = At(c.up, {"PINGREQ"})
       /\ None(u, {"SUBSCRIBE"}) <=> None(c.up, {"SUBSCRIBE"})
       /\ None(u, {"CONNECT"}) <=> None(c.up, {"CONNECT"})
  BY <1>6
<1>12. Typed'
  BY <1>1, <1>7 DEF IInv, Typed
<1>13. Phases' /\ Understood'
  BY <1>1, <1>2, <1>7, <1>9, <1>11 DEF IInv, Phases, Talking, Understood
<1>14. Exchanges'
  <2>1. CASE silent
    BY <1>1, <2>1 DEF Exchanges
  <2>2. CASE ~ silent
    <3>1. Flight(u, down, {"SUBSCRIBE"}, {"SUBACK"}, c.pendingAck)
      BY <1>6, <1>11, <2>2, FlightSame DEF IInv, Exchanges
    <3>2. Flight(u, down, {"UNSUBSCRIBE"}, {"UNSUBACK"}, c.pendingUnsub)
      BY <1>6, <1>11, <2>2, FlightSame DEF IInv, Exchanges
    <3>3. Flight(u, down, {"PUBLISH1", "PUBLISH2"}, {"PUBACK", "PUBREC"}, Ids(c.pendingMsg))
      BY <1>6, <1>11, <2>2, FlightSame DEF IInv, Exchanges
    <3> QED BY <1>1, <1>7, <1>10, <3>1, <3>2, <3>3 DEF Exchanges
  <2> QED BY <2>1, <2>2
<1>15. Subscriptions'
  BY <1>1, <1>6, <1>7, <1>10, <1>11 DEF IInv, Subscriptions
<1>16. Receipts'
  BY <1>1, <1>6, <1>7, <1>10, <1>11 DEF IInv, Receipts
<1>17. Hearing'
  BY <1>1, <1>6, <1>7, <1>9, <1>10, <1>11 DEF IInv, Hearing, Before
<1>18. Pinging'
  BY <1>1, <1>7, <1>11 DEF IInv, Pinging
<1> QED BY <1>7, <1>12, <1>13, <1>14, <1>15, <1>16, <1>17, <1>18 DEF IInv, Fresh

\* QMqttConnection::sendControlPublish.
LEMMA PublishKeeps ==
    ASSUME IInv, NEW qos \in 1..2, Publish(qos)
    PROVE  IInv' /\ Fresh
<1> DEFINE m == CHOOSE x \in Unpublished : TRUE
           id == UnusedIdentifier(c)
           type == IF qos = 1 THEN "PUBLISH1" ELSE "PUBLISH2"
           p == Packet(type, id, m)
           e == [id |-> id, msg |-> m, qos |-> qos]
           w == Write(c, p)
           n == Insert(c.pendingMsg, e)
<1>1. /\ c \in Client /\ c.state = "Connected" /\ c.transport = "open" /\ Unpublished # {}
      /\ Cardinality(InUse(c)) < MaxId /\ UNCHANGED <<down, broker, silent, flown, sent, repeated>>
  BY IsTyped DEF Publish, IdLeft
<1>2. c' = [w EXCEPT !.counter = id, !.pendingMsg = Insert(@, e)]
  BY DEF Publish
<1>3. id \in Identifiers /\ id \notin InUse(c)
  BY <1>1, IdentifierFound
<1>4. m \in Messages
  BY <1>1 DEF Unpublished
<1>5. type \in {"PUBLISH1", "PUBLISH2"}
  OBVIOUS
<1> HIDE DEF m, id, type
<1>6. p \in UpPacket /\ p.type = type /\ p.id = id /\ p.data = m
  BY <1>3, <1>4, <1>5, PacketIsUp DEF UpType, Data, Packet
<1>7. e \in Waiting /\ e.id = id /\ e.msg = m
  BY <1>3, <1>4 DEF Waiting
<1> HIDE DEF p, e
<1>8. /\ w \in Client /\ w.up = Append(c.up, p) /\ Link(w) = Link(c) /\ Topic(w) = Topic(c)
      /\ Outbox(w) = Outbox(c) /\ w.pings = c.pings
  BY <1>1, <1>6, Written
<1> HIDE DEF w
<1>9. w.pendingMsg = c.pendingMsg /\ w.pendingRel = c.pendingRel
  BY <1>8 DEF Outbox
<1>10. /\ n \in SUBSET Waiting /\ n = c.pendingMsg \cup {e}
       /\ Ids(n) = Ids(c.pendingMsg) \cup {id} /\ id \notin Ids(c.pendingMsg)
       /\ \A q \in c.pendingMsg : q.id # id
  <2>1. id \notin Ids(c.pendingMsg)
    BY <1>3 DEF InUse
  <2>2. \A q \in c.pendingMsg : q.id # id
    BY <2>1 DEF Ids
  <2>3. n = c.pendingMsg \cup {e}
    BY <1>7, <2>2 DEF Insert
  <2>4. c.pendingMsg \in SUBSET Waiting
    BY <1>1 DEF Client
  <2> HIDE DEF n
  <2>5. Ids(n) = Ids(c.pendingMsg) \cup {id}
    BY <1>7, <2>3 DEF Ids
  <2> QED BY <1>7, <2>1, <2>2, <2>3, <2>4, <2>5
<1>11. c' = [w EXCEPT !.counter = id, !.pendingMsg = n]
  BY <1>2, <1>9
<1> HIDE DEF n
<1>12. /\ c' \in Client /\ c'.up = w.up /\ c'.counter = id /\ c'.pings = w.pings /\ c'.pendingMsg = n
       /\ c'.pendingRel = w.pendingRel
  BY <1>3, <1>8, <1>10, <1>11 DEF Client
<1>13. Link(c') = Link(w) /\ Topic(c') = Topic(w)
  BY <1>8, <1>11 DEF Client, Link, Topic
<1>14. Writes(p)
  BY <1>1, <1>5, <1>6, <1>8, <1>12, <1>13 DEF Writes
<1>15. c'.active = c.active /\ c'.pendingUnsub = c.pendingUnsub /\ c'.pendingAck = c.pendingAck
  BY <1>8, <1>13 DEF Topic
<1>16. Typed' /\ Phases' /\ Understood'
  BY <1>1, <1>14, WriteLinked DEF IInv, Typed
<1>17. Subscriptions' /\ Hearing' /\ Pinging'
  BY <1>1, <1>5, <1>6, <1>8, <1>12, <1>13, <1>14, <1>15, WriteSubscribed, WriteHeard, WritePinged
<1>18. Exchanges'
  <2>1. CASE silent
    BY <1>1, <2>1 DEF Exchanges
  <2>2. CASE ~ silent
    <3>1. c.up \in Seq(UpPacket) /\ c'.up = Append(c.up, p)
      BY <1>8, <1>12, IsTyped
    <3>2. Flight(c'.up, down, {"SUBSCRIBE"}, {"SUBACK"}, c.pendingAck)
      BY <1>5, <1>6, <2>2, <3>1, FlightSends DEF IInv, Exchanges
    <3>3. Flight(c'.up, down, {"UNSUBSCRIBE"}, {"UNSUBACK"}, c.pendingUnsub)
      BY <1>5, <1>6, <2>2, <3>1, FlightSends DEF IInv, Exchanges
    <3>4. Flight(c'.up, down, {"PUBLISH1", "PUBLISH2"}, {"PUBACK", "PUBREC"}, Ids(n))
      <4>1. Flight(c.up, down, {"PUBLISH1", "PUBLISH2"}, {"PUBACK", "PUBREC"}, Ids(c.pendingMsg))
        BY <2>2 DEF IInv, Exchanges
      <4>2. Ids(c.pendingMsg) \subseteq Ids(n) /\ p.id \in Ids(n) /\ p.id \notin Ids(c.pendingMsg)
        BY <1>6, <1>10
      <4> QED BY <1>6, <3>1, <4>1, <4>2, FlightSends
    <3> QED BY <1>1, <1>12, <1>15, <3>2, <3>3, <3>4 DEF Exchanges
  <2> QED BY <2>1, <2>2
<1>19. Receipts'
  <2>1. sent' \subseteq broker'.got /\ \A q \in c'.pendingRel : q.msg \in broker'.got
    BY <1>1, <1>9, <1>12 DEF IInv, Receipts
  <2>2. CASE silent
    BY <1>1, <2>1, <2>2 DEF Receipts
  <2>3. CASE ~ silent
    <3>1. Flight(c.up, down, {"PUBLISH1", "PUBLISH2"}, {"PUBACK", "PUBREC"}, Ids(c.pendingMsg))
      BY <2>3 DEF IInv, Exchanges
    <3>2. ASSUME NEW i \in At(down, {"PUBACK", "PUBREC"}), NEW q \in n, q.id = down[i].id
          PROVE  q.msg \in broker.got
      <4>1. down[i].id # id
        BY <1>10, <3>1 DEF Flight, AreIn
      <4>2. q \in c.pendingMsg
        BY <1>7, <1>10, <3>2, <4>1
      <4> QED BY <2>3, <3>2, <4>2 DEF IInv, Receipts
    <3>3. ASSUME NEW i \in At(c'.up, {"PUBLISH1", "PUBLISH2"}), NEW q \in n, q.id = c'.up[i].id
          PROVE  q.msg = c'.up[i].data
      <4>1. /\ i \in At(c.up, {"PUBLISH1", "PUBLISH2"}) \/ i = Len(c.up) + 1
            /\ c'.up[Len(c.up) + 1] = p
            /\ \A j \in At(c.up, {"PUBLISH1", "PUBLISH2"}) : c'.up[j] = c.up[j]
        BY <1>5, <1>6, <1>8, <1>12, IsTyped, AppendedAt, Appended
      <4>2. CASE i \in At(c.up, {"PUBLISH1", "PUBLISH2"})
        <5>1. c.up[i].id # id
          BY <1>10, <3>1, <4>2 DEF Flight, AreIn
        <5>2. q \in c.pendingMsg
          BY <1>7, <1>10, <3>3, <4>1, <4>2, <5>1
        <5> QED BY <2>3, <3>3, <4>1, <4>2, <5>2 DEF IInv, Receipts
      <4>3. CASE i = Len(c.up) + 1
        BY <1>6, <1>7, <1>10, <3>3, <4>1, <4>3
      <4> QED BY <4>1, <4>2, <4>3
    <3> QED BY <1>1, <1>12, <2>1, <3>2, <3>3 DEF Receipts
  <2> QED BY <2>2, <2>3
<1> QED BY <1>3, <1>12, <1>16, <1>17, <1>18, <1>19 DEF IInv, Fresh

\* QMqttClient::subscribe.
LEMMA SubscribeKeeps ==
    ASSUME IInv, Subscribe
    PROVE  IInv' /\ Fresh
<1>1. /\ c \in Client /\ c.state = "Connected" /\ c.transport = "open" /\ c' = SendSubscribe(c)
      /\ Cardinality(InUse(c)) < MaxId /\ UNCHANGED <<down, broker, silent, flown, sent, repeated>>
  BY IsTyped DEF Subscribe, IdLeft
<1>2. CASE c.active
  <2>1. c' = c
    BY <1>1, <1>2 DEF SendSubscribe
  <2> QED BY <1>1, <2>1, SameKeeps
<1>3. CASE ~ c.active
  <2> DEFINE id == UnusedIdentifier(c)
             p == Packet("SUBSCRIBE", id, "ctl")
  <2>1. /\ c' \in Client /\ p \in UpPacket /\ c'.up = Append(c.up, p)
        /\ Link(c') = Link(c) /\ Outbox(c') = Outbox(c) /\ c'.pings = c.pings
        /\ c'.counter = id /\ c'.active = TRUE /\ c'.sub = "Pending" /\ c'.subId = id
        /\ c'.pendingAck = c.pendingAck \cup {id} /\ c'.pendingUnsub = c.pendingUnsub
    BY <1>1, <1>3, Subscribes
  <2>2. id \notin InUse(c)
    BY <1>1, IdentifierFound
  <2>3. id \notin c.pendingAck
    BY <2>2 DEF InUse
  <2>4. p.type = "SUBSCRIBE" /\ p.id = id
    BY DEF Packet
  <2> HIDE DEF id, p
  <2>5. Writes(p)
    BY <1>1, <2>1, <2>4 DEF Writes
  <2>6. c'.pendingMsg = c.pendingMsg
    BY <2>1 DEF Outbox
  <2>7. c.up \in Seq(UpPacket)
    BY IsTyped
  <2>8. Typed' /\ Phases' /\ Understood'
    BY <1>1, <2>5, WriteLinked DEF IInv, Typed
  <2>9. Receipts' /\ Pinging'
    BY <2>1, <2>4, <2>5, WriteReceived, WritePinged
  <2>10. ASSUME ~ silent
         PROVE  /\ Flight(c.up, down, {"SUBSCRIBE"}, {"SUBACK"}, c.pendingAck)
                /\ Flight(c.up, down, {"UNSUBSCRIBE"}, {"UNSUBACK"}, c.pendingUnsub)
                /\ Flight(c.up, down, {"PUBLISH1", "PUBLISH2"}, {"PUBACK", "PUBREC"}, Ids(c.pendingMsg))
    BY <2>10 DEF IInv, Exchanges
  <2>11. Exchanges'
    <3>1. CASE silent
      BY <1>1, <3>1 DEF Exchanges
    <3>2. CASE ~ silent
      <4>1. Flight(c'.up, down, {"SUBSCRIBE"}, {"SUBACK"}, c'.pendingAck)
        BY <2>1, <2>3, <2>4, <2>7, <2>10, <3>2, FlightSends
      <4>2. Flight(c'.up, down, {"UNSUBSCRIBE"}, {"UNSUBACK"}, c'.pendingUnsub)
        BY <2>1, <2>4, <2>7, <2>10, <3>2, FlightSends
      <4>3. Flight(c'.up, down, {"PUBLISH1", "PUBLISH2"}, {"PUBACK", "PUBREC"}, Ids(c'.pendingMsg))
        BY <2>1, <2>4, <2>6, <2>7, <2>10, <3>2, FlightSends
      <4> QED BY <1>1, <4>1, <4>2, <4>3 DEF Exchanges
    <3> QED BY <3>1, <3>2
  <2>12. /\ At(c'.up, {"SUBSCRIBE"}) = At(c.up, {"SUBSCRIBE"}) \cup {Len(c.up) + 1}
         /\ \A i \in At(c.up, {"SUBSCRIBE"}) : i \in 1..Len(c.up) /\ c'.up[i] = c.up[i]
         /\ c'.up[Len(c.up) + 1] = p
         /\ \A i \in 1..Len(c.up) : i # Len(c.up) + 1 /\ i <= Len(c.up) + 1 /\ ~ (Len(c.up) + 1 <= i)
         /\ Len(c.up) + 1 <= Len(c.up) + 1
    BY <2>1, <2>4, <2>7, AppendedAt, Appended
  <2>13. Subscriptions'
    <3>1. CASE silent
      BY <1>1, <2>1, <3>1 DEF Subscriptions
    <3>2. CASE ~ silent
      <4>1. \A i \in At(c.up, {"SUBSCRIBE"}) : c.up[i].id # id
        BY <2>3, <2>10, <3>2 DEF Flight, AreIn
      <4>2. \A i \in At(down, {"SUBACK"}) : down[i].id # id
        BY <2>3, <2>10, <3>2 DEF Flight, AreIn
      <4>3. ASSUME NEW i \in At(c'.up, {"SUBSCRIBE"})
            PROVE  c'.up[i].id = id <=> \A j \in At(c'.up, {"SUBSCRIBE"}) : j <= i
        <5>1. CASE i = Len(c.up) + 1
          BY <2>4, <2>12, <5>1
        <5>2. CASE i \in At(c.up, {"SUBSCRIBE"})
          BY <2>12, <4>1, <5>2
        <5> QED BY <2>12, <5>1, <5>2
      <4> QED BY <1>1, <2>1, <4>2, <4>3, ZenonT(30) DEF Subscriptions
    <3> QED BY <3>1, <3>2
  <2>14. Hearing'
    <3>1. CASE repeated
      BY <1>1, <3>1 DEF Hearing
    <3>2. CASE ~ repeated /\ silent
      BY <1>1, <3>2 DEF IInv, Hearing
    <3>3. CASE ~ repeated /\ ~ silent
      <4>1. c.pendingUnsub = {}
        BY <1>1, <1>3, <3>3 DEF IInv, Hearing
      <4>2. At(c.up, {"UNSUBSCRIBE"}) = {} /\ At(down, {"UNSUBACK"}) = {}
        BY <2>10, <3>3, <4>1 DEF Flight, AreIn
      <4>3. At(c'.up, {"UNSUBSCRIBE"}) = {} /\ None(down, {"UNSUBACK"})
        BY <2>1, <2>4, <2>7, <4>2, AppendedAt, NoneAt
      <4>4. At(c'.up, {"PUBACK"}) = At(c.up, {"PUBACK"}) /\ \A i \in At(c.up, {"PUBACK"}) : c'.up[i] = c.up[i]
        BY <2>1, <2>4, <2>7, AppendedAt
      <4>5. \A m \in broker'.acked : Orders(m) \subseteq flown'
        BY <1>1, <3>3 DEF IInv, Hearing
      <4>6. \A i \in At(c'.up, {"PUBACK"}) : Orders(c'.up[i].data) \subseteq flown'
        BY <1>1, <3>3, <4>4 DEF IInv, Hearing
      <4>7. \A i : ~ Before(down', i, "UNSUBACK") /\ ~ Before(c'.up, i, "UNSUBSCRIBE")
        BY <1>1, <4>2, <4>3 DEF Before
      <4> QED BY <1>1, <2>1, <4>1, <4>3, <4>5, <4>6, <4>7 DEF Hearing
    <3> QED BY <3>1, <3>2, <3>3
  <2> QED BY <2>1, <2>2, <2>8, <2>9, <2>11, <2>13, <2>14 DEF IInv, Fresh
<1> QED BY <1>2, <1>3

\* QMqttConnection::sendControlUnsubscribe.
LEMMA UnsubscribeKeeps ==
    ASSUME IInv, Unsubscribe
    PROVE  IInv' /\ Fresh
<1>1. /\ c \in Client /\ c.active /\ Becomes(SendUnsubscribe(c))
      /\ Cardinality(InUse(c)) < MaxId /\ UNCHANGED <<silent, flown, sent>>
      /\ repeated' = (repeated \/ c.pendingUnsub # {})
  BY IsTyped DEF Unsubscribe, IdLeft
<1>2. Talking \/ Hushed
  BY <1>1 DEF IInv, Phases, Shut, Opening, Shaking, Unsaid
<1>3. CASE Hushed
  <2> DEFINE r == [c EXCEPT !.active = FALSE]
  <2>1. /\ c.transport = "open" /\ c.state = "Connected" /\ c.internal = "BrokerDisconnected"
        /\ ~ c.pingTimer /\ ~ c.timer /\ silent
    BY <1>3 DEF Hushed
  <2>2. SendUnsubscribe(c) = r
    BY <1>1, <2>1 DEF SendUnsubscribe
  <2>3. /\ r \in Client /\ Link(r) = Link(c) /\ Outbox(r) = Outbox(c) /\ r.active = FALSE
        /\ r.counter = c.counter
    BY <1>1 DEF Client, Link, Outbox
  <2>4. Becomes(r)
    BY <1>1, <2>2
  <2> HIDE DEF r
  <2>5. c' = r /\ UNCHANGED <<down, broker>>
    BY <2>1, <2>3, <2>4 DEF Becomes, Link
  <2>6. Typed'
    BY <1>1, <2>3, <2>5 DEF IInv, Typed
  <2>7. Phases'
    BY <1>1, <2>1, <2>3, <2>5 DEF Phases, Hushed, Link
  <2>8. Understood'
    BY <2>1, <2>3, <2>5 DEF IInv, Understood, Link
  <2>9. Exchanges' /\ Pinging'
    BY <1>1, <2>1 DEF Exchanges, Pinging
  <2>10. Subscriptions'
    BY <2>3, <2>5 DEF Subscriptions
  <2>11. Receipts'
    BY <1>1, <2>1, <2>3, <2>5 DEF IInv, Receipts, Outbox
  <2>12. Hearing'
    BY <1>1, <2>1, <2>5 DEF IInv, Hearing
  <2> QED BY <2>3, <2>5, <2>6, <2>7, <2>8, <2>9, <2>10, <2>11, <2>12 DEF IInv, Fresh
<1>4. CASE Talking
  <2> DEFINE id == UnusedIdentifier(c)
             p == Packet("UNSUBSCRIBE", id, "ctl")
             r == SendUnsubscribe(c)
  <2>1. c.state = "Connected" /\ c.internal = "BrokerConnected" /\ c.transport = "open"
    BY <1>4 DEF Talking
  <2>2. /\ r \in Client /\ p \in UpPacket /\ r.up = Append(c.up, p)
        /\ Link(r) = Link(c) /\ Outbox(r) = Outbox(c) /\ r.pings = c.pings
        /\ r.counter = id /\ r.active = c.active /\ r.sub = "UnsubscriptionPending"
        /\ r.subId = c.subId /\ r.pendingAck = c.pendingAck
        /\ r.pendingUnsub = c.pendingUnsub \cup {id}
    BY <1>1, <2>1, Unsubscribes
  <2>3. id \notin InUse(c)
    BY <1>1, IdentifierFound
  <2>4. id \notin c.pendingUnsub
    BY <2>3 DEF InUse
  <2>5. p.type = "UNSUBSCRIBE" /\ p.id = id
    BY DEF Packet
  <2>6. Becomes(r)
    BY <1>1
  <2> HIDE DEF id, p, r
  <2>7. c' = r /\ UNCHANGED <<down, broker>>
    BY <2>1, <2>2, <2>6 DEF Becomes, Link
  <2>8. Writes(p)
    BY <1>1, <2>1, <2>2, <2>5, <2>7 DEF Writes
  <2>9. c'.pendingMsg = c.pendingMsg
    BY <2>2, <2>7 DEF Outbox
  <2>10. c.up \in Seq(UpPacket) /\ repeated \in BOOLEAN /\ repeated' \in BOOLEAN
    BY <1>1, IsTyped DEF IInv, Typed
  <2>16. /\ c'.up = Append(c.up, p) /\ p \in UpPacket
         /\ c'.pendingAck = c.pendingAck /\ c'.pendingUnsub = c.pendingUnsub \cup {id}
    BY <2>2, <2>7
  <2>11. Typed' /\ Phases' /\ Understood'
    BY <2>8, <2>10, WriteLinked
  <2>12. Receipts' /\ Pinging'
    BY <2>2, <2>5, <2>7, <2>8, WriteReceived, WritePinged
  <2>13. Exchanges'
    <3>1. CASE silent
      BY <1>1, <3>1 DEF Exchanges
    <3>2. CASE ~ silent
      <4>0. /\ Flight(c.up, down, {"SUBSCRIBE"}, {"SUBACK"}, c.pendingAck)
            /\ Flight(c.up, down, {"UNSUBSCRIBE"}, {"UNSUBACK"}, c.pendingUnsub)
            /\ Flight(c.up, down, {"PUBLISH1", "PUBLISH2"}, {"PUBACK", "PUBREC"}, Ids(c.pendingMsg))
        BY <3>2 DEF IInv, Exchanges
      <4>1. Flight(c'.up, down, {"SUBSCRIBE"}, {"SUBACK"}, c'.pendingAck)
        BY <2>5, <2>10, <2>16, <4>0, FlightSends
      <4>2. Flight(c'.up, down, {"UNSUBSCRIBE"}, {"UNSUBACK"}, c'.pendingUnsub)
        BY <2>4, <2>5, <2>10, <2>16, <4>0, FlightSends
      <4>3. Flight(c'.up, down, {"PUBLISH1", "PUBLISH2"}, {"PUBACK", "PUBREC"}, Ids(c'.pendingMsg))
        BY <2>5, <2>9, <2>10, <2>16, <4>0, FlightSends
      <4> QED BY <2>7, <4>1, <4>2, <4>3 DEF Exchanges
    <3> QED BY <3>1, <3>2
  <2>14. Subscriptions'
    <3>1. CASE silent
      BY <1>1, <2>2, <2>7, <3>1 DEF Subscriptions
    <3>2. CASE ~ silent
      <4>1. /\ At(c'.up, {"SUBSCRIBE"}) = At(c.up, {"SUBSCRIBE"})
            /\ None(c'.up, {"SUBSCRIBE"}) <=> None(c.up, {"SUBSCRIBE"})
            /\ \A i \in At(c.up, {"SUBSCRIBE"}) : c'.up[i] = c.up[i]
        BY <2>5, <2>10, <2>16, AppendedAt
      <4>2. c'.pendingUnsub # {}
        BY <2>2, <2>7
      <4>3. c'.sub # "Subscribed" /\ c'.subId = c.subId /\ c'.active = c.active /\ down' = down
        BY <2>2, <2>7
      <4> QED BY <1>1, <3>2, <4>1, <4>2, <4>3 DEF IInv, Subscriptions
    <3> QED BY <3>1, <3>2
  <2>15. Hearing'
    <3>1. CASE repeated'
      BY <3>1 DEF Hearing
    <3>2. CASE ~ repeated'
      <4>1. c.pendingUnsub = {} /\ repeated' = repeated
        BY <1>1, <2>10, <3>2
      <4>2. \A x, y \in c'.pendingUnsub : x = y
        BY <2>2, <2>7, <4>1
      <4> QED BY <1>1, <2>2, <2>5, <2>7, <2>8, <4>1, <4>2, WriteHeard
    <3> QED BY <3>1, <3>2
  <2> QED BY <2>2, <2>3, <2>7, <2>11, <2>12, <2>13, <2>14, <2>15 DEF IInv, Fresh
<1> QED BY <1>2, <1>3, <1>4

-----------------------------------------------------------------------------
(* Steps that read a packet *)

\* The client, whose last packet has been read
Read(k) == [k EXCEPT !.missing = "none"]

\* Only what is being read differs.
LEMMA ReadIs ==
    ASSUME NEW k \in Client
    PROVE  /\ Read(k) \in Client /\ Read(k).missing = "none" /\ Read(k).up = k.up
           /\ Read(k).state = k.state /\ Read(k).internal = k.internal /\ Read(k).transport = k.transport
           /\ Read(k).pingTimer = k.pingTimer /\ Read(k).timer = k.timer /\ Read(k).pings = k.pings
           /\ Read(k).counter = k.counter /\ Topic(Read(k)) = Topic(k) /\ Outbox(Read(k)) = Outbox(k)
<1>1. /\ Read(k) \in Client /\ Read(k).missing = "none" /\ Read(k).up = k.up
      /\ Read(k).state = k.state /\ Read(k).internal = k.internal /\ Read(k).transport = k.transport
      /\ Read(k).pingTimer = k.pingTimer /\ Read(k).timer = k.timer /\ Read(k).pings = k.pings
      /\ Read(k).counter = k.counter
  BY DEF Client, Read
<1>2. Topic(Read(k)) = Topic(k) /\ Outbox(Read(k)) = Outbox(k)
  BY DEF Client, Read, Topic, Outbox
<1> QED BY <1>1, <1>2

\* Packets come while a connection is made or has been made.
LEMMA Comes ==
    ASSUME IInv, Readable
    PROVE  /\ c \in Client /\ down \in Seq(DownPacket) /\ Len(down) > 0 /\ ~ silent /\ c.transport = "open"
           /\ Head(down) = down[1] /\ down[1] \in DownPacket
           /\ \/ Talking /\ down[1].type # "CONNACK"
              \/ Shaking /\ Len(down) = 1 /\ Len(c.up) = 0 /\ down[1].type = "CONNACK"
<1>1. c \in Client /\ down \in Seq(DownPacket) /\ Len(down) > 0 /\ ~ silent /\ c.transport = "open"
  BY IsTyped, EmptySeq, LenProperties DEF Readable
<1>2. /\ Head(down) = down[1] /\ down[1] \in DownPacket
      /\ None(down, {"CONNACK"}) => down[1].type \notin {"CONNACK"}
  BY <1>1, TailAt
<1>3. Talking \/ Shaking
  BY <1>1 DEF IInv, Phases, Shut, Opening, Hushed
<1>4. CASE Talking
  BY <1>1, <1>2, <1>4 DEF Talking
<1>5. CASE Shaking
  BY <1>1, <1>2, <1>5 DEF Shaking
<1> QED BY <1>3, <1>4, <1>5

\* QMqttConnection::processDataHelper, the header.
LEMMA ReadHeaderKeeps ==
    ASSUME IInv, ReadHeader
    PROVE  IInv' /\ Fresh
<1> DEFINE k == [c EXCEPT !.missing = Head(down).type]
<1>1. Readable /\ UNCHANGED <<silent, flown, sent, repeated>>
  BY DEF ReadHeader
<1>2. /\ c \in Client /\ Len(down) > 0 /\ c.transport = "open" /\ Head(down) = down[1]
      /\ down[1] \in DownPacket
  BY <1>1, Comes
<1>3. ~ (Head(down).type = "CONNACK" /\ c.internal # "BrokerWaitForConnectAck")
  BY <1>1, Comes DEF Shaking
<1>4. Becomes(k)
  BY <1>3 DEF ReadHeader
<1>5. /\ k \in Client /\ k.up = c.up /\ k.state = c.state /\ k.internal = c.internal
      /\ k.transport = c.transport /\ k.pingTimer = c.pingTimer /\ k.timer = c.timer
      /\ k.pings = c.pings /\ k.counter = c.counter /\ k.missing = down[1].type
  BY <1>2 DEF Client, DownPacket
<1>6. /\ k.active = c.active /\ k.sub = c.sub /\ k.subId = c.subId /\ k.pendingAck = c.pendingAck
      /\ k.pendingUnsub = c.pendingUnsub /\ k.pendingMsg = c.pendingMsg /\ k.pendingRel = c.pendingRel
  BY <1>2 DEF Client
<1> HIDE DEF k
<1>7. c' = k /\ UNCHANGED <<down, broker>>
  BY <1>2, <1>4, <1>5 DEF Becomes
<1>8. Typed'
  BY <1>1, <1>5, <1>7 DEF IInv, Typed
<1>9. Phases'
  <2>1. Talking \/ Shaking
    BY <1>1, Comes
  <2>2. CASE Talking
    BY <1>5, <1>7, <2>2 DEF Phases, Talking
  <2>3. CASE Shaking
    BY <1>5, <1>6, <1>7, <2>3 DEF Phases, Shaking, Unsaid
  <2> QED BY <2>1, <2>2, <2>3
<1>10. Understood'
  BY <1>2, <1>5, <1>7 DEF Understood
<1>11. Exchanges'
  BY <1>1, <1>5, <1>6, <1>7 DEF IInv, Exchanges
<1>12. Subscriptions'
  BY <1>1, <1>5, <1>6, <1>7 DEF IInv, Subscriptions
<1>13. Receipts'
  BY <1>1, <1>5, <1>6, <1>7 DEF IInv, Receipts
<1>14. Hearing'
  BY <1>1, <1>5, <1>6, <1>7 DEF IInv, Hearing
<1>15. Pinging'
  BY <1>1, <1>5, <1>7 DEF IInv, Pinging
<1> QED BY <1>5, <1>7, <1>8, <1>9, <1>10, <1>11, <1>12, <1>13, <1>14, <1>15 DEF IInv, Fresh

\* The body that is read is that of the header.
LEMMA BodyIsRead ==
    ASSUME IInv, ReadBody
    PROVE  /\ c' = Finalize(Read(c), down[1])
           /\ c'.transport = "open" => down' = Tail(down) /\ broker' = broker
           /\ c'.transport # "open" => down' = <<>> /\ broker' = [broker EXCEPT !.session = NoSession]
           /\ sent' = sent \cup {q.msg : q \in NowSent(down[1])}
           /\ flown' = IF down[1].type \in {"PUBLISH", "PUBLISH1"} /\ c.active
                       THEN flown \cup Orders(down[1].data) ELSE flown
           /\ UNCHANGED <<silent, repeated>>
<1>1. Readable /\ c.missing # "none" /\ UNCHANGED <<silent, repeated>>
  BY DEF ReadBody
<1>2. Head(down) = down[1] /\ c.transport = "open"
  BY <1>1, Comes
<1>3. c.missing = down[1].type
  BY <1>1, <1>2 DEF IInv, Understood
<1>4. c' = Finalize(Read(c), down[1])
  BY <1>2, <1>3 DEF ReadBody, Read
<1>5. /\ c'.transport = "open" => down' = Tail(down) /\ broker' = broker
      /\ c'.transport # "open" => down' = <<>> /\ broker' = [broker EXCEPT !.session = NoSession]
  BY DEF ReadBody
<1>6. /\ sent' = sent \cup {q.msg : q \in NowSent(down[1])}
      /\ flown' = IF down[1].type \in {"PUBLISH", "PUBLISH1"} /\ c.active
                  THEN flown \cup Orders(down[1].data) ELSE flown
  BY <1>2 DEF ReadBody
<1> QED BY <1>1, <1>4, <1>5, <1>6

\* A connected client takes the first packet, and may acknowledge it.
Takes ==
    /\ Talking /\ ~ silent /\ Len(down) > 0 /\ down[1].type # "CONNACK"
    /\ c' \in Client /\ c'.missing = "none"
    /\ c'.state = c.state /\ c'.internal = c.internal /\ c'.transport = c.transport
    /\ c'.pingTimer = c.pingTimer /\ c'.timer = c.timer
    /\ \/ c'.up = c.up
       \/ \E w \in UpPacket : w.type \in {"PUBACK", "PUBREL"} /\ c'.up = Append(c.up, w)
    /\ down' = Tail(down) /\ UNCHANGED <<broker, silent, repeated>>

\* What has been sent is as it was, but for acknowledgements.
LEMMA TakeSends ==
    ASSUME IInv, Takes
    PROVE  \A T : "PUBREL" \notin T /\ "PUBACK" \notin T =>
             /\ At(c'.up, T) = At(c.up, T)
             /\ None(c'.up, T) <=> None(c.up, T)
             /\ \A i \in At(c.up, T) : c'.up[i] = c.up[i]
<1>1. c.up \in Seq(UpPacket)
  BY IsTyped
<1>2. CASE c'.up = c.up
  BY <1>2
<1>3. ASSUME NEW w \in UpPacket, w.type \in {"PUBACK", "PUBREL"}, c'.up = Append(c.up, w),
             NEW T, "PUBREL" \notin T, "PUBACK" \notin T
      PROVE  /\ At(c'.up, T) = At(c.up, T)
             /\ None(c'.up, T) <=> None(c.up, T)
             /\ \A i \in At(c.up, T) : c'.up[i] = c.up[i]
  <2>1. w.type \notin T
    BY <1>3
  <2> QED BY <1>1, <1>3, <2>1, AppendedAt
<1> QED BY <1>2, <1>3 DEF Takes

\* What is left of what has come.
LEMMA TakeLeaves ==
    ASSUME IInv, Takes
    PROVE  /\ down \in Seq(DownPacket) /\ down[1] \in DownPacket
           /\ down' \in Seq(DownPacket)
           /\ \A T : \A i \in At(down', T) : i \in Nat /\ i + 1 \in At(down, T) /\ down'[i] = down[i + 1]
           /\ \A T : None(down, T) => None(down', T) /\ down[1].type \notin T
           /\ \A T : 1 \in At(down, T) <=> down[1].type \in T
<1>1. down \in Seq(DownPacket) /\ Len(down) > 0 /\ down' = Tail(down)
  BY IsTyped DEF Takes
<1> DEFINE t == Tail(down)
<1>2. /\ t \in Seq(DownPacket) /\ down[1] \in DownPacket
      /\ \A T : \A i \in At(t, T) : i \in Nat /\ i + 1 \in At(down, T) /\ t[i] = down[i + 1]
      /\ \A T : None(down, T) => None(t, T) /\ down[1].type \notin T
      /\ \A T : 1 \in At(down, T) <=> down[1].type \in T
  BY <1>1, TailAt
<1>3. t = down'
  BY <1>1
<1> HIDE DEF t
<1> QED BY <1>1, <1>2, <1>3

\* The connection goes on.
LEMMA TakeLinked ==
    ASSUME IInv, Takes, flown' \subseteq Commands \X Vehicles, sent' \subseteq Messages
    PROVE  Typed' /\ Phases' /\ Understood'
<1>1. \A i \in At(down', {"PUBLISH", "PUBLISH1"}) : down'[i].data \in Commands
  BY TakeLeaves DEF IInv, Typed
<1>2. Typed'
  BY <1>1, TakeLeaves DEF IInv, Typed, Takes
<1>3. None(c'.up, {"CONNECT"}) /\ None(down', {"CONNACK"})
  BY TakeSends, TakeLeaves DEF Takes, Talking
<1>4. Phases'
  BY <1>3 DEF Phases, Talking, Takes
<1>5. Understood'
  BY DEF Understood, Takes
<1> QED BY <1>2, <1>4, <1>5

\* What is answered is waited for no longer.
LEMMA TakeExchanged ==
    ASSUME IInv, Takes,
           IF down[1].type = "SUBACK" THEN c'.pendingAck = c.pendingAck \ {down[1].id}
                                      ELSE c'.pendingAck = c.pendingAck,
           IF down[1].type = "UNSUBACK" THEN c'.pendingUnsub = c.pendingUnsub \ {down[1].id}
                                        ELSE c'.pendingUnsub = c.pendingUnsub,
           IF down[1].type \in {"PUBACK", "PUBREC"} THEN Ids(c.pendingMsg) \ {down[1].id} \subseteq Ids(c'.pendingMsg)
                                                    ELSE c'.pendingMsg = c.pendingMsg
    PROVE  Exchanges'
<1>1. /\ Flight(c.up, down, {"SUBSCRIBE"}, {"SUBACK"}, c.pendingAck)
      /\ Flight(c.up, down, {"UNSUBSCRIBE"}, {"UNSUBACK"}, c.pendingUnsub)
      /\ Flight(c.up, down, {"PUBLISH1", "PUBLISH2"}, {"PUBACK", "PUBREC"}, Ids(c.pendingMsg))
  BY DEF IInv, Exchanges, Takes
<1>2. down \in Seq(DownPacket) /\ Len(down) > 0 /\ down' = Tail(down)
  BY IsTyped DEF Takes
<1>3. Flight(c.up, down', {"SUBSCRIBE"}, {"SUBACK"}, c'.pendingAck)
  <2>1. /\ down[1].type \in {"SUBACK"} => c.pendingAck \ {down[1].id} \subseteq c'.pendingAck
        /\ down[1].type \notin {"SUBACK"} => c.pendingAck \subseteq c'.pendingAck
    OBVIOUS
  <2> QED BY <1>1, <1>2, <2>1, FlightTakes
<1>4. Flight(c.up, down', {"UNSUBSCRIBE"}, {"UNSUBACK"}, c'.pendingUnsub)
  <2>1. /\ down[1].type \in {"UNSUBACK"} => c.pendingUnsub \ {down[1].id} \subseteq c'.pendingUnsub
        /\ down[1].type \notin {"UNSUBACK"} => c.pendingUnsub \subseteq c'.pendingUnsub
    OBVIOUS
  <2> QED BY <1>1, <1>2, <2>1, FlightTakes
<1>5. Flight(c.up, down', {"PUBLISH1", "PUBLISH2"}, {"PUBACK", "PUBREC"}, Ids(c'.pendingMsg))
  <2>1. /\ down[1].type \in {"PUBACK", "PUBREC"} => Ids(c.pendingMsg) \ {down[1].id} \subseteq Ids(c'.pendingMsg)
        /\ down[1].type \notin {"PUBACK", "PUBREC"} => Ids(c.pendingMsg) \subseteq Ids(c'.pendingMsg)
    OBVIOUS
  <2> QED BY <1>1, <1>2, <2>1, FlightTakes
<1>6. /\ At(c'.up, {"SUBSCRIBE"}) = At(c.up, {"SUBSCRIBE"})
      /\ \A i \in At(c.up, {"SUBSCRIBE"}) : c'.up[i] = c.up[i]
      /\ At(c'.up, {"UNSUBSCRIBE"}) = At(c.up, {"UNSUBSCRIBE"})
      /\ \A i \in At(c.up, {"UNSUBSCRIBE"}) : c'.up[i] = c.up[i]
      /\ At(c'.up, {"PUBLISH1", "PUBLISH2"}) = At(c.up, {"PUBLISH1", "PUBLISH2"})
      /\ \A i \in At(c.up, {"PUBLISH1", "PUBLISH2"}) : c'.up[i] = c.up[i]
  BY TakeSends
<1>7. Flight(c'.up, down', {"SUBSCRIBE"}, {"SUBACK"}, c'.pendingAck)
  BY <1>3, <1>6, FlightSame
<1>8. Flight(c'.up, down', {"UNSUBSCRIBE"}, {"UNSUBACK"}, c'.pendingUnsub)
  BY <1>4, <1>6, FlightSame
<1>9. Flight(c'.up, down', {"PUBLISH1", "PUBLISH2"}, {"PUBACK", "PUBREC"}, Ids(c'.pendingMsg))
  BY <1>5, <1>6, FlightSame
<1> QED BY <1>7, <1>8, <1>9 DEF Exchanges

\* The answer is not one to a subscription.
LEMMA TakeSubscribed ==
    ASSUME IInv, Takes, Topic(c') = Topic(c)
    PROVE  Subscriptions'
<1>1. /\ c'.active = c.active /\ c'.sub = c.sub /\ c'.subId = c.subId
      /\ c'.pendingAck = c.pendingAck /\ c'.pendingUnsub = c.pendingUnsub
  BY DEF Topic
<1>2. /\ At(c'.up, {"SUBSCRIBE"}) = At(c.up, {"SUBSCRIBE"})
      /\ None(c'.up, {"SUBSCRIBE"}) <=> None(c.up, {"SUBSCRIBE"})
      /\ \A i \in At(c.up, {"SUBSCRIBE"}) : c'.up[i] = c.up[i]
  BY TakeSends
<1>3. \A i \in At(down', {"SUBACK"}) : i + 1 \in At(down, {"SUBACK"}) /\ down'[i] = down[i + 1]
  BY TakeLeaves
<1>4. ~ silent /\ UNCHANGED <<broker, silent>>
  BY DEF Takes
<1> QED BY <1>1, <1>2, <1>3, <1>4 DEF IInv, Subscriptions

\* What waits for a receipt may only be less.
LEMMA TakeReceived ==
    ASSUME IInv, Takes, c'.pendingMsg \subseteq c.pendingMsg,
           sent' \subseteq broker.got, \A q \in c'.pendingRel : q.msg \in broker.got
    PROVE  Receipts'
<1>1. /\ At(c'.up, {"PUBLISH1", "PUBLISH2"}) = At(c.up, {"PUBLISH1", "PUBLISH2"})
      /\ \A i \in At(c.up, {"PUBLISH1", "PUBLISH2"}) : c'.up[i] = c.up[i]
  BY TakeSends
<1>2. \A i \in At(down', {"PUBACK", "PUBREC"}) : i + 1 \in At(down, {"PUBACK", "PUBREC"}) /\ down'[i] = down[i + 1]
  BY TakeLeaves
<1>3. ~ silent /\ UNCHANGED <<broker, silent>>
  BY DEF Takes
<1> QED BY <1>1, <1>2, <1>3 DEF IInv, Receipts

\* The subscription is heard as it was, and what is acknowledged has been carried out.
LEMMA TakeHeard ==
    ASSUME IInv, Takes, c'.active = c.active, c'.pendingUnsub = c.pendingUnsub,
           flown \subseteq flown',
           \/ c'.up = c.up
           \/ \E w \in UpPacket : /\ w.type = "PUBACK" => repeated \/ Orders(w.data) \subseteq flown'
                                  /\ c'.up = Append(c.up, w) /\ w.type \notin {"SUBSCRIBE", "UNSUBSCRIBE"}
    PROVE  Hearing'
<1>1. c'.transport = "open" /\ c.transport = "open" /\ ~ silent /\ UNCHANGED <<broker, silent, repeated>>
  BY DEF Takes, Talking
<1>2. CASE repeated
  BY <1>1, <1>2 DEF Hearing
<1>3. CASE ~ repeated
  <2>1. \A m \in broker'.acked : Orders(m) \subseteq flown'
    BY <1>1, <1>3 DEF IInv, Hearing
  <2>2. \A i \in At(c'.up, {"PUBACK"}) : Orders(c'.up[i].data) \subseteq flown'
    <3>1. \A i \in At(c.up, {"PUBACK"}) : Orders(c.up[i].data) \subseteq flown'
      BY <1>1, <1>3 DEF IInv, Hearing
    <3>2. CASE c'.up = c.up
      BY <3>1, <3>2
    <3>3. ASSUME NEW w \in UpPacket, w.type = "PUBACK" => Orders(w.data) \subseteq flown',
                 c'.up = Append(c.up, w)
          PROVE  \A i \in At(c'.up, {"PUBACK"}) : Orders(c'.up[i].data) \subseteq flown'
      <4>1. /\ w.type \in {"PUBACK"} => At(c'.up, {"PUBACK"}) = At(c.up, {"PUBACK"}) \cup {Len(c.up) + 1}
            /\ w.type \notin {"PUBACK"} => At(c'.up, {"PUBACK"}) = At(c.up, {"PUBACK"})
            /\ \A i \in At(c.up, {"PUBACK"}) : c'.up[i] = c.up[i]
        BY <3>3, IsTyped, AppendedAt
      <4>2. c'.up[Len(c.up) + 1] = w
        BY <3>3, IsTyped, Appended
      <4> QED BY <3>1, <3>3, <4>1, <4>2
    <3> QED BY <1>3, <3>2, <3>3
  <2>3. \A i : Before(down', i, "UNSUBACK") /\ i \in Nat => Before(down, i + 1, "UNSUBACK")
    <3> SUFFICES ASSUME NEW i \in Nat, NEW j \in At(down', {"UNSUBACK"}), j < i
                 PROVE  Before(down, i + 1, "UNSUBACK")
      BY DEF Before
    <3>1. j + 1 \in At(down, {"UNSUBACK"}) /\ j + 1 < i + 1
      BY TakeLeaves
    <3> QED BY <3>1 DEF Before
  <2>4. \A i \in At(down', {"PUBLISH", "PUBLISH1"}) : c'.active /\ ~ Before(down', i, "UNSUBACK")
    BY <1>1, <1>3, <2>3, TakeLeaves DEF IInv, Hearing
  <2>5. broker'.session.subs => c'.active /\ None(down', {"UNSUBACK"})
    BY <1>1, <1>3, TakeLeaves DEF IInv, Hearing
  <2>6. At(c'.up, {"SUBSCRIBE"}) = At(c.up, {"SUBSCRIBE"}) /\ At(c'.up, {"UNSUBSCRIBE"}) = At(c.up, {"UNSUBSCRIBE"})
    BY TakeSends
  <2>7. \A i \in At(c'.up, {"SUBSCRIBE"}) :
           c'.active /\ None(down', {"UNSUBACK"}) /\ ~ Before(c'.up, i, "UNSUBSCRIBE")
    BY <1>1, <1>3, <2>6, TakeLeaves DEF IInv, Hearing, Before
  <2>8. (\A x, y \in c'.pendingUnsub : x = y) /\ (~ c'.active => c'.pendingUnsub = {})
    BY <1>1, <1>3 DEF IInv, Hearing
  <2> QED BY <2>1, <2>2, <2>4, <2>5, <2>7, <2>8 DEF Hearing
<1> QED BY <1>2, <1>3

\* The answer is not one to a ping.
LEMMA TakePinged ==
    ASSUME IInv, Takes,
           IF down[1].type = "PINGRESP" THEN c'.pings = c.pings - 1 ELSE c'.pings = c.pings
    PROVE  Pinging'
<1>1. At(c'.up, {"PINGREQ"}) = At(c.up, {"PINGREQ"})
  BY TakeSends
<1>2. Cardinality(At(down', {"PINGRESP"})) =
        IF down[1].type \in {"PINGRESP"} THEN Cardinality(At(down, {"PINGRESP"})) - 1
                                         ELSE Cardinality(At(down, {"PINGRESP"}))
  BY IsTyped, CountTail DEF Takes
<1>3. Cardinality(At(c.up, {"PINGREQ"})) + Cardinality(At(down, {"PINGRESP"})) <= c.pings
  BY DEF IInv, Pinging, Takes
<1>4. Cardinality(At(c.up, {"PINGREQ"})) \in Nat /\ Cardinality(At(down, {"PINGRESP"})) \in Nat /\ c.pings \in Nat
  BY IsTyped, AtFinite DEF Client, Counts
<1>5. Cardinality(At(c'.up, {"PINGREQ"})) + Cardinality(At(down', {"PINGRESP"})) <= c'.pings
  BY <1>1, <1>2, <1>3, <1>4
<1> QED BY <1>5 DEF Pinging

\* What ReadBody does to a connected client.
LEMMA BodyTakes ==
    ASSUME IInv, ReadBody, down[1].type # "CONNACK", c' \in Client, c'.missing = "none",
           c'.state = c.state, c'.internal = c.internal, c'.transport = c.transport,
           c'.pingTimer = c.pingTimer, c'.timer = c.timer,
           \/ c'.up = c.up
           \/ \E w \in UpPacket : w.type \in {"PUBACK", "PUBREL"} /\ c'.up = Append(c.up, w)
    PROVE  Takes
<1>1. Readable
  BY DEF ReadBody
<1>2. Talking /\ ~ silent /\ Len(down) > 0 /\ c.transport = "open"
  BY <1>1, Comes
<1> QED BY <1>2, BodyIsRead DEF Takes

\* The orders of a command are given to vehicles.
LEMMA OrdersType ==
    ASSUME NEW m \in Commands
    PROVE  Orders(m) \subseteq Commands \X Vehicles
<1> QED BY DEF Orders

\* QMqttConnection::finalize_publish.
LEMMA PublishIsRead ==
    ASSUME IInv, ReadBody, down[1].type \in {"PUBLISH", "PUBLISH1"}
    PROVE  IInv' /\ Fresh
<1> DEFINE p == down[1]
           r == Read(c)
           w == Packet("PUBACK", p.id, p.data)
<1>1. Readable
  BY DEF ReadBody
<1>2. /\ c \in Client /\ down \in Seq(DownPacket) /\ Len(down) > 0 /\ ~ silent /\ c.transport = "open"
      /\ p \in DownPacket
  BY <1>1, Comes
<1>3. /\ r \in Client /\ r.missing = "none" /\ r.up = c.up
      /\ r.state = c.state /\ r.internal = c.internal /\ r.transport = c.transport
      /\ r.pingTimer = c.pingTimer /\ r.timer = c.timer /\ r.pings = c.pings
      /\ r.counter = c.counter /\ Topic(r) = Topic(c) /\ Outbox(r) = Outbox(c)
  BY <1>2, ReadIs
<1>4. /\ c' = Finalize(r, p) /\ sent' = sent \cup {q.msg : q \in NowSent(p)}
      /\ flown' = IF c.active THEN flown \cup Orders(p.data) ELSE flown
      /\ UNCHANGED <<silent, repeated>>
  BY BodyIsRead
<1>5. Finalize(r, p) = IF p.type = "PUBLISH1" THEN Write(r, w) ELSE r
  BY DEF Finalize, FinalizePublish
<1>6. w \in UpPacket /\ w.type = "PUBACK" /\ w.data = p.data
  BY <1>2 DEF Packet, UpPacket, DownPacket, UpType
<1>7. NowSent(p) = {}
  BY DEF NowSent
<1>8. 1 \in At(down, {"PUBLISH", "PUBLISH1"})
  BY <1>2, TailAt
<1>9. p.data \in Commands
  BY <1>8 DEF IInv, Typed
<1>10. repeated \/ c.active
  BY <1>2, <1>8 DEF IInv, Hearing
<1> HIDE DEF r, p, w
<1>11. sent' = sent
  BY <1>4, <1>7
<1>12. /\ c' \in Client /\ c'.missing = "none"
       /\ c'.state = c.state /\ c'.internal = c.internal /\ c'.transport = c.transport
       /\ c'.pingTimer = c.pingTimer /\ c'.timer = c.timer /\ c'.pings = c.pings
       /\ c'.counter = c.counter /\ Topic(c') = Topic(c) /\ Outbox(c') = Outbox(c)
       /\ c'.up = c.up \/ c'.up = Append(c.up, w)
  <2>1. CASE p.type = "PUBLISH1"
    <3>1. c' = Write(r, w)
      BY <1>4, <1>5, <2>1
    <3>2. /\ c' \in Client /\ c'.up = Append(r.up, w) /\ Link(c') = Link(r) /\ Topic(c') = Topic(r)
          /\ Outbox(c') = Outbox(r) /\ c'.counter = r.counter /\ c'.pings = r.pings
      BY <1>2, <1>3, <1>6, <3>1, Written
    <3> QED BY <1>3, <3>2 DEF Link
  <2>2. CASE p.type # "PUBLISH1"
    BY <1>3, <1>4, <1>5, <2>2
  <2> QED BY <2>1, <2>2
<1>13. Takes
  BY <1>6, <1>12, BodyTakes
<1>14. flown' \subseteq Commands \X Vehicles /\ sent' \subseteq Messages
  BY <1>4, <1>9, <1>11, OrdersType DEF IInv, Typed
<1>15. Typed' /\ Phases' /\ Understood'
  BY <1>13, <1>14, TakeLinked
<1>16. /\ c'.active = c.active /\ c'.pendingAck = c.pendingAck /\ c'.pendingUnsub = c.pendingUnsub
       /\ c'.pendingMsg = c.pendingMsg /\ c'.pendingRel = c.pendingRel
  BY <1>12 DEF Topic, Outbox
<1>17. Exchanges' /\ Subscriptions' /\ Pinging'
  BY <1>12, <1>13, <1>16, TakeExchanged, TakeSubscribed, TakePinged
<1>18. Receipts'
  <2>1. sent' \subseteq broker.got /\ \A q \in c'.pendingRel : q.msg \in broker.got
    BY <1>11, <1>16 DEF IInv, Receipts
  <2> QED BY <1>13, <1>16, <2>1, TakeReceived
<1>19. Hearing'
  <2>1. flown \subseteq flown' /\ (repeated \/ Orders(w.data) \subseteq flown')
    BY <1>4, <1>6, <1>10
  <2> QED BY <1>6, <1>12, <1>13, <1>16, <2>1, TakeHeard
<1> QED BY <1>12, <1>15, <1>17, <1>18, <1>19 DEF IInv, Fresh

\* An answer that is no message, and that leaves the buffer or adds PUBREL to it.
Answered ==
    /\ down[1].type \notin {"CONNACK", "PUBLISH", "PUBLISH1"}
    /\ c' \in Client /\ c'.missing = "none"
    /\ c'.state = c.state /\ c'.internal = c.internal /\ c'.transport = c.transport
    /\ c'.pingTimer = c.pingTimer /\ c'.timer = c.timer
    /\ \/ c'.up = c.up
       \/ \E w \in UpPacket : w.type = "PUBREL" /\ c'.up = Append(c.up, w)
    /\ c'.counter = c.counter

\* An answer that leaves the subscription as it is.
LEMMA AnswerIsRead ==
    ASSUME IInv, ReadBody, Answered, Topic(c') = Topic(c),
           IF down[1].type \in {"PUBACK", "PUBREC"} THEN Ids(c.pendingMsg) \ {down[1].id} \subseteq Ids(c'.pendingMsg)
                                                    ELSE c'.pendingMsg = c.pendingMsg,
           IF down[1].type = "PINGRESP" THEN c'.pings = c.pings - 1 ELSE c'.pings = c.pings,
           c'.pendingMsg \subseteq c.pendingMsg, sent' \subseteq Messages, sent' \subseteq broker.got,
           \A q \in c'.pendingRel : q.msg \in broker.got,
           down[1].type \notin {"SUBACK", "UNSUBACK"}
    PROVE  IInv' /\ Fresh
<1>1. Takes
  BY BodyTakes DEF Answered
<1>2. flown' = flown /\ UNCHANGED <<silent, repeated>>
  BY BodyIsRead DEF Answered
<1>3. Typed' /\ Phases' /\ Understood'
  BY <1>1, <1>2, TakeLinked DEF IInv, Typed
<1>4. c'.active = c.active /\ c'.pendingAck = c.pendingAck /\ c'.pendingUnsub = c.pendingUnsub
  BY DEF Topic
<1>5. Exchanges'
  BY <1>1, <1>4, TakeExchanged
<1>6. Subscriptions' /\ Pinging'
  BY <1>1, TakeSubscribed, TakePinged
<1>7. Receipts'
  BY <1>1, TakeReceived
<1>8. Hearing'
  BY <1>1, <1>2, <1>4, TakeHeard DEF Answered
<1> QED BY <1>3, <1>5, <1>6, <1>7, <1>8 DEF IInv, Fresh, Answered

\* What has come first, and the client that reads it.
LEMMA AnswerComes ==
    ASSUME IInv, ReadBody
    PROVE  /\ c \in Client /\ down \in Seq(DownPacket) /\ Len(down) > 0 /\ ~ silent /\ c.transport = "open"
           /\ down[1] \in DownPacket
           /\ Read(c) \in Client /\ Read(c).missing = "none" /\ Read(c).up = c.up
           /\ Read(c).state = c.state /\ Read(c).internal = c.internal /\ Read(c).transport = c.transport
           /\ Read(c).pingTimer = c.pingTimer /\ Read(c).timer = c.timer /\ Read(c).pings = c.pings
           /\ Read(c).counter = c.counter /\ Topic(Read(c)) = Topic(c)
           /\ Read(c).pendingMsg = c.pendingMsg /\ Read(c).pendingRel = c.pendingRel
           /\ \A T : down[1].type \in T => 1 \in At(down, T)
           /\ sent \subseteq Messages /\ sent \subseteq broker.got
           /\ \A q \in c.pendingRel : q.msg \in broker.got /\ q.msg \in Messages
           /\ down[1].type \in {"PUBACK", "PUBREC"} =>
                 \A q \in c.pendingMsg : q.id = down[1].id => q.msg \in broker.got /\ q.msg \in Messages
<1>1. /\ c \in Client /\ down \in Seq(DownPacket) /\ Len(down) > 0 /\ ~ silent /\ c.transport = "open"
      /\ down[1] \in DownPacket
  BY Comes DEF ReadBody
<1>2. \A T : 1 \in At(down, T) <=> down[1].type \in T
  BY <1>1, TailAt
<1>3. /\ Read(c) \in Client /\ Read(c).missing = "none" /\ Read(c).up = c.up
      /\ Read(c).state = c.state /\ Read(c).internal = c.internal /\ Read(c).transport = c.transport
      /\ Read(c).pingTimer = c.pingTimer /\ Read(c).timer = c.timer /\ Read(c).pings = c.pings
      /\ Read(c).counter = c.counter /\ Topic(Read(c)) = Topic(c) /\ Outbox(Read(c)) = Outbox(c)
  BY <1>1, ReadIs
<1>4. \A q \in c.pendingRel \cup c.pendingMsg : q.msg \in Messages
  BY <1>1 DEF Client, Waiting
<1>5. sent \subseteq Messages /\ sent \subseteq broker.got /\ \A q \in c.pendingRel : q.msg \in broker.got
  BY DEF IInv, Typed, Receipts
<1>6. down[1].type \in {"PUBACK", "PUBREC"} =>
         \A q \in c.pendingMsg : q.id = down[1].id => q.msg \in broker.got
  BY <1>1, <1>2 DEF IInv, Receipts
<1> QED BY <1>1, <1>2, <1>3, <1>4, <1>5, <1>6 DEF Outbox

\* QMqttConnection::finalize_pubAckRecRelComp, for PUBACK.
LEMMA PubackIsRead ==
    ASSUME IInv, ReadBody, down[1].type = "PUBACK"
    PROVE  IInv' /\ Fresh
<1> DEFINE p == down[1]
           r == Read(c)
           n == c.pendingMsg \ Taken(c.pendingMsg, p.id)
<1>1. /\ r \in Client /\ r.missing = "none" /\ r.up = c.up
      /\ r.state = c.state /\ r.internal = c.internal /\ r.transport = c.transport
      /\ r.pingTimer = c.pingTimer /\ r.timer = c.timer /\ r.pings = c.pings
      /\ r.counter = c.counter /\ Topic(r) = Topic(c)
      /\ r.pendingMsg = c.pendingMsg /\ r.pendingRel = c.pendingRel
  BY AnswerComes
<1>2. c' = Finalize(r, p) /\ sent' = sent \cup {q.msg : q \in NowSent(p)}
  BY BodyIsRead
<1>3. Finalize(r, p) = [r EXCEPT !.pendingMsg = n]
  BY <1>1 DEF Finalize, FinalizePuback
<1>4. NowSent(p) = Taken(c.pendingMsg, p.id)
  BY DEF NowSent
<1>5. n \in SUBSET Waiting /\ n \subseteq c.pendingMsg
  BY AnswerComes DEF Client
<1>6. Ids(c.pendingMsg) \ {p.id} \subseteq Ids(n)
  BY DEF Ids, Taken
<1>7. sent' \subseteq Messages /\ sent' \subseteq broker.got
  BY <1>2, <1>4, AnswerComes DEF Taken
<1> HIDE DEF r, n
<1>8. c' = [r EXCEPT !.pendingMsg = n]
  BY <1>2, <1>3
<1>9. /\ c' \in Client /\ c'.missing = r.missing /\ c'.up = r.up
      /\ c'.state = r.state /\ c'.internal = r.internal /\ c'.transport = r.transport
      /\ c'.pingTimer = r.pingTimer /\ c'.timer = r.timer /\ c'.pings = r.pings
      /\ c'.counter = r.counter /\ c'.pendingMsg = n /\ c'.pendingRel = r.pendingRel
  BY <1>1, <1>5, <1>8 DEF Client
<1>10. Topic(c') = Topic(r)
  BY <1>1, <1>8 DEF Client, Topic
<1>11. Answered
  BY <1>1, <1>9 DEF Answered
<1>12. Ids(c.pendingMsg) \ {p.id} \subseteq Ids(c'.pendingMsg)
  BY <1>6, <1>9
<1>13. \A q \in c'.pendingRel : q.msg \in broker.got
  BY <1>1, <1>9, AnswerComes
<1> QED BY <1>1, <1>5, <1>7, <1>9, <1>10, <1>11, <1>12, <1>13, AnswerIsRead

\* The same, for PUBCOMP.
LEMMA PubcompIsRead ==
    ASSUME IInv, ReadBody, down[1].type = "PUBCOMP"
    PROVE  IInv' /\ Fresh
<1> DEFINE p == down[1]
           r == Read(c)
           n == c.pendingRel \ Taken(c.pendingRel, p.id)
<1>1. /\ r \in Client /\ r.missing = "none" /\ r.up = c.up
      /\ r.state = c.state /\ r.internal = c.internal /\ r.transport = c.transport
      /\ r.pingTimer = c.pingTimer /\ r.timer = c.timer /\ r.pings = c.pings
      /\ r.counter = c.counter /\ Topic(r) = Topic(c)
      /\ r.pendingMsg = c.pendingMsg /\ r.pendingRel = c.pendingRel
  BY AnswerComes
<1>2. c' = Finalize(r, p) /\ sent' = sent \cup {q.msg : q \in NowSent(p)}
  BY BodyIsRead
<1>3. Finalize(r, p) = [r EXCEPT !.pendingRel = n]
  BY <1>1 DEF Finalize, FinalizePubcomp
<1>4. NowSent(p) = Taken(c.pendingRel, p.id)
  BY DEF NowSent
<1>5. n \in SUBSET Waiting /\ n \subseteq c.pendingRel
  BY AnswerComes DEF Client
<1>6. sent' \subseteq Messages /\ sent' \subseteq broker.got
  BY <1>2, <1>4, AnswerComes DEF Taken
<1> HIDE DEF r, n
<1>7. c' = [r EXCEPT !.pendingRel = n]
  BY <1>2, <1>3
<1>8. /\ c' \in Client /\ c'.missing = r.missing /\ c'.up = r.up
      /\ c'.state = r.state /\ c'.internal = r.internal /\ c'.transport = r.transport
      /\ c'.pingTimer = r.pingTimer /\ c'.timer = r.timer /\ c'.pings = r.pings
      /\ c'.counter = r.counter /\ c'.pendingRel = n /\ c'.pendingMsg = r.pendingMsg
  BY <1>1, <1>5, <1>7 DEF Client
<1>9. Topic(c') = Topic(r)
  BY <1>1, <1>7 DEF Client, Topic
<1>10. Answered
  BY <1>1, <1>8 DEF Answered
<1>11. \A q \in c'.pendingRel : q.msg \in broker.got
  BY <1>5, <1>8, AnswerComes
<1> QED BY <1>1, <1>6, <1>8, <1>9, <1>10, <1>11, AnswerIsRead

\* The same, for PUBREC: the message waits for PUBCOMP.
LEMMA PubrecIsRead ==
    ASSUME IInv, ReadBody, down[1].type = "PUBREC"
    PROVE  IInv' /\ Fresh
<1> DEFINE p == down[1]
           r == Read(c)
           taken == Taken(c.pendingMsg, p.id)
           n == c.pendingMsg \ taken
           m == {q \in c.pendingRel : q.id # p.id} \cup taken
           s == [r EXCEPT !.pendingMsg = n, !.pendingRel = m]
           w == Packet("PUBREL", p.id, "none")
<1>1. /\ r \in Client /\ r.missing = "none" /\ r.up = c.up
      /\ r.state = c.state /\ r.internal = c.internal /\ r.transport = c.transport
      /\ r.pingTimer = c.pingTimer /\ r.timer = c.timer /\ r.pings = c.pings
      /\ r.counter = c.counter /\ Topic(r) = Topic(c)
      /\ r.pendingMsg = c.pendingMsg /\ r.pendingRel = c.pendingRel
  BY AnswerComes
<1>2. c' = Finalize(r, p) /\ sent' = sent \cup {q.msg : q \in NowSent(p)}
  BY BodyIsRead
<1>3. Finalize(r, p) = IF taken = {} THEN r ELSE Write(s, w)
  BY <1>1 DEF Finalize, FinalizePubrec
<1>4. sent' = sent
  BY <1>2 DEF NowSent
<1>5. n \in SUBSET Waiting /\ m \in SUBSET Waiting /\ n \subseteq c.pendingMsg
  BY AnswerComes DEF Client, Taken
<1>6. Ids(c.pendingMsg) \ {p.id} \subseteq Ids(n)
  BY DEF Ids, Taken
<1>7. \A q \in m : q.msg \in broker.got
  BY AnswerComes DEF Taken
<1>8. w \in UpPacket /\ w.type = "PUBREL"
  BY AnswerComes DEF Packet, UpPacket, DownPacket, UpType, Data
<1>9. sent' \subseteq Messages /\ sent' \subseteq broker.got
  BY <1>4, AnswerComes
<1> HIDE DEF r, n, m, w
<1>10. CASE taken = {}
  <2>1. c' = r /\ n = c.pendingMsg
    BY <1>2, <1>3, <1>10 DEF n
  <2>2. Answered
    BY <1>1, <2>1 DEF Answered
  <2>3. Ids(c.pendingMsg) \ {p.id} \subseteq Ids(c'.pendingMsg)
    BY <1>1, <1>6, <2>1
  <2>4. \A q \in c'.pendingRel : q.msg \in broker.got
    BY <1>1, <2>1, AnswerComes
  <2> QED BY <1>1, <1>9, <2>1, <2>2, <2>3, <2>4, AnswerIsRead
<1>11. CASE taken # {}
  <2>1. c' = Write(s, w)
    BY <1>2, <1>3, <1>11
  <2>2. /\ s \in Client /\ s.missing = r.missing /\ s.up = r.up
        /\ s.state = r.state /\ s.internal = r.internal /\ s.transport = r.transport
        /\ s.pingTimer = r.pingTimer /\ s.timer = r.timer /\ s.pings = r.pings
        /\ s.counter = r.counter /\ s.pendingMsg = n /\ s.pendingRel = m
    BY <1>1, <1>5 DEF Client
  <2>3. Topic(s) = Topic(r)
    BY <1>1 DEF Client, Topic
  <2> HIDE DEF s
  <2>4. s.transport = "open"
    BY <1>1, <2>2, AnswerComes
  <2>5. /\ c' \in Client /\ c'.up = Append(s.up, w)
        /\ Link(c') = Link(s) /\ Topic(c') = Topic(s) /\ Outbox(c') = Outbox(s)
        /\ c'.counter = s.counter /\ c'.pings = s.pings
    BY <1>8, <2>1, <2>2, <2>4, Written
  <2>6. /\ c'.state = s.state /\ c'.internal = s.internal /\ c'.transport = s.transport
        /\ c'.missing = s.missing /\ c'.pingTimer = s.pingTimer /\ c'.timer = s.timer
        /\ c'.pendingMsg = n /\ c'.pendingRel = m
    BY <2>2, <2>5 DEF Link, Outbox
  <2>7. Answered
    BY <1>1, <1>8, <2>2, <2>5, <2>6 DEF Answered
  <2>8. Ids(c.pendingMsg) \ {p.id} \subseteq Ids(c'.pendingMsg)
    BY <1>6, <2>6
  <2>9. \A q \in c'.pendingRel : q.msg \in broker.got
    BY <1>7, <2>6
  <2> QED BY <1>1, <1>5, <1>9, <2>2, <2>3, <2>5, <2>6, <2>7, <2>8, <2>9, AnswerIsRead
<1> QED BY <1>10, <1>11

\* QMqttConnection::finalize_pingresp.
LEMMA PingrespIsRead ==
    ASSUME IInv, ReadBody, down[1].type = "PINGRESP"
    PROVE  IInv' /\ Fresh
<1> DEFINE p == down[1]
           r == Read(c)
           n == c.pings - 1
<1>1. /\ r \in Client /\ r.missing = "none" /\ r.up = c.up
      /\ r.state = c.state /\ r.internal = c.internal /\ r.transport = c.transport
      /\ r.pingTimer = c.pingTimer /\ r.timer = c.timer /\ r.pings = c.pings
      /\ r.counter = c.counter /\ Topic(r) = Topic(c)
      /\ r.pendingMsg = c.pendingMsg /\ r.pendingRel = c.pendingRel
  BY AnswerComes
<1>2. c' = Finalize(r, p) /\ sent' = sent \cup {q.msg : q \in NowSent(p)}
  BY BodyIsRead
<1>3. Finalize(r, p) = [r EXCEPT !.pings = n]
  BY <1>1 DEF Finalize, FinalizePingresp
<1>4. sent' = sent
  BY <1>2 DEF NowSent
<1>5. n \in Counts
  <2>1. /\ down \in Seq(DownPacket) /\ Len(down) > 0 /\ ~ silent /\ c \in Client
        /\ down[1].type \in {"PINGRESP"} /\ c.up \in Seq(UpPacket)
    BY AnswerComes, IsTyped
  <2>2. Cardinality(At(Tail(down), {"PINGRESP"})) = Cardinality(At(down, {"PINGRESP"})) - 1
    BY <2>1, CountTail
  <2>3. Tail(down) \in Seq(DownPacket)
    BY <2>1, TailAt
  <2>4. /\ Cardinality(At(Tail(down), {"PINGRESP"})) \in Nat
        /\ Cardinality(At(down, {"PINGRESP"})) \in Nat
        /\ Cardinality(At(c.up, {"PINGREQ"})) \in Nat
    BY <2>1, <2>3, AtFinite
  <2>5. Cardinality(At(c.up, {"PINGREQ"})) + Cardinality(At(down, {"PINGRESP"})) <= c.pings
    BY <2>1 DEF IInv, Pinging
  <2>6. c.pings \in 0..2
    BY <2>1 DEF Client, Counts
  <2> QED BY <2>2, <2>4, <2>5, <2>6 DEF Counts
<1> HIDE DEF r, n
<1>6. c' = [r EXCEPT !.pings = n]
  BY <1>2, <1>3
<1>7. /\ c' \in Client /\ c'.missing = r.missing /\ c'.up = r.up
      /\ c'.state = r.state /\ c'.internal = r.internal /\ c'.transport = r.transport
      /\ c'.pingTimer = r.pingTimer /\ c'.timer = r.timer /\ c'.pings = n
      /\ c'.counter = r.counter /\ c'.pendingRel = r.pendingRel /\ c'.pendingMsg = r.pendingMsg
  BY <1>1, <1>5, <1>6 DEF Client
<1>8. Topic(c') = Topic(r)
  BY <1>1, <1>6 DEF Client, Topic
<1>9. Answered
  BY <1>1, <1>7 DEF Answered
<1>10. (\A q \in c'.pendingRel : q.msg \in broker.got) /\ sent' \subseteq Messages /\ sent' \subseteq broker.got
  BY <1>1, <1>4, <1>7, AnswerComes
<1>11. c'.pings = c.pings - 1
  BY <1>7 DEF n
<1> QED BY <1>1, <1>7, <1>8, <1>9, <1>10, <1>11, AnswerIsRead

\* QMqttConnection::finalize_suback.
LEMMA SubackIsRead ==
    ASSUME IInv, ReadBody, down[1].type = "SUBACK"
    PROVE  IInv' /\ Fresh
<1> DEFINE p == down[1]
           r == Read(c)
<1>1. /\ r \in Client /\ r.missing = "none" /\ r.up = c.up
      /\ r.state = c.state /\ r.internal = c.internal /\ r.transport = c.transport
      /\ r.pingTimer = c.pingTimer /\ r.timer = c.timer /\ r.pings = c.pings
      /\ r.counter = c.counter /\ Topic(r) = Topic(c)
      /\ r.pendingMsg = c.pendingMsg /\ r.pendingRel = c.pendingRel
  BY AnswerComes
<1>2. /\ c' = Finalize(r, p) /\ sent' = sent \cup {q.msg : q \in NowSent(p)} /\ flown' = flown
      /\ UNCHANGED <<silent, repeated>>
  BY BodyIsRead
<1>3. Finalize(r, p) = FinalizeSuback(r, p.id, p.data)
  BY DEF Finalize
<1>4. sent' = sent
  BY <1>2 DEF NowSent
<1>5. ~ silent /\ 1 \in At(down, {"SUBACK"})
  BY AnswerComes
<1>6. p.id \in c.pendingAck
  BY <1>5 DEF IInv, Exchanges, Flight, AreIn
<1>7. /\ r.active = c.active /\ r.sub = c.sub /\ r.subId = c.subId
      /\ r.pendingAck = c.pendingAck /\ r.pendingUnsub = c.pendingUnsub
  BY <1>1 DEF Topic
<1> HIDE DEF r, p
<1>8. /\ c' \in Client /\ c'.up = r.up /\ Link(c') = Link(r) /\ Outbox(c') = Outbox(r)
      /\ c'.pings = r.pings /\ c'.counter = r.counter /\ c'.active = r.active /\ c'.subId = r.subId
      /\ c'.pendingAck = r.pendingAck \ {p.id} /\ c'.pendingUnsub = r.pendingUnsub
      /\ c'.sub = IF p.id # r.subId THEN r.sub ELSE IF p.data = "failure" THEN "Error" ELSE "Subscribed"
  <2>1. c' = FinalizeSuback(r, p.id, p.data) /\ p.id \in r.pendingAck
    BY <1>2, <1>3, <1>6, <1>7
  <2> QED BY <1>1, <2>1, Settles
<1>9. /\ c'.missing = "none" /\ c'.state = c.state /\ c'.internal = c.internal
      /\ c'.transport = c.transport /\ c'.pingTimer = c.pingTimer /\ c'.timer = c.timer
      /\ c'.pendingMsg = c.pendingMsg /\ c'.pendingRel = c.pendingRel
  BY <1>1, <1>8 DEF Link, Outbox
<1>10. Takes
  BY <1>1, <1>8, <1>9, BodyTakes DEF p
<1>11. Typed' /\ Phases' /\ Understood'
  BY <1>2, <1>4, <1>10, TakeLinked DEF IInv, Typed
<1>12. Exchanges'
  BY <1>7, <1>8, <1>9, <1>10, TakeExchanged DEF p
<1>13. Pinging' /\ Hearing'
  BY <1>1, <1>2, <1>7, <1>8, <1>10, TakePinged, TakeHeard DEF p
<1>14. Receipts'
  BY <1>4, <1>9, <1>10, AnswerComes, TakeReceived
<1>15. Subscriptions'
  <2>1. /\ At(c'.up, {"SUBSCRIBE"}) = At(c.up, {"SUBSCRIBE"})
        /\ None(c'.up, {"SUBSCRIBE"}) <=> None(c.up, {"SUBSCRIBE"})
        /\ \A i \in At(c.up, {"SUBSCRIBE"}) : c'.up[i] = c.up[i]
    BY <1>10, TakeSends
  <2>2. \A i \in At(down', {"SUBACK"}) : i + 1 \in At(down, {"SUBACK"}) /\ down'[i] = down[i + 1]
    BY <1>10, TakeLeaves
  <2>3. broker' = broker /\ silent' = silent
    BY <1>10 DEF Takes
  <2>4. ASSUME c'.active, c'.sub = "Subscribed", c'.pendingUnsub = {}
        PROVE  broker'.session.subs
    <3>1. c.active /\ c.pendingUnsub = {}
      BY <1>7, <1>8, <2>4
    <3>2. CASE p.id = c.subId
      <4>1. p.data # "failure"
        BY <1>7, <1>8, <2>4, <3>2
      <4> QED BY <1>5, <2>3, <3>1, <3>2, <4>1 DEF IInv, Subscriptions, p
    <3>3. CASE p.id # c.subId
      <4>1. c.sub = "Subscribed"
        BY <1>7, <1>8, <2>4, <3>3
      <4> QED BY <2>3, <3>1, <4>1 DEF IInv, Subscriptions
    <3> QED BY <3>2, <3>3
  <2>5. ASSUME c'.active, c'.sub = "Subscribed" PROVE c'.subId \notin c'.pendingAck
    <3>1. CASE p.id = c.subId
      BY <1>7, <1>8, <3>1
    <3>2. CASE p.id # c.subId
      <4>1. c.sub = "Subscribed" /\ c.active
        BY <1>7, <1>8, <2>5, <3>2
      <4>2. c.subId \notin c.pendingAck
        BY <1>5, <4>1 DEF IInv, Subscriptions
      <4> QED BY <1>7, <1>8, <4>2
    <3> QED BY <3>1, <3>2
  <2>6. ASSUME c'.active
        PROVE  /\ \A i \in At(c'.up, {"SUBSCRIBE"}) :
                     c'.up[i].id = c'.subId <=> \A j \in At(c'.up, {"SUBSCRIBE"}) : j <= i
               /\ \A i \in At(down', {"SUBACK"}) : down'[i].id = c'.subId =>
                     /\ None(c'.up, {"SUBSCRIBE"})
                     /\ down'[i].data # "failure" => (broker'.session.subs \/ c'.pendingUnsub # {})
    <3>1. c.active /\ c'.subId = c.subId /\ c'.pendingUnsub = c.pendingUnsub
      BY <1>7, <1>8, <2>6
    <3> QED BY <1>5, <2>1, <2>2, <2>3, <3>1 DEF IInv, Subscriptions
  <2> QED BY <2>4, <2>5, <2>6 DEF Subscriptions
<1> QED BY <1>1, <1>8, <1>11, <1>12, <1>13, <1>14, <1>15 DEF IInv, Fresh

\* QMqttConnection::finalize_unsuback.
LEMMA UnsubackIsRead ==
    ASSUME IInv, ReadBody, down[1].type = "UNSUBACK"
    PROVE  IInv' /\ Fresh
<1> DEFINE p == down[1]
           r == Read(c)
<1>1. /\ r \in Client /\ r.missing = "none" /\ r.up = c.up
      /\ r.state = c.state /\ r.internal = c.internal /\ r.transport = c.transport
      /\ r.pingTimer = c.pingTimer /\ r.timer = c.timer /\ r.pings = c.pings
      /\ r.counter = c.counter /\ Topic(r) = Topic(c)
      /\ r.pendingMsg = c.pendingMsg /\ r.pendingRel = c.pendingRel
  BY AnswerComes
<1>2. /\ c' = Finalize(r, p) /\ sent' = sent \cup {q.msg : q \in NowSent(p)} /\ flown' = flown
      /\ UNCHANGED <<silent, repeated>>
  BY BodyIsRead
<1>3. Finalize(r, p) = FinalizeUnsuback(r, p.id)
  BY DEF Finalize
<1>4. sent' = sent
  BY <1>2 DEF NowSent
<1>5. ~ silent /\ 1 \in At(down, {"UNSUBACK"}) /\ c.transport = "open"
  BY AnswerComes
<1>6. p.id \in c.pendingUnsub
  BY <1>5 DEF IInv, Exchanges, Flight, AreIn
<1>7. r.pendingAck = c.pendingAck /\ r.pendingUnsub = c.pendingUnsub
  BY <1>1 DEF Topic
<1> HIDE DEF r, p
<1>8. /\ c' \in Client /\ c'.up = r.up /\ Link(c') = Link(r) /\ Outbox(c') = Outbox(r)
      /\ c'.pings = r.pings /\ c'.counter = r.counter /\ ~ c'.active
      /\ c'.pendingAck = r.pendingAck /\ c'.pendingUnsub = r.pendingUnsub \ {p.id}
  <2>1. c' = FinalizeUnsuback(r, p.id) /\ p.id \in r.pendingUnsub
    BY <1>2, <1>3, <1>6, <1>7
  <2>2. r \in Client
    BY <1>1
  <2> QED BY <2>1, <2>2, Forgets
<1>9. /\ c'.missing = "none" /\ c'.state = c.state /\ c'.internal = c.internal
      /\ c'.transport = c.transport /\ c'.pingTimer = c.pingTimer /\ c'.timer = c.timer
      /\ c'.pendingMsg = c.pendingMsg /\ c'.pendingRel = c.pendingRel
  BY <1>1, <1>8 DEF Link, Outbox
<1>10. Takes
  BY <1>1, <1>8, <1>9, BodyTakes DEF p
<1>11. Typed' /\ Phases' /\ Understood'
  BY <1>2, <1>4, <1>10, TakeLinked DEF IInv, Typed
<1>12. Exchanges'
  BY <1>7, <1>8, <1>9, <1>10, TakeExchanged DEF p
<1>13. Pinging'
  BY <1>1, <1>8, <1>10, TakePinged DEF p
<1>14. Receipts'
  BY <1>4, <1>9, <1>10, AnswerComes, TakeReceived
<1>15. Subscriptions'
  BY <1>8 DEF Subscriptions
<1>16. Hearing'
  <2>1. CASE repeated
    BY <1>2, <2>1 DEF Hearing
  <2>2. CASE ~ repeated
    <3>1. ~ None(down, {"UNSUBACK"})
      BY <1>5, NoneAt
    <3>2. c'.up = c.up /\ broker' = broker /\ silent' = silent /\ flown' = flown
      BY <1>1, <1>2, <1>8, <1>10 DEF Takes
    <3>3. (\A m \in broker'.acked : Orders(m) \subseteq flown') /\
          \A i \in At(c'.up, {"PUBACK"}) : Orders(c'.up[i].data) \subseteq flown'
      BY <1>5, <2>2, <3>2 DEF IInv, Hearing
    <3>4. ~ broker'.session.subs /\ At(c'.up, {"SUBSCRIBE"}) = {}
      BY <1>5, <2>2, <3>1, <3>2 DEF IInv, Hearing
    <3>5. At(down', {"PUBLISH", "PUBLISH1"}) = {}
      <4> SUFFICES ASSUME NEW i \in At(down', {"PUBLISH", "PUBLISH1"}) PROVE FALSE
        OBVIOUS
      <4>1. i \in Nat /\ i + 1 \in At(down, {"PUBLISH", "PUBLISH1"}) /\ i \in 1..Len(down')
        BY <1>10, TakeLeaves DEF At
      <4>2. 1 < i + 1
        <5>1. Len(down') \in Nat
          BY <1>10, TakeLeaves, LenProperties
        <5> QED BY <4>1, <5>1
      <4>3. Before(down, i + 1, "UNSUBACK")
        BY <1>5, <4>2 DEF Before
      <4> QED BY <1>5, <2>2, <4>1, <4>3 DEF IInv, Hearing
    <3>6. c'.pendingUnsub = {}
      <4>1. \A x, y \in c.pendingUnsub : x = y
        BY <1>5, <2>2 DEF IInv, Hearing
      <4> QED BY <1>6, <1>7, <1>8, <4>1
    <3> QED BY <3>3, <3>4, <3>5, <3>6 DEF Hearing
  <2> QED BY <2>1, <2>2
<1> QED BY <1>1, <1>8, <1>11, <1>12, <1>13, <1>14, <1>15, <1>16 DEF IInv, Fresh

\* QMqttConnection::finalize_connack.
LEMMA ConnackIsRead ==
    ASSUME IInv, ReadBody, down[1].type = "CONNACK"
    PROVE  IInv' /\ Fresh
<1> DEFINE p == down[1]
           r == Read(c)
<1>1. /\ r \in Client /\ r.missing = "none" /\ r.up = c.up
      /\ r.state = c.state /\ r.internal = c.internal /\ r.transport = c.transport
      /\ r.pingTimer = c.pingTimer /\ r.timer = c.timer /\ r.pings = c.pings
      /\ r.counter = c.counter /\ Topic(r) = Topic(c)
      /\ r.pendingMsg = c.pendingMsg /\ r.pendingRel = c.pendingRel
  BY AnswerComes
<1>2. /\ c' = Finalize(r, p) /\ sent' = sent \cup {q.msg : q \in NowSent(p)} /\ flown' = flown
      /\ UNCHANGED <<silent, repeated>>
      /\ c'.transport = "open" => down' = Tail(down) /\ broker' = broker
      /\ c'.transport # "open" => down' = <<>> /\ broker' = [broker EXCEPT !.session = NoSession]
  BY BodyIsRead
<1>3. Finalize(r, p) = FinalizeConnack(r, p.data)
  BY DEF Finalize
<1>4. sent' = sent
  BY <1>2 DEF NowSent
<1>5. /\ Shaking /\ Len(down) = 1 /\ Len(c.up) = 0 /\ ~ silent /\ c.transport = "open"
      /\ down \in Seq(DownPacket)
  BY Comes DEF ReadBody
<1>6. /\ r.active = FALSE /\ r.pendingAck = {} /\ r.pendingUnsub = {} /\ r.state = "Connecting"
      /\ r.timer = FALSE /\ r.pings = 0 /\ ~ broker.session.subs
  BY <1>1, <1>5 DEF Shaking, Unsaid, Topic, Client
<1> HIDE DEF r
<1>7. CASE p.data # "accepted"
  <2> DEFINE k == CleanSubscriptions(r)
             s == r.sub
  <2>1. k = [r EXCEPT !.pendingAck = {}, !.pendingUnsub = {}, !.active = FALSE, !.sub = s]
    <3>1. s = IF r.active THEN "Unsubscribed" ELSE r.sub
      BY <1>6
    <3> QED BY <3>1 DEF CleanSubscriptions
  <2>2. s \in SubState
    BY <1>1 DEF Client
  <2> HIDE DEF k, s
  <2>3. /\ k \in Client /\ k.timer = r.timer /\ k.state = r.state /\ k.counter = r.counter
        /\ k.pendingMsg = r.pendingMsg /\ k.pendingRel = r.pendingRel
    BY <1>1, <2>1, <2>2 DEF Client
  <2>4. c' = CloseConnection(k, "Refused")
    BY <1>2, <1>3, <1>7 DEF FinalizeConnack, k
  <2>5. Ended(k, CloseConnection(k, "Refused"))
    BY <1>6, <2>3, CloseEnds
  <2>6. Ended(c, c')
    BY <1>1, <2>3, <2>4, <2>5 DEF Ended
  <2>7. down' = <<>> /\ broker' = [broker EXCEPT !.session = NoSession]
    BY <1>2, <2>6 DEF Ended
  <2> QED BY <1>2, <1>4, <2>6, <2>7, EndsKeeps
<1>8. CASE p.data = "accepted"
  <2>1. c' = FinalizeConnack(r, "accepted")
    BY <1>2, <1>3, <1>8
  <2>2. /\ r \in Client /\ r.transport = "open" /\ r.state = "Connecting" /\ ~ r.active
        /\ r.pendingAck = {} /\ r.pendingUnsub = {}
    BY <1>1, <1>5, <1>6
  <2>3. PICK id \in Identifiers :
           /\ c' \in Client /\ Packet("SUBSCRIBE", id, "ctl") \in UpPacket
           /\ c'.up = Append(r.up, Packet("SUBSCRIBE", id, "ctl"))
           /\ c'.state = "Connected" /\ c'.internal = "BrokerConnected" /\ c'.transport = "open"
           /\ c'.pingTimer = TRUE /\ c'.timer = TRUE /\ c'.missing = r.missing /\ c'.pings = r.pings
           /\ Outbox(c') = Outbox(r) /\ c'.counter = id /\ (id = r.counter \/ id \notin InUse(r))
           /\ c'.active = TRUE /\ c'.sub = "Pending" /\ c'.subId = id
           /\ c'.pendingAck = {id} /\ c'.pendingUnsub = {}
    BY ONLY <2>1, <2>2, Connects, ZenonT(30)
  <2> DEFINE w == Packet("SUBSCRIBE", id, "ctl")
  <2>4. w.type = "SUBSCRIBE" /\ w.id = id /\ w \in UpPacket
    BY <2>3 DEF Packet
  <2> HIDE DEF w
  <2>5. /\ c'.up = Append(c.up, w) /\ c.up \in Seq(UpPacket)
        /\ c'.pendingMsg = c.pendingMsg /\ c'.pendingRel = c.pendingRel
        /\ down' = Tail(down) /\ broker' = broker
    BY <1>1, <1>2, <2>3, IsTyped DEF Outbox, w
  <2>6. Fresh
    <3>1. InUse(r) = InUse(c)
      BY <1>1 DEF InUse, Topic
    <3> QED BY <1>1, <2>3, <3>1 DEF Fresh, InUse, Outbox
  <2>7. down' \in Seq(DownPacket) /\ Len(down') = 0
    BY <1>5, <2>5, TailAt
  <2>8. \A T : At(c.up, T) = {} /\ None(c.up, T) /\ At(down', T) = {} /\ None(down', T)
    BY <1>5, <2>7, EmptyAt
  <2>9. /\ \A T : "SUBSCRIBE" \notin T => At(c'.up, T) = {} /\ None(c'.up, T)
        /\ At(c'.up, {"SUBSCRIBE"}) = {1} /\ c'.up[1] = w
    <3>1. Len(c.up) + 1 = 1
      BY <1>5
    <3>2. At(c'.up, {"SUBSCRIBE"}) = At(c.up, {"SUBSCRIBE"}) \cup {Len(c.up) + 1}
      BY <2>4, <2>5, AppendedAt
    <3>3. c'.up[Len(c.up) + 1] = w
      BY <2>4, <2>5, Appended
    <3>4. ASSUME NEW T, "SUBSCRIBE" \notin T PROVE At(c'.up, T) = {} /\ None(c'.up, T)
      <4>1. w.type \notin T
        BY <2>4, <3>4
      <4>2. At(c'.up, T) = At(c.up, T)
        BY <2>4, <2>5, <4>1, AppendedAt
      <4> QED BY <2>8, <4>2, NoneAt
    <3> QED BY <2>8, <3>1, <3>2, <3>3, <3>4
  <2>10. Typed'
    BY <1>2, <1>4, <2>3, <2>5, <2>7, <2>8 DEF IInv, Typed
  <2>11. Phases'
    BY <2>3, <2>8, <2>9 DEF Phases, Talking
  <2>12. Understood'
    BY <1>1, <2>3 DEF Understood
  <2>13. Exchanges'
    <3>1. /\ Flight(c.up, down', {"SUBSCRIBE"}, {"SUBACK"}, {})
          /\ Flight(c.up, down', {"UNSUBSCRIBE"}, {"UNSUBACK"}, {})
          /\ Flight(c.up, down', {"PUBLISH1", "PUBLISH2"}, {"PUBACK", "PUBREC"}, Ids(c.pendingMsg))
      BY <2>8, FlightEmpty
    <3>5. {} \subseteq c'.pendingAck /\ w.id \in c'.pendingAck /\ w.id \notin {} /\ {} \subseteq c'.pendingUnsub
      BY <2>3, <2>4
    <3>2. Flight(c'.up, down', {"SUBSCRIBE"}, {"SUBACK"}, c'.pendingAck)
      BY <2>4, <2>5, <3>1, <3>5, FlightSends
    <3>3. Flight(c'.up, down', {"UNSUBSCRIBE"}, {"UNSUBACK"}, c'.pendingUnsub)
      BY <2>4, <2>5, <3>1, <3>5, FlightSends
    <3>4. Flight(c'.up, down', {"PUBLISH1", "PUBLISH2"}, {"PUBACK", "PUBREC"}, Ids(c'.pendingMsg))
      BY <2>4, <2>5, <3>1, FlightSends
    <3> QED BY <3>2, <3>3, <3>4 DEF Exchanges
  <2>14. Subscriptions'
    BY <2>3, <2>4, <2>8, <2>9 DEF Subscriptions
  <2>15. Receipts'
    BY <1>4, <2>5, <2>8, <2>9 DEF IInv, Receipts
  <2>16. Hearing'
    <3>1. CASE repeated
      BY <1>2, <3>1 DEF Hearing
    <3>2. CASE ~ repeated
      <4>1. \A m \in broker'.acked : Orders(m) \subseteq flown'
        BY <1>2, <2>5, <3>2 DEF IInv, Hearing
      <4>2. \A i : ~ Before(c'.up, i, "UNSUBSCRIBE")
        BY <2>9 DEF Before
      <4> QED BY <1>6, <2>3, <2>5, <2>8, <2>9, <4>1, <4>2 DEF Hearing
    <3> QED BY <3>1, <3>2
  <2>17. Pinging'
    <3>1. c'.pings = 0 /\ At(c'.up, {"PINGREQ"}) = {} /\ At(down', {"PINGRESP"}) = {}
      BY <1>6, <2>3, <2>8, <2>9
    <3>2. Cardinality(At(c'.up, {"PINGREQ"})) = 0 /\ Cardinality(At(down', {"PINGRESP"})) = 0
      BY <3>1, FS_EmptySet
    <3> QED BY <3>1, <3>2 DEF Pinging
  <2> QED BY <2>6, <2>10, <2>11, <2>12, <2>13, <2>14, <2>15, <2>16, <2>17 DEF IInv
<1> QED BY <1>7, <1>8

\* QMqttConnection::processDataHelper, the body.
LEMMA ReadBodyKeeps ==
    ASSUME IInv, ReadBody
    PROVE  IInv' /\ Fresh
<1>1. down[1] \in DownPacket
  BY AnswerComes
<1>2. \/ down[1].type = "CONNACK" \/ down[1].type = "SUBACK" \/ down[1].type = "UNSUBACK"
      \/ down[1].type \in {"PUBLISH", "PUBLISH1"} \/ down[1].type = "PUBACK"
      \/ down[1].type = "PUBREC" \/ down[1].type = "PUBCOMP" \/ down[1].type = "PINGRESP"
  BY <1>1 DEF DownPacket, DownType
<1> QED BY <1>2, ConnackIsRead, SubackIsRead, UnsubackIsRead, PublishIsRead, PubackIsRead,
           PubrecIsRead, PubcompIsRead, PingrespIsRead

-----------------------------------------------------------------------------
(* Steps of the broker *)

\* Packet a answers packet p.
Reply(p, a) ==
    /\ a.type \notin {"CONNACK", "PINGRESP"} => a.id = p.id
    /\ \/ p.type = "CONNECT" /\ a.type = "CONNACK"
       \/ p.type = "SUBSCRIBE" /\ a.type = "SUBACK" /\ a.data \in {"granted", "failure"}
       \/ p.type = "UNSUBSCRIBE" /\ a.type = "UNSUBACK"
       \/ p.type = "PUBLISH1" /\ a.type = "PUBACK"
       \/ p.type = "PUBLISH2" /\ a.type = "PUBREC"
       \/ p.type = "PUBREL" /\ a.type = "PUBCOMP"
       \/ p.type = "PINGREQ" /\ a.type = "PINGRESP"

\* A packet is answered by one packet, or not at all.
LEMMA AnswersAre ==
    ASSUME NEW p \in UpPacket, NEW answer \in Answers(p)
    PROVE  \/ answer = <<>> /\ p.type \in {"PUBLISH", "PUBACK", "DISCONNECT"}
           \/ \E a \in DownPacket : answer = <<a>> /\ Reply(p, a)
<1>1. p.id \in Nat
  BY DEF UpPacket
<1>2. ASSUME NEW type \in DownType, NEW id \in Nat,
             NEW data \in {"none", "accepted", "refused", "granted", "failure"}
      PROVE  Packet(type, id, data) \in DownPacket
  BY DEF DownPacket, Packet, Data
<1>3. CASE p.type = "CONNECT"
  <2>1. \E data \in {"accepted", "refused"} : answer = <<Packet("CONNACK", 0, data)>>
    BY <1>3 DEF Answers
  <2>2. PICK data \in {"accepted", "refused"} : answer = <<Packet("CONNACK", 0, data)>>
    BY <2>1
  <2> DEFINE a == Packet("CONNACK", 0, data)
  <2>3. a \in DownPacket
    BY <1>2 DEF DownType
  <2>4. Reply(p, a)
    BY <1>3 DEF Reply, Packet
  <2> HIDE DEF a
  <2> QED BY <2>2, <2>3, <2>4 DEF a
<1>4. CASE p.type = "SUBSCRIBE"
  <2>1. \E data \in {"granted", "failure"} : answer = <<Packet("SUBACK", p.id, data)>>
    BY <1>4 DEF Answers
  <2>2. PICK data \in {"granted", "failure"} : answer = <<Packet("SUBACK", p.id, data)>>
    BY <2>1
  <2> DEFINE a == Packet("SUBACK", p.id, data)
  <2>3. a \in DownPacket
    BY <1>1, <1>2 DEF DownType
  <2>4. Reply(p, a)
    BY <1>4 DEF Reply, Packet
  <2> HIDE DEF a
  <2> QED BY <2>2, <2>3, <2>4 DEF a
<1>5. ASSUME NEW type, NEW id, type \in DownType, id \in Nat, answer = <<Packet(type, id, "none")>>,
             Reply(p, Packet(type, id, "none"))
      PROVE  \E a \in DownPacket : answer = <<a>> /\ Reply(p, a)
  BY <1>2, <1>5
<1>6. CASE p.type = "UNSUBSCRIBE"
  <2>1. answer = <<Packet("UNSUBACK", p.id, "none")>>
    BY <1>6 DEF Answers
  <2>2. Reply(p, Packet("UNSUBACK", p.id, "none")) /\ "UNSUBACK" \in DownType
    BY <1>6 DEF Reply, Packet, DownType
  <2> QED BY <1>1, <1>5, <2>1, <2>2
<1>7. CASE p.type = "PUBLISH1"
  <2>1. answer = <<Packet("PUBACK", p.id, "none")>>
    BY <1>7 DEF Answers
  <2>2. Reply(p, Packet("PUBACK", p.id, "none")) /\ "PUBACK" \in DownType
    BY <1>7 DEF Reply, Packet, DownType
  <2> QED BY <1>1, <1>5, <2>1, <2>2
<1>8. CASE p.type = "PUBLISH2"
  <2>1. answer = <<Packet("PUBREC", p.id, "none")>>
    BY <1>8 DEF Answers
  <2>2. Reply(p, Packet("PUBREC", p.id, "none")) /\ "PUBREC" \in DownType
    BY <1>8 DEF Reply, Packet, DownType
  <2> QED BY <1>1, <1>5, <2>1, <2>2
<1>9. CASE p.type = "PUBREL"
  <2>1. answer = <<Packet("PUBCOMP", p.id, "none")>>
    BY <1>9 DEF Answers
  <2>2. Reply(p, Packet("PUBCOMP", p.id, "none")) /\ "PUBCOMP" \in DownType
    BY <1>9 DEF Reply, Packet, DownType
  <2> QED BY <1>1, <1>5, <2>1, <2>2
<1>10. CASE p.type = "PINGREQ"
  <2>1. answer = <<Packet("PINGRESP", 0, "none")>>
    BY <1>10 DEF Answers
  <2>2. Reply(p, Packet("PINGRESP", 0, "none")) /\ "PINGRESP" \in DownType
    BY <1>10 DEF Reply, Packet, DownType
  <2> QED BY <1>5, <2>1, <2>2
<1>11. CASE p.type \in {"PUBLISH", "PUBACK", "DISCONNECT"}
  BY <1>11 DEF Answers
<1>12. p.type \in UpType
  BY DEF UpPacket
<1> QED BY <1>3, <1>4, <1>6, <1>7, <1>8, <1>9, <1>10, <1>11, <1>12 DEF UpType

\* What comes before the answer: nothing, or a message for the subscription that is granted.
Early(p, a, d) ==
    \/ d = down
    \/ /\ p.type = "SUBSCRIBE" /\ a.data = "granted"
       /\ \E e \in DownPacket : e.type = "PUBLISH1" /\ e.data \in Commands /\ d = Append(down, e)

\* The broker answers packet p with packet a, or not at all.
IsAnswered(p) ==
    \E a \in DownPacket, d \in Seq(DownPacket) :
        /\ down' = Append(d, a) /\ Reply(p, a) /\ Early(p, a, d)
        /\ p.type = "SUBSCRIBE" => (broker'.session.subs <=> a.data = "granted")
IsUnanswered(p) == down' = down /\ p.type \in {"PUBLISH", "PUBACK", "DISCONNECT"}

\* What the broker does with a packet.
LEMMA BrokerServes ==
    ASSUME IInv, BrokerReads
    PROVE  /\ c \in Client /\ c.up \in Seq(UpPacket) /\ Len(c.up) > 0 /\ c.up[1] \in UpPacket
           /\ ~ silent /\ UNCHANGED <<silent, flown, sent, repeated>>
           /\ IsAnswered(c.up[1]) \/ IsUnanswered(c.up[1])
           /\ broker' \in Broker
           /\ broker'.got = IF c.up[1].type \in {"PUBLISH1", "PUBLISH2"} THEN broker.got \cup {c.up[1].data}
                                                                         ELSE broker.got
           /\ broker'.acked = IF c.up[1].type = "PUBACK" THEN broker.acked \cup {c.up[1].data} ELSE broker.acked
           /\ c.up[1].type = "UNSUBSCRIBE" => ~ broker'.session.subs
           /\ c.up[1].type \notin {"SUBSCRIBE", "UNSUBSCRIBE"} => broker'.session.subs = broker.session.subs
<1> DEFINE p == c.up[1]
<1>1. /\ c \in Client /\ c.up \in Seq(UpPacket) /\ Len(c.up) > 0 /\ down \in Seq(DownPacket)
      /\ broker \in Broker
  BY IsTyped, EmptySeq, LenProperties DEF BrokerReads
<1>2. Head(c.up) = p /\ p \in UpPacket
  BY <1>1, TailAt
<1> HIDE DEF p
<1>3. PICK answer \in Answers(p), early \in {<<>>} \cup {<<Packet("PUBLISH1", 1, m)>> : m \in Commands} :
        /\ early = <<>> \/ (p.type = "SUBSCRIBE" /\ answer[1].data = "granted")
        /\ down' = down \o early \o answer
        /\ broker' = [broker EXCEPT !.session = Session(@, p, answer),
                          !.got = IF p.type \in {"PUBLISH1", "PUBLISH2"} THEN @ \cup {p.data} ELSE @,
                          !.acked = IF p.type = "PUBACK" THEN @ \cup {p.data} ELSE @]
  BY <1>2 DEF BrokerReads
<1> DEFINE s == Session(broker.session, p, answer)
           got == IF p.type \in {"PUBLISH1", "PUBLISH2"} THEN broker.got \cup {p.data} ELSE broker.got
           acked == IF p.type = "PUBACK" THEN broker.acked \cup {p.data} ELSE broker.acked
           d == down \o early
<1>4. /\ s \in [on : BOOLEAN, subs : BOOLEAN]
      /\ p.type = "SUBSCRIBE" => (s.subs <=> answer[1].data = "granted")
      /\ p.type = "UNSUBSCRIBE" => ~ s.subs
      /\ p.type \notin {"SUBSCRIBE", "UNSUBSCRIBE"} => s.subs = broker.session.subs
  <2>1. broker.session \in [on : BOOLEAN, subs : BOOLEAN]
    BY <1>1
  <2>2. CASE p.type = "CONNECT"
    BY <2>1, <2>2 DEF Session
  <2>3. CASE p.type = "SUBSCRIBE"
    BY <2>1, <2>3 DEF Session
  <2>4. CASE p.type = "UNSUBSCRIBE"
    BY <2>1, <2>4 DEF Session
  <2>5. CASE p.type \notin {"CONNECT", "SUBSCRIBE", "UNSUBSCRIBE"}
    BY <2>1, <2>5 DEF Session
  <2> QED BY <2>2, <2>3, <2>4, <2>5
<1>5. got \in SUBSET Data /\ acked \in SUBSET Data
  BY <1>1, <1>2 DEF UpPacket
<1>6. broker' = [broker EXCEPT !.session = s, !.got = got, !.acked = acked]
  BY <1>1, <1>3
<1> HIDE DEF s, got, acked
<1>7. broker' \in Broker /\ broker'.session = s /\ broker'.got = got /\ broker'.acked = acked
  BY <1>1, <1>4, <1>5, <1>6
<1>8. /\ d \in Seq(DownPacket)
      /\ \/ early = <<>> /\ d = down
         \/ /\ p.type = "SUBSCRIBE" /\ answer[1].data = "granted"
            /\ \E e \in DownPacket : e.type = "PUBLISH1" /\ e.data \in Commands /\ d = Append(down, e)
  <2>1. CASE early = <<>>
    BY <1>1, <2>1, ConcatEmptySeq
  <2>2. ASSUME NEW m \in Commands, early = <<Packet("PUBLISH1", 1, m)>>
        PROVE  d \in Seq(DownPacket) /\
               \E e \in DownPacket : e.type = "PUBLISH1" /\ e.data \in Commands /\ d = Append(down, e)
    <3> DEFINE e == Packet("PUBLISH1", 1, m)
    <3>1. e \in DownPacket /\ e.type = "PUBLISH1" /\ e.data \in Commands
      BY DEF Packet, DownPacket, DownType, Data
    <3> HIDE DEF e
    <3>2. d = down \o <<e>>
      BY <2>2 DEF e
    <3> HIDE DEF d
    <3>3. d = Append(down, e)
      BY <1>1, <3>1, <3>2, AppendIsConcat
    <3> QED BY <1>1, <3>1, <3>3, AppendProperties
  <2>3. CASE early # <<>>
    BY <1>3, <2>2, <2>3
  <2> QED BY <2>1, <2>3
<1>9. down' = d \o answer
  BY <1>3
<1> HIDE DEF d
<1>10. IsAnswered(p) \/ IsUnanswered(p)
  <2>1. CASE answer = <<>> /\ p.type \in {"PUBLISH", "PUBACK", "DISCONNECT"}
    <3>1. d = down
      BY <1>3, <1>8, <2>1
    <3>2. down' = down
      BY <1>1, <1>9, <2>1, <3>1, ConcatEmptySeq
    <3> QED BY <2>1, <3>2 DEF IsUnanswered
  <2>2. ASSUME NEW a \in DownPacket, answer = <<a>>, Reply(p, a) PROVE IsAnswered(p)
    <3>1. answer[1] = a
      BY <2>2
    <3>2. down' = d \o <<a>>
      BY <1>9, <2>2
    <3>3. down' = Append(d, a)
      BY <1>8, <3>2, AppendIsConcat
    <3>4. Early(p, a, d)
      BY <1>3, <1>8, <3>1 DEF Early
    <3> QED BY <1>4, <1>7, <1>8, <2>2, <3>1, <3>3, <3>4 DEF IsAnswered
  <2> QED BY <1>2, <2>1, <2>2, AnswersAre
<1>11. ~ silent /\ UNCHANGED <<silent, flown, sent, repeated>>
  BY DEF BrokerReads
<1> QED BY <1>1, <1>2, <1>4, <1>7, <1>10, <1>11 DEF p, got, acked

\* What has come is what had come, the answer, and a message before it.
LEMMA BrokerSends ==
    ASSUME IInv, BrokerReads
    PROVE  /\ down' \in Seq(DownPacket) /\ Len(down) \in Nat
           /\ Len(down) > 0 => Len(down') > 0 /\ down'[1] = down[1]
           /\ \A T : \A i \in At(down, T) : i \in Nat /\ i <= Len(down) /\ i \in At(down', T) /\ down'[i] = down[i]
           /\ \A T : \A i \in At(down', T) :
                 /\ i \in Nat
                 /\ \/ i \in At(down, T) /\ down'[i] = down[i]
                    \/ /\ i > Len(down) /\ Reply(c.up[1], down'[i]) /\ down'[i].type \in T
                       /\ c.up[1].type = "SUBSCRIBE" => (broker'.session.subs <=> down'[i].data = "granted")
                    \/ /\ i = Len(down) + 1 /\ c.up[1].type = "SUBSCRIBE" /\ broker'.session.subs
                       /\ down'[i].type = "PUBLISH1" /\ "PUBLISH1" \in T /\ down'[i].data \in Commands
<1> DEFINE p == c.up[1]
<1>1. down \in Seq(DownPacket) /\ Len(down) \in Nat
  BY IsTyped, LenProperties
<1>2. \A T : \A i \in At(down, T) : i \in Nat /\ i <= Len(down)
  BY <1>1 DEF At
<1>3. IsAnswered(p) \/ IsUnanswered(p)
  BY BrokerServes
<1>4. CASE IsUnanswered(p)
  BY <1>1, <1>2, <1>4 DEF IsUnanswered
<1>5. CASE IsAnswered(p)
  <2> HIDE DEF p
  <2>1. PICK a \in DownPacket, d \in Seq(DownPacket) :
          /\ down' = Append(d, a) /\ Reply(p, a) /\ Early(p, a, d)
          /\ p.type = "SUBSCRIBE" => (broker'.session.subs <=> a.data = "granted")
    BY <1>5 DEF IsAnswered
  <2>2. /\ down' \in Seq(DownPacket) /\ Len(d) \in Nat /\ Len(down') = Len(d) + 1
        /\ \A T : \A i \in At(d, T) : i \in Nat /\ i <= Len(d) /\ i \in At(down', T) /\ down'[i] = d[i]
        /\ \A T : \A i \in At(down', T) :
              \/ i \in At(d, T) /\ down'[i] = d[i]
              \/ i = Len(d) + 1 /\ a.type \in T /\ down'[i] = a
    <3>1. down' \in Seq(DownPacket) /\ Len(d) \in Nat /\ Len(down') = Len(d) + 1
      BY <2>1, AppendProperties, LenProperties
    <3>2. ASSUME NEW T
          PROVE  /\ \A i \in At(d, T) : i \in Nat /\ i <= Len(d) /\ i \in At(down', T) /\ down'[i] = d[i]
                 /\ \A i \in At(down', T) :
                       \/ i \in At(d, T) /\ down'[i] = d[i]
                       \/ i = Len(d) + 1 /\ a.type \in T /\ down'[i] = a
      <4>1. /\ a.type \in T => At(down', T) = At(d, T) \cup {Len(d) + 1}
            /\ a.type \notin T => At(down', T) = At(d, T)
            /\ \A i \in At(d, T) : i \in 1..Len(d) /\ down'[i] = d[i]
        BY <2>1, AppendedAt
      <4>2. down'[Len(d) + 1] = a
        BY <2>1, Appended
      <4>3. \A i \in At(d, T) : i \in Nat /\ i <= Len(d)
        BY <3>1, <4>1
      <4> QED BY <4>1, <4>2, <4>3
    <3> QED BY <3>1, <3>2
  <2>3. \A i \in 1..Len(d) : down'[i] = d[i]
    BY <2>1, Appended
  <2>4. CASE d = down
    <3>1. Len(down) > 0 => Len(down') > 0 /\ down'[1] = down[1]
      BY <1>1, <2>2, <2>3, <2>4
    <3>2. ASSUME NEW T, NEW i \in At(down', T)
          PROVE  /\ i \in Nat
                 /\ \/ i \in At(down, T) /\ down'[i] = down[i]
                    \/ /\ i > Len(down) /\ Reply(p, down'[i]) /\ down'[i].type \in T
                       /\ p.type = "SUBSCRIBE" => (broker'.session.subs <=> down'[i].data = "granted")
      <4>1. CASE i \in At(down, T)
        BY <2>2, <2>4, <4>1
      <4>2. CASE i = Len(down) + 1 /\ a.type \in T /\ down'[i] = a
        BY <1>1, <2>1, <4>2
      <4> QED BY <2>2, <2>4, <3>2, <4>1, <4>2
    <3> QED BY <1>1, <2>2, <2>4, <3>1, <3>2 DEF p
  <2>5. ASSUME NEW e \in DownPacket, e.type = "PUBLISH1", e.data \in Commands, d = Append(down, e),
               p.type = "SUBSCRIBE", a.data = "granted"
        PROVE  /\ Len(down) > 0 => Len(down') > 0 /\ down'[1] = down[1]
               /\ \A T : \A i \in At(down, T) : i \in At(down', T) /\ down'[i] = down[i]
               /\ \A T : \A i \in At(down', T) :
                     /\ i \in Nat
                     /\ \/ i \in At(down, T) /\ down'[i] = down[i]
                        \/ /\ i > Len(down) /\ Reply(p, down'[i]) /\ down'[i].type \in T
                           /\ p.type = "SUBSCRIBE" => (broker'.session.subs <=> down'[i].data = "granted")
                        \/ /\ i = Len(down) + 1 /\ p.type = "SUBSCRIBE" /\ broker'.session.subs
                           /\ down'[i].type = "PUBLISH1" /\ "PUBLISH1" \in T /\ down'[i].data \in Commands
    <3>1. /\ Len(d) = Len(down) + 1
          /\ \A T : \A i \in At(down, T) : i \in At(d, T) /\ d[i] = down[i]
          /\ \A T : \A i \in At(d, T) :
                \/ i \in At(down, T) /\ d[i] = down[i]
                \/ i = Len(down) + 1 /\ e.type \in T /\ d[i] = e
      <4>1. Len(d) = Len(down) + 1
        BY <1>1, <2>5, AppendProperties
      <4>2. ASSUME NEW T
            PROVE  /\ \A i \in At(down, T) : i \in At(d, T) /\ d[i] = down[i]
                   /\ \A i \in At(d, T) :
                         \/ i \in At(down, T) /\ d[i] = down[i]
                         \/ i = Len(down) + 1 /\ e.type \in T /\ d[i] = e
        <5>1. /\ e.type \in T => At(d, T) = At(down, T) \cup {Len(down) + 1}
              /\ e.type \notin T => At(d, T) = At(down, T)
              /\ \A i \in At(down, T) : i \in 1..Len(down) /\ d[i] = down[i]
          BY <1>1, <2>5, AppendedAt
        <5>2. d[Len(down) + 1] = e
          BY <1>1, <2>5, Appended
        <5> QED BY <5>1, <5>2
      <4> QED BY <4>1, <4>2
    <3>2. \A i \in 1..Len(down) : d[i] = down[i]
      BY <1>1, <2>5, Appended
    <3>3. Len(down) > 0 => Len(down') > 0 /\ down'[1] = down[1]
      BY <1>1, <2>2, <2>3, <3>1, <3>2
    <3>4. \A T : \A i \in At(down, T) : i \in At(down', T) /\ down'[i] = down[i]
      BY <2>2, <3>1
    <3>5. broker'.session.subs
      BY <2>1, <2>5
    <3>6. ASSUME NEW T, NEW i \in At(down', T)
          PROVE  /\ i \in Nat
                 /\ \/ i \in At(down, T) /\ down'[i] = down[i]
                    \/ /\ i > Len(down) /\ Reply(p, down'[i]) /\ down'[i].type \in T
                       /\ p.type = "SUBSCRIBE" => (broker'.session.subs <=> down'[i].data = "granted")
                    \/ /\ i = Len(down) + 1 /\ p.type = "SUBSCRIBE" /\ broker'.session.subs
                       /\ down'[i].type = "PUBLISH1" /\ "PUBLISH1" \in T /\ down'[i].data \in Commands
      <4>1. CASE i \in At(d, T)
        <5>1. i \in Nat /\ down'[i] = d[i]
          BY <2>2, <4>1
        <5>2. CASE i \in At(down, T)
          BY <3>1, <5>1, <5>2
        <5>3. CASE i = Len(down) + 1 /\ e.type \in T /\ d[i] = e
          BY <2>5, <3>5, <5>1, <5>3
        <5> QED BY <3>1, <4>1, <5>2, <5>3
      <4>2. CASE i = Len(d) + 1 /\ a.type \in T /\ down'[i] = a
        BY <1>1, <2>1, <3>1, <4>2
      <4> QED BY <2>2, <3>6, <4>1, <4>2
    <3> QED BY <3>3, <3>4, <3>6
  <2> QED BY <1>1, <1>2, <2>1, <2>2, <2>4, <2>5 DEF Early, p
<1> QED BY <1>3, <1>4, <1>5

\* The packet is no longer in the buffer.
LEMMA BufferLeaves ==
    ASSUME IInv, BrokerReads
    PROVE  /\ c' \in Client /\ c'.up = Tail(c.up) /\ c'.counter = c.counter /\ c'.pings = c.pings
           /\ Link(c') = Link(c) /\ Topic(c') = Topic(c) /\ Outbox(c') = Outbox(c)
           /\ \A T : \A i \in At(c'.up, T) : i \in Nat /\ i >= 1 /\ i + 1 \in At(c.up, T) /\ c'.up[i] = c.up[i + 1]
           /\ \A T : \A i \in At(c.up, T) : i \in Nat /\ (i # 1 => i > 1 /\ i - 1 \in At(c'.up, T))
           /\ \A T : None(c.up, T) => None(c'.up, T) /\ c.up[1].type \notin T
           /\ \A T : 1 \in At(c.up, T) <=> c.up[1].type \in T
<1> DEFINE t == Tail(c.up)
<1>1. c \in Client /\ c.up \in Seq(UpPacket) /\ Len(c.up) > 0
  BY BrokerServes
<1>14. /\ t \in Seq(UpPacket) /\ Len(c.up) \in Nat
       /\ \A T : \A i \in At(t, T) : i \in Nat /\ i + 1 \in At(c.up, T) /\ t[i] = c.up[i + 1]
  <2>3. c.up \in Seq(UpPacket) /\ Len(c.up) > 0
    BY <1>1
  <2>1. \A T : \A i \in At(t, T) : i \in Nat /\ i + 1 \in At(c.up, T) /\ t[i] = c.up[i + 1]
    BY <2>3, TailAt, ZenonT(30)
  <2>2. t \in Seq(UpPacket) /\ Len(c.up) \in Nat
    BY <1>1, TailAt
  <2> QED BY <2>1, <2>2
<1>15. ASSUME NEW T, NEW i \in At(c.up, T), i # 1 PROVE i \in Nat /\ i - 1 \in At(t, T)
  BY <1>1, <1>15, TailAt
<1>2. /\ t \in Seq(UpPacket) /\ Len(c.up) \in Nat
      /\ \A T : \A i \in At(t, T) : i \in Nat /\ i + 1 \in At(c.up, T) /\ t[i] = c.up[i + 1]
      /\ \A T : \A i \in At(c.up, T) : i # 1 => i \in Nat /\ i - 1 \in At(t, T)
      /\ \A T : None(c.up, T) => None(t, T) /\ c.up[1].type \notin T
      /\ \A T : 1 \in At(c.up, T) <=> c.up[1].type \in T
  <2>1. \A T : None(c.up, T) => None(t, T) /\ c.up[1].type \notin T
    BY <1>1, TailAt
  <2>2. \A T : 1 \in At(c.up, T) <=> c.up[1].type \in T
    BY <1>1, TailAt
  <2> QED BY <1>14, <1>15, <2>1, <2>2
<1>3. c' = [c EXCEPT !.up = t]
  BY DEF BrokerReads
<1> HIDE DEF t
<1>4. c' \in Client /\ c'.up = t /\ c'.counter = c.counter /\ c'.pings = c.pings
  BY <1>1, <1>2, <1>3 DEF Client
<1>5. Link(c') = Link(c) /\ Topic(c') = Topic(c) /\ Outbox(c') = Outbox(c)
  BY <1>1, <1>3 DEF Client, Link, Topic, Outbox
<1>6. \A T : \A i \in At(t, T) : i \in 1..Len(t)
  BY DEF At
<1>7. \A T : \A i \in At(c.up, T) : i \in 1..Len(c.up)
  BY DEF At
<1>8. Len(t) \in Nat
  BY <1>2, LenProperties
<1>9. \A T : \A i \in At(t, T) : i >= 1
  BY <1>6, <1>8
<1>10. \A T : \A i \in At(c.up, T) : i \in Nat /\ (i # 1 => i > 1)
  BY <1>2, <1>7
<1>11. \A T : \A i \in At(c'.up, T) : i \in Nat /\ i >= 1 /\ i + 1 \in At(c.up, T) /\ c'.up[i] = c.up[i + 1]
  BY <1>2, <1>4, <1>9
<1>12. \A T : \A i \in At(c.up, T) : i \in Nat /\ (i # 1 => i > 1 /\ i - 1 \in At(c'.up, T))
  BY <1>2, <1>4, <1>10
<1>13. \A T : None(c.up, T) => None(c'.up, T) /\ c.up[1].type \notin T
  BY <1>2, <1>4
<1> QED BY <1>2, <1>4, <1>5, <1>11, <1>12, <1>13 DEF t

\* A client is heard while a connection is made, and when it has been made.
LEMMA Hears ==
    ASSUME IInv, BrokerReads
    PROVE  \/ Talking /\ c.up[1].type # "CONNECT"
           \/ Shaking /\ Len(c.up) = 1 /\ Len(down) = 0 /\ c.up[1].type = "CONNECT"
<1>1. Len(c.up) > 0 /\ ~ silent
  BY BrokerServes
<1>2. Talking \/ Shaking
  BY <1>1 DEF IInv, Phases, Shut, Opening, Hushed
<1>3. None(c.up, {"CONNECT"}) => c.up[1].type \notin {"CONNECT"}
  BY BufferLeaves
<1> QED BY <1>1, <1>2, <1>3 DEF Talking, Shaking

\* The connection is as it was.
LEMMA ServeLinked ==
    ASSUME IInv, BrokerReads
    PROVE  Typed' /\ Phases' /\ Understood'
<1>1. /\ c'.state = c.state /\ c'.internal = c.internal /\ c'.transport = c.transport
      /\ c'.missing = c.missing /\ c'.pingTimer = c.pingTimer /\ c'.timer = c.timer
  BY BufferLeaves DEF Link
<1>2. Typed'
  <2>1. \A i \in At(down', {"PUBLISH", "PUBLISH1"}) : down'[i].data \in Commands
    <3> SUFFICES ASSUME NEW i \in At(down', {"PUBLISH", "PUBLISH1"}) PROVE down'[i].data \in Commands
      OBVIOUS
    <3>1. ~ (Reply(c.up[1], down'[i]) /\ down'[i].type \in {"PUBLISH", "PUBLISH1"})
      BY DEF Reply
    <3>2. CASE i \in At(down, {"PUBLISH", "PUBLISH1"}) /\ down'[i] = down[i]
      BY <3>2 DEF IInv, Typed
    <3> QED BY <3>1, <3>2, BrokerSends
  <2> QED BY <2>1, BufferLeaves, BrokerServes, BrokerSends DEF IInv, Typed
<1>3. Phases'
  <2>1. CASE Talking /\ c.up[1].type # "CONNECT"
    <3>1. None(c'.up, {"CONNECT"})
      BY <2>1, BufferLeaves DEF Talking
    <3>2. None(down', {"CONNACK"})
      <4>1. At(down, {"CONNACK"}) = {}
        BY <2>1, NoneAt DEF Talking
      <4>2. \A a : Reply(c.up[1], a) => a.type # "CONNACK"
        BY <2>1 DEF Reply
      <4>3. At(down', {"CONNACK"}) = {}
        BY <4>1, <4>2, BrokerSends
      <4> QED BY <4>3, NoneAt
    <3> QED BY <1>1, <2>1, <3>1, <3>2 DEF Phases, Talking
  <2>2. CASE Shaking /\ Len(c.up) = 1 /\ Len(down) = 0 /\ c.up[1].type = "CONNECT"
    <3>1. Len(c'.up) = 0
      <4>1. c'.up = Tail(c.up) /\ c.up \in Seq(UpPacket)
        BY BrokerServes, BufferLeaves
      <4>2. Len(Tail(c.up)) = Len(c.up) - 1
        BY <2>2, <4>1, TailAt
      <4> QED BY <2>2, <4>1, <4>2
    <3>2. IsAnswered(c.up[1])
      BY <2>2, BrokerServes DEF IsUnanswered
    <3>3. PICK a \in DownPacket, d \in Seq(DownPacket) :
             down' = Append(d, a) /\ Reply(c.up[1], a) /\ Early(c.up[1], a, d)
      BY <3>2 DEF IsAnswered
    <3>4. d = down /\ a.type = "CONNACK"
      BY <2>2, <3>3 DEF Early, Reply
    <3>5. Len(down') = 1 /\ down'[1] = a
      BY <2>2, <3>3, <3>4, AppendProperties
    <3>6. ~ broker'.session.subs
      BY <2>2, BrokerServes DEF Shaking
    <3>7. Unsaid(c') /\ c'.pendingAck = {} /\ c'.pendingUnsub = {}
      BY <2>2, BufferLeaves DEF Shaking, Unsaid, Link, Topic
    <3> QED BY <1>1, <2>2, <3>1, <3>4, <3>5, <3>6, <3>7 DEF Phases, Shaking
  <2> QED BY <2>1, <2>2, Hears
<1>4. Understood'
  BY <1>1, BrokerSends DEF IInv, Understood
<1> QED BY <1>2, <1>3, <1>4

\* A request in flight, or an answer.
LEMMA FlightServed ==
    ASSUME NEW S, NEW u \in Seq(S), Len(u) > 0, NEW Z, NEW d \in Seq(Z), NEW a \in Z,
           NEW R, NEW A, NEW W, Flight(u, d, R, A, W),
           a.type \in A => u[1].type \in R /\ a.id = u[1].id
    PROVE  Flight(Tail(u), Append(d, a), R, A, W)
<1>1. CASE a.type \in A
  BY <1>1, FlightTurns
<1>2. CASE a.type \notin A
  <2> DEFINE t == Tail(u)
  <2>1. Flight(t, d, R, A, W)
    BY FlightDrops
  <2> HIDE DEF t
  <2>2. Flight(t, Append(d, a), R, A, W)
    BY <1>2, <2>1, FlightAdds
  <2> QED BY <2>2 DEF t
<1> QED BY <1>1, <1>2

\* A request becomes an answer, or is not answered.
LEMMA ServeExchanged ==
    ASSUME IInv, BrokerReads
    PROVE  Exchanges'
<1> DEFINE p == c.up[1]
<1>1. /\ c'.pendingAck = c.pendingAck /\ c'.pendingUnsub = c.pendingUnsub /\ c'.pendingMsg = c.pendingMsg
      /\ c'.up = Tail(c.up)
  BY BufferLeaves DEF Topic, Outbox
<1>2. c.up \in Seq(UpPacket) /\ Len(c.up) > 0 /\ down \in Seq(DownPacket) /\ ~ silent
  BY BrokerServes, IsTyped
<1>3. ASSUME NEW R, NEW A, NEW W, Flight(c.up, down, R, A, W), "PUBLISH1" \notin A,
             \A a : Reply(p, a) /\ a.type \in A => p.type \in R /\ a.id = p.id
      PROVE  Flight(Tail(c.up), down', R, A, W)
  <2> HIDE DEF p
  <2>1. CASE IsUnanswered(p)
    BY <1>2, <1>3, <2>1, FlightDrops DEF IsUnanswered
  <2>2. CASE IsAnswered(p)
    <3>1. PICK a \in DownPacket, d \in Seq(DownPacket) : down' = Append(d, a) /\ Reply(p, a) /\ Early(p, a, d)
      BY <2>2 DEF IsAnswered
    <3>2. Flight(c.up, d, R, A, W)
      BY <1>2, <1>3, <3>1, FlightAdds DEF Early
    <3>3. a.type \in A => c.up[1].type \in R /\ a.id = c.up[1].id
      BY <1>3, <3>1 DEF p
    <3> QED BY <1>2, <3>1, <3>2, <3>3, FlightServed
  <2> QED BY <2>1, <2>2, BrokerServes DEF p
<1>4. \A a : Reply(p, a) =>
         /\ a.type \in {"SUBACK"} => p.type \in {"SUBSCRIBE"} /\ a.id = p.id
         /\ a.type \in {"UNSUBACK"} => p.type \in {"UNSUBSCRIBE"} /\ a.id = p.id
         /\ a.type \in {"PUBACK", "PUBREC"} => p.type \in {"PUBLISH1", "PUBLISH2"} /\ a.id = p.id
  BY DEF Reply
<1>5. /\ Flight(c.up, down, {"SUBSCRIBE"}, {"SUBACK"}, c.pendingAck)
      /\ Flight(c.up, down, {"UNSUBSCRIBE"}, {"UNSUBACK"}, c.pendingUnsub)
      /\ Flight(c.up, down, {"PUBLISH1", "PUBLISH2"}, {"PUBACK", "PUBREC"}, Ids(c.pendingMsg))
  BY <1>2 DEF IInv, Exchanges
<1> HIDE DEF p
<1>6. Flight(Tail(c.up), down', {"SUBSCRIBE"}, {"SUBACK"}, c.pendingAck)
  BY <1>3, <1>4, <1>5
<1>7. Flight(Tail(c.up), down', {"UNSUBSCRIBE"}, {"UNSUBACK"}, c.pendingUnsub)
  BY <1>3, <1>4, <1>5
<1>8. Flight(Tail(c.up), down', {"PUBLISH1", "PUBLISH2"}, {"PUBACK", "PUBREC"}, Ids(c.pendingMsg))
  BY <1>3, <1>4, <1>5
<1> QED BY <1>1, <1>6, <1>7, <1>8 DEF Exchanges

\* Among some packets of certain types one is the last.
LEMMA LastAt ==
    ASSUME NEW S, NEW s \in Seq(S), NEW T, At(s, T) # {}
    PROVE  \E i \in At(s, T) : \A j \in At(s, T) : j <= i
<1> DEFINE N == {Len(s) - i : i \in At(s, T)}
<1>1. Len(s) \in Nat /\ \A i \in At(s, T) : i \in 1..Len(s)
  BY LenProperties DEF At
<1>2. N \in SUBSET Nat /\ N # {}
  BY <1>1
<1>3. Min(N) \in N /\ \A n \in N : Min(N) <= n
  BY <1>2, MinIsIn
<1>4. PICK i \in At(s, T) : Min(N) = Len(s) - i
  BY <1>3
<1>5. \A j \in At(s, T) : j <= i
  <2> SUFFICES ASSUME NEW j \in At(s, T) PROVE j <= i
    OBVIOUS
  <2>1. Len(s) - j \in N
    OBVIOUS
  <2>2. Len(s) - i <= Len(s) - j
    BY <1>3, <1>4, <2>1
  <2> QED BY <1>1, <2>2
<1> QED BY <1>5

\* The answer to a subscription comes after those to the earlier ones, and the broker's
\* session is as it says.
LEMMA ServeSubscribed ==
    ASSUME IInv, BrokerReads
    PROVE  Subscriptions'
<1> DEFINE p == c.up[1]
<1>1. /\ c'.active = c.active /\ c'.sub = c.sub /\ c'.subId = c.subId
      /\ c'.pendingAck = c.pendingAck /\ c'.pendingUnsub = c.pendingUnsub
  BY BufferLeaves DEF Topic
<1>2. ~ silent /\ c.up \in Seq(UpPacket) /\ Len(c.up) > 0
  BY BrokerServes
<1>3. /\ Flight(c.up, down, {"SUBSCRIBE"}, {"SUBACK"}, c.pendingAck)
      /\ Flight(c.up, down, {"UNSUBSCRIBE"}, {"UNSUBACK"}, c.pendingUnsub)
  BY <1>2 DEF IInv, Exchanges
<1>4. /\ p.type = "SUBSCRIBE" => 1 \in At(c.up, {"SUBSCRIBE"})
      /\ p.type = "UNSUBSCRIBE" => 1 \in At(c.up, {"UNSUBSCRIBE"})
  <2>1. (1 \in At(c.up, {"SUBSCRIBE"}) <=> p.type \in {"SUBSCRIBE"})
        /\ (1 \in At(c.up, {"UNSUBSCRIBE"}) <=> p.type \in {"UNSUBSCRIBE"})
    BY BufferLeaves
  <2> QED BY <2>1
<1>5. p.type = "UNSUBSCRIBE" => c.pendingUnsub # {}
  BY <1>3, <1>4 DEF Flight, AreIn
<1>6. ASSUME c.active
      PROVE  /\ c.sub = "Subscribed" => c.subId \notin c.pendingAck
             /\ \A i \in At(c.up, {"SUBSCRIBE"}) :
                   c.up[i].id = c.subId <=> \A j \in At(c.up, {"SUBSCRIBE"}) : j <= i
             /\ \A i \in At(down, {"SUBACK"}) : down[i].id = c.subId =>
                   /\ None(c.up, {"SUBSCRIBE"})
                   /\ down[i].data # "failure" => (broker.session.subs \/ c.pendingUnsub # {})
  BY <1>2, <1>6 DEF IInv, Subscriptions
<1>7. ASSUME c.active, c.sub = "Subscribed", c.pendingUnsub = {} PROVE broker'.session.subs
  <2>1. broker.session.subs
    BY <1>7 DEF IInv, Subscriptions
  <2>2. p.type # "UNSUBSCRIBE"
    BY <1>5, <1>7
  <2>3. p.type # "SUBSCRIBE"
    <3> SUFFICES ASSUME p.type = "SUBSCRIBE" PROVE FALSE
      OBVIOUS
    <3>1. At(c.up, {"SUBSCRIBE"}) # {}
      BY <1>4
    <3>2. PICK i \in At(c.up, {"SUBSCRIBE"}) : \A j \in At(c.up, {"SUBSCRIBE"}) : j <= i
      BY <1>2, <3>1, LastAt
    <3>3. c.up[i].id = c.subId
      BY <1>6, <1>7, <3>2
    <3>4. c.up[i].id \in c.pendingAck
      BY <1>3 DEF Flight, AreIn
    <3> QED BY <1>6, <1>7, <3>3, <3>4
  <2> QED BY <2>1, <2>2, <2>3, BrokerServes
<1>8. ASSUME c.active, NEW i \in At(c'.up, {"SUBSCRIBE"})
      PROVE  c'.up[i].id = c.subId <=> \A j \in At(c'.up, {"SUBSCRIBE"}) : j <= i
  <2>1. i \in Nat /\ i >= 1 /\ i + 1 \in At(c.up, {"SUBSCRIBE"}) /\ c'.up[i] = c.up[i + 1]
    BY BufferLeaves
  <2>2. c'.up[i].id = c.subId <=> \A j \in At(c.up, {"SUBSCRIBE"}) : j <= i + 1
    BY <1>6, <1>8, <2>1
  <2>3. ASSUME \A j \in At(c.up, {"SUBSCRIBE"}) : j <= i + 1, NEW j \in At(c'.up, {"SUBSCRIBE"})
        PROVE  j <= i
    <3>1. j \in Nat /\ j + 1 \in At(c.up, {"SUBSCRIBE"})
      BY BufferLeaves
    <3> QED BY <2>1, <2>3, <3>1
  <2>4. ASSUME \A j \in At(c'.up, {"SUBSCRIBE"}) : j <= i, NEW j \in At(c.up, {"SUBSCRIBE"})
        PROVE  j <= i + 1
    <3>1. j \in Nat /\ (j # 1 => j - 1 \in At(c'.up, {"SUBSCRIBE"}))
      BY BufferLeaves
    <3>2. CASE j = 1
      BY <2>1, <3>2
    <3>3. CASE j # 1
      <4>1. j - 1 <= i
        BY <2>4, <3>1, <3>3
      <4> QED BY <2>1, <3>1, <4>1
    <3> QED BY <3>2, <3>3
  <2> QED BY <2>2, <2>3, <2>4
<1>9. ASSUME c.active, NEW i \in At(down', {"SUBACK"}), down'[i].id = c.subId
      PROVE  /\ None(c'.up, {"SUBSCRIBE"})
             /\ down'[i].data # "failure" => (broker'.session.subs \/ c.pendingUnsub # {})
  <2>1. CASE i \in At(down, {"SUBACK"}) /\ down'[i] = down[i]
    <3>1. /\ None(c.up, {"SUBSCRIBE"})
          /\ down'[i].data # "failure" => (broker.session.subs \/ c.pendingUnsub # {})
      BY <1>6, <1>9, <2>1
    <3>2. None(c'.up, {"SUBSCRIBE"}) /\ p.type \notin {"SUBSCRIBE"}
      BY <3>1, BufferLeaves
    <3>3. CASE p.type = "UNSUBSCRIBE"
      BY <1>5, <3>2, <3>3
    <3>4. CASE p.type # "UNSUBSCRIBE"
      <4>1. broker'.session.subs = broker.session.subs
        BY <3>2, <3>4, BrokerServes
      <4> QED BY <3>1, <3>2, <4>1
    <3> QED BY <3>3, <3>4
  <2>2. CASE /\ Reply(p, down'[i]) /\ down'[i].type \in {"SUBACK"}
             /\ p.type = "SUBSCRIBE" => (broker'.session.subs <=> down'[i].data = "granted")
    <3>1. p.type = "SUBSCRIBE" /\ down'[i].id = p.id /\ down'[i].data \in {"granted", "failure"}
      BY <2>2 DEF Reply
    <3>2. \A j \in At(c.up, {"SUBSCRIBE"}) : j <= 1
      BY <1>4, <1>6, <1>9, <3>1
    <3>3. \A j \in At(c'.up, {"SUBSCRIBE"}) : FALSE
      <4> SUFFICES ASSUME NEW j \in At(c'.up, {"SUBSCRIBE"}) PROVE FALSE
        OBVIOUS
      <4>1. j \in Nat /\ j >= 1 /\ j + 1 \in At(c.up, {"SUBSCRIBE"})
        BY BufferLeaves
      <4>2. j + 1 <= 1
        BY <3>2, <4>1
      <4> QED BY <4>1, <4>2
    <3>4. None(c'.up, {"SUBSCRIBE"})
      BY <3>3, NoneAt
    <3> QED BY <2>2, <3>1, <3>4
  <2>3. \/ i \in At(down, {"SUBACK"}) /\ down'[i] = down[i]
        \/ /\ Reply(p, down'[i]) /\ down'[i].type \in {"SUBACK"}
           /\ p.type = "SUBSCRIBE" => (broker'.session.subs <=> down'[i].data = "granted")
    BY BrokerSends
  <2> QED BY <2>1, <2>2, <2>3
<1>10. c.active => (c.sub = "Subscribed" => c.subId \notin c.pendingAck)
  BY <1>6
<1> QED BY <1>1, <1>7, <1>8, <1>9, <1>10 DEF Subscriptions

\* What is answered is got.
LEMMA ServeReceived ==
    ASSUME IInv, BrokerReads
    PROVE  Receipts'
<1> DEFINE p == c.up[1]
<1>1. c'.pendingMsg = c.pendingMsg /\ c'.pendingRel = c.pendingRel
  BY BufferLeaves DEF Outbox
<1>2. /\ ~ silent /\ sent' = sent /\ broker.got \subseteq broker'.got
      /\ p.type \in {"PUBLISH1", "PUBLISH2"} => p.data \in broker'.got
  BY BrokerServes
<1>3. sent \subseteq broker.got /\ \A q \in c.pendingRel : q.msg \in broker.got
  BY DEF IInv, Receipts
<1>4. /\ \A i \in At(down, {"PUBACK", "PUBREC"}) :
            \A q \in c.pendingMsg : q.id = down[i].id => q.msg \in broker.got
      /\ \A i \in At(c.up, {"PUBLISH1", "PUBLISH2"}) :
            \A q \in c.pendingMsg : q.id = c.up[i].id => q.msg = c.up[i].data
  BY <1>2 DEF IInv, Receipts
<1>5. ASSUME NEW i \in At(down', {"PUBACK", "PUBREC"}), NEW q \in c.pendingMsg, q.id = down'[i].id
      PROVE  q.msg \in broker'.got
  <2>1. CASE i \in At(down, {"PUBACK", "PUBREC"}) /\ down'[i] = down[i]
    BY <1>2, <1>4, <1>5, <2>1
  <2>2. CASE Reply(p, down'[i]) /\ down'[i].type \in {"PUBACK", "PUBREC"}
    <3>1. p.type \in {"PUBLISH1", "PUBLISH2"} /\ down'[i].id = p.id
      BY <2>2 DEF Reply
    <3>2. 1 \in At(c.up, {"PUBLISH1", "PUBLISH2"})
      BY <3>1, BufferLeaves
    <3>3. q.msg = p.data
      BY <1>4, <1>5, <3>1, <3>2
    <3> QED BY <1>2, <3>1, <3>3
  <2>3. \/ i \in At(down, {"PUBACK", "PUBREC"}) /\ down'[i] = down[i]
        \/ Reply(p, down'[i]) /\ down'[i].type \in {"PUBACK", "PUBREC"}
    BY BrokerSends
  <2> QED BY <2>1, <2>2, <2>3
<1>6. \A i \in At(c'.up, {"PUBLISH1", "PUBLISH2"}) :
         \A q \in c.pendingMsg : q.id = c'.up[i].id => q.msg = c'.up[i].data
  BY <1>4, BufferLeaves
<1>7. sent' \subseteq broker'.got /\ \A q \in c.pendingRel : q.msg \in broker'.got
  BY <1>2, <1>3
<1> QED BY <1>1, <1>5, <1>6, <1>7 DEF Receipts

\* A ping becomes an answer.
LEMMA ServePinged ==
    ASSUME IInv, BrokerReads
    PROVE  Pinging'
<1> DEFINE p == c.up[1]
           x == Cardinality(At(c.up, {"PINGREQ"}))
           y == Cardinality(At(down, {"PINGRESP"}))
<1>1. c'.pings = c.pings /\ c'.up = Tail(c.up)
  BY BufferLeaves
<1>2. /\ c.up \in Seq(UpPacket) /\ Len(c.up) > 0 /\ down \in Seq(DownPacket) /\ ~ silent
      /\ c \in Client
  BY BrokerServes, IsTyped
<1>3. x \in Nat /\ y \in Nat /\ x + y <= c.pings /\ c.pings \in Nat
  BY <1>2, AtFinite DEF IInv, Pinging, Client, Counts
<1>4. Cardinality(At(c'.up, {"PINGREQ"})) = IF p.type = "PINGREQ" THEN x - 1 ELSE x
  <2>1. Cardinality(At(Tail(c.up), {"PINGREQ"})) = IF p.type \in {"PINGREQ"} THEN x - 1 ELSE x
    BY <1>2, CountTail
  <2> QED BY <1>1, <2>1
<1>5. Cardinality(At(down', {"PINGRESP"})) = IF p.type = "PINGREQ" THEN y + 1 ELSE y
  <2>1. CASE IsUnanswered(p)
    BY <2>1 DEF IsUnanswered
  <2>2. CASE IsAnswered(p)
    <3>1. PICK a \in DownPacket, d \in Seq(DownPacket) : down' = Append(d, a) /\ Reply(p, a) /\ Early(p, a, d)
      BY <2>2 DEF IsAnswered
    <3>2. Cardinality(At(d, {"PINGRESP"})) = y
      <4>1. CASE d = down
        BY <4>1
      <4>2. ASSUME NEW e \in DownPacket, e.type = "PUBLISH1", d = Append(down, e)
            PROVE  Cardinality(At(d, {"PINGRESP"})) = y
        BY <1>2, <4>2, CountAppended
      <4> QED BY <3>1, <4>1, <4>2 DEF Early
    <3>3. Cardinality(At(Append(d, a), {"PINGRESP"})) =
            IF a.type \in {"PINGRESP"} THEN Cardinality(At(d, {"PINGRESP"})) + 1
                                       ELSE Cardinality(At(d, {"PINGRESP"}))
      BY CountAppended
    <3>4. a.type \in {"PINGRESP"} <=> p.type = "PINGREQ"
      BY <3>1 DEF Reply
    <3> QED BY <3>1, <3>2, <3>3, <3>4
  <2> QED BY <2>1, <2>2, BrokerServes
<1> HIDE DEF x, y
<1>6. Cardinality(At(c'.up, {"PINGREQ"})) + Cardinality(At(down', {"PINGRESP"})) <= c'.pings
  BY <1>1, <1>3, <1>4, <1>5
<1> QED BY <1>6 DEF Pinging

\* A message comes to an active subscription, and before the answer to an unsubscription.
LEMMA ServeHeard ==
    ASSUME IInv, BrokerReads
    PROVE  Hearing'
<1> DEFINE p == c.up[1]
<1>1. /\ c'.active = c.active /\ c'.pendingUnsub = c.pendingUnsub /\ c'.transport = c.transport
  BY BufferLeaves DEF Topic, Link
<1>2. ~ silent /\ UNCHANGED <<silent, flown, repeated>>
  BY BrokerServes
<1>3. CASE repeated
  BY <1>2, <1>3 DEF Hearing
<1>4. CASE ~ repeated
  <2>1. /\ \A m \in broker.acked : Orders(m) \subseteq flown
        /\ \A i \in At(c.up, {"PUBACK"}) : Orders(c.up[i].data) \subseteq flown
        /\ \A i \in At(down, {"PUBLISH", "PUBLISH1"}) : c.active /\ ~ Before(down, i, "UNSUBACK")
        /\ broker.session.subs => c.active /\ None(down, {"UNSUBACK"})
        /\ \A i \in At(c.up, {"SUBSCRIBE"}) :
              c.active /\ None(down, {"UNSUBACK"}) /\ ~ Before(c.up, i, "UNSUBSCRIBE")
        /\ c.transport = "open" =>
              /\ \A x, y \in c.pendingUnsub : x = y
              /\ ~ c.active => c.pendingUnsub = {}
    BY <1>2, <1>4 DEF IInv, Hearing
  <2>2. /\ p.type = "PUBACK" => 1 \in At(c.up, {"PUBACK"})
        /\ p.type = "SUBSCRIBE" => 1 \in At(c.up, {"SUBSCRIBE"})
        /\ p.type = "UNSUBSCRIBE" => 1 \in At(c.up, {"UNSUBSCRIBE"})
    <3>1. /\ 1 \in At(c.up, {"PUBACK"}) <=> p.type \in {"PUBACK"}
          /\ 1 \in At(c.up, {"SUBSCRIBE"}) <=> p.type \in {"SUBSCRIBE"}
          /\ 1 \in At(c.up, {"UNSUBSCRIBE"}) <=> p.type \in {"UNSUBSCRIBE"}
      BY BufferLeaves
    <3> QED BY <3>1
  <2>3. \A m \in broker'.acked : Orders(m) \subseteq flown'
    <3>1. CASE p.type = "PUBACK"
      <4>1. broker'.acked = broker.acked \cup {p.data}
        BY <3>1, BrokerServes
      <4>2. Orders(p.data) \subseteq flown
        BY <2>1, <2>2, <3>1
      <4> QED BY <1>2, <2>1, <4>1, <4>2
    <3>2. CASE p.type # "PUBACK"
      <4>1. broker'.acked = broker.acked
        BY <3>2, BrokerServes
      <4> QED BY <1>2, <2>1, <4>1
    <3> QED BY <3>1, <3>2
  <2>4. \A i \in At(c'.up, {"PUBACK"}) : Orders(c'.up[i].data) \subseteq flown'
    BY <1>2, <2>1, BufferLeaves
  \* An answer to an unsubscription comes only when one is read
  <2>5. \A i \in At(down', {"UNSUBACK"}) : i \in At(down, {"UNSUBACK"}) \/ (i > Len(down) /\ p.type = "UNSUBSCRIBE")
    <3> SUFFICES ASSUME NEW i \in At(down', {"UNSUBACK"}), i \notin At(down, {"UNSUBACK"})
                 PROVE  i > Len(down) /\ p.type = "UNSUBSCRIBE"
      OBVIOUS
    <3>1. i > Len(down) /\ Reply(p, down'[i]) /\ down'[i].type \in {"UNSUBACK"}
      BY BrokerSends
    <3> QED BY <3>1 DEF Reply
  <2>6. None(down, {"UNSUBACK"}) /\ p.type # "UNSUBSCRIBE" => None(down', {"UNSUBACK"})
    <3>1. None(down, {"UNSUBACK"}) => At(down, {"UNSUBACK"}) = {}
      BY NoneAt
    <3>2. At(down', {"UNSUBACK"}) = {} => None(down', {"UNSUBACK"})
      BY NoneAt
    <3> QED BY <2>5, <3>1, <3>2
  <2>7. ASSUME NEW i \in At(down', {"PUBLISH", "PUBLISH1"})
        PROVE  c.active /\ ~ Before(down', i, "UNSUBACK")
    <3>1. CASE i \in At(down, {"PUBLISH", "PUBLISH1"})
      <4>1. c.active /\ ~ Before(down, i, "UNSUBACK")
        BY <2>1, <3>1
      <4>2. i \in Nat /\ i <= Len(down) /\ Len(down) \in Nat
        BY <3>1, BrokerSends
      <4>3. ASSUME NEW j \in At(down', {"UNSUBACK"}), j < i PROVE FALSE
        <5>1. j \in Nat
          BY BrokerSends
        <5>2. j \in At(down, {"UNSUBACK"})
          BY <2>5, <4>2, <4>3, <5>1
        <5> QED BY <4>1, <4>3, <5>2 DEF Before
      <4> QED BY <4>1, <4>3 DEF Before
    <3>2. CASE p.type = "SUBSCRIBE"
      <4>1. c.active /\ None(down, {"UNSUBACK"})
        BY <2>1, <2>2, <3>2
      <4>2. At(down', {"UNSUBACK"}) = {}
        BY <2>6, <3>2, <4>1, NoneAt
      <4> QED BY <4>1, <4>2 DEF Before
    <3>3. i \in At(down, {"PUBLISH", "PUBLISH1"}) \/ p.type = "SUBSCRIBE" \/
          (Reply(p, down'[i]) /\ down'[i].type \in {"PUBLISH", "PUBLISH1"})
      BY BrokerSends
    <3>4. ~ (Reply(p, down'[i]) /\ down'[i].type \in {"PUBLISH", "PUBLISH1"})
      BY DEF Reply
    <3> QED BY <3>1, <3>2, <3>3, <3>4
  <2>8. broker'.session.subs => c.active /\ None(down', {"UNSUBACK"})
    <3>1. CASE p.type = "UNSUBSCRIBE"
      BY <3>1, BrokerServes
    <3>2. CASE p.type = "SUBSCRIBE"
      BY <2>1, <2>2, <2>6, <3>2
    <3>3. CASE p.type \notin {"SUBSCRIBE", "UNSUBSCRIBE"}
      <4>1. broker'.session.subs = broker.session.subs
        BY <3>3, BrokerServes
      <4> QED BY <2>1, <2>6, <3>3, <4>1
    <3> QED BY <3>1, <3>2, <3>3
  <2>9. ASSUME NEW i \in At(c'.up, {"SUBSCRIBE"})
        PROVE  c.active /\ None(down', {"UNSUBACK"}) /\ ~ Before(c'.up, i, "UNSUBSCRIBE")
    <3>1. i \in Nat /\ i >= 1 /\ i + 1 \in At(c.up, {"SUBSCRIBE"})
      BY BufferLeaves
    <3>2. c.active /\ None(down, {"UNSUBACK"}) /\ ~ Before(c.up, i + 1, "UNSUBSCRIBE")
      BY <2>1, <3>1
    <3>3. p.type # "UNSUBSCRIBE"
      <4>1. 1 < i + 1
        BY <3>1
      <4> QED BY <2>2, <3>2, <4>1 DEF Before
    <3>4. ASSUME NEW j \in At(c'.up, {"UNSUBSCRIBE"}), j < i PROVE FALSE
      <4>1. j \in Nat /\ j + 1 \in At(c.up, {"UNSUBSCRIBE"})
        BY BufferLeaves
      <4>2. j + 1 < i + 1
        BY <3>1, <3>4, <4>1
      <4> QED BY <3>2, <4>1, <4>2 DEF Before
    <3> QED BY <2>6, <3>2, <3>3, <3>4 DEF Before
  <2> QED BY <1>1, <2>1, <2>3, <2>4, <2>7, <2>8, <2>9 DEF Hearing
<1> QED BY <1>3, <1>4

\* A packet is read by the broker.
LEMMA BrokerReadsKeeps ==
    ASSUME IInv, BrokerReads
    PROVE  IInv' /\ Fresh
<1>1. c'.counter = c.counter
  BY BufferLeaves
<1> QED BY <1>1, ServeLinked, ServeExchanged, ServeSubscribed, ServeReceived, ServeHeard, ServePinged
        DEF IInv, Fresh

\* A command is sent to a subscribed client.
LEMMA BrokerPublishesKeeps ==
    ASSUME IInv, NEW m \in Commands, NEW type \in {"PUBLISH", "PUBLISH1"}, BrokerPublishes(m, type)
    PROVE  IInv' /\ Fresh
<1> DEFINE e == Packet(type, 1, m)
<1>1. /\ broker.session.subs /\ ~ silent /\ down' = Append(down, e)
      /\ UNCHANGED <<c, broker, silent, flown, sent, repeated>>
  BY DEF BrokerPublishes
<1>2. e \in DownPacket /\ e.type = type /\ e.data = m
  BY DEF Packet, DownPacket, DownType, Data
<1> HIDE DEF e
<1>3. /\ down \in Seq(DownPacket) /\ down' \in Seq(DownPacket) /\ Len(down) \in Nat
      /\ \A i \in 1..Len(down) : down'[i] = down[i]
      /\ Len(down') = Len(down) + 1 /\ down'[Len(down) + 1] = e
  BY <1>1, <1>2, IsTyped, Appended
<1>4. ASSUME NEW T, type \notin T
      PROVE  /\ At(down', T) = At(down, T) /\ (None(down', T) <=> None(down, T))
             /\ \A i \in At(down, T) : down'[i] = down[i]
  <2>1. e.type \notin T
    BY <1>2, <1>4
  <2> QED BY <1>1, <1>2, <1>3, <2>1, AppendedAt
<1>5. /\ At(down', {"PUBLISH", "PUBLISH1"}) = At(down, {"PUBLISH", "PUBLISH1"}) \cup {Len(down) + 1}
      /\ \A i \in At(down, {"PUBLISH", "PUBLISH1"}) : down'[i] = down[i]
  <2>1. e.type \in {"PUBLISH", "PUBLISH1"}
    BY <1>2
  <2> QED BY <1>1, <1>2, <1>3, <2>1, AppendedAt
<1>6. /\ At(down', {"SUBACK"}) = At(down, {"SUBACK"}) /\ At(down', {"UNSUBACK"}) = At(down, {"UNSUBACK"})
      /\ At(down', {"PUBACK", "PUBREC"}) = At(down, {"PUBACK", "PUBREC"})
      /\ At(down', {"PINGRESP"}) = At(down, {"PINGRESP"})
      /\ None(down', {"CONNACK"}) <=> None(down, {"CONNACK"})
      /\ None(down', {"UNSUBACK"}) <=> None(down, {"UNSUBACK"})
      /\ \A i \in At(down, {"SUBACK"}) : down'[i] = down[i]
      /\ \A i \in At(down, {"PUBACK", "PUBREC"}) : down'[i] = down[i]
  BY <1>4
<1>7. Typed'
  BY <1>1, <1>2, <1>3, <1>5 DEF IInv, Typed
<1>8. Talking
  BY <1>1 DEF IInv, Phases, Shut, Opening, Shaking, Hushed
<1>9. Phases'
  BY <1>1, <1>6, <1>8 DEF Phases, Talking
<1>10. Understood'
  <2>1. Len(down) > 0 => Len(down') > 0 /\ down'[1] = down[1]
    BY <1>3
  <2> QED BY <1>1, <2>1 DEF IInv, Understood
<1>11. Exchanges'
  <2>1. /\ Flight(c.up, down, {"SUBSCRIBE"}, {"SUBACK"}, c.pendingAck)
        /\ Flight(c.up, down, {"UNSUBSCRIBE"}, {"UNSUBACK"}, c.pendingUnsub)
        /\ Flight(c.up, down, {"PUBLISH1", "PUBLISH2"}, {"PUBACK", "PUBREC"}, Ids(c.pendingMsg))
    BY <1>1 DEF IInv, Exchanges
  <2>2. e.type \notin {"SUBACK"} /\ e.type \notin {"UNSUBACK"} /\ e.type \notin {"PUBACK", "PUBREC"}
    BY <1>2
  <2>3. Flight(c.up, down', {"SUBSCRIBE"}, {"SUBACK"}, c.pendingAck)
    BY <1>1, <1>2, <1>3, <2>1, <2>2, FlightAdds
  <2>4. Flight(c.up, down', {"UNSUBSCRIBE"}, {"UNSUBACK"}, c.pendingUnsub)
    BY <1>1, <1>2, <1>3, <2>1, <2>2, FlightAdds
  <2>5. Flight(c.up, down', {"PUBLISH1", "PUBLISH2"}, {"PUBACK", "PUBREC"}, Ids(c.pendingMsg))
    BY <1>1, <1>2, <1>3, <2>1, <2>2, FlightAdds
  <2> QED BY <1>1, <2>3, <2>4, <2>5 DEF Exchanges
<1>12. Subscriptions'
  BY <1>1, <1>6 DEF IInv, Subscriptions
<1>13. Receipts'
  BY <1>1, <1>6, ZenonT(30) DEF IInv, Receipts
<1>14. Pinging'
  BY <1>1, <1>6 DEF IInv, Pinging
<1>15. Hearing'
  <2>1. CASE repeated
    BY <1>1, <2>1 DEF Hearing
  <2>2. CASE ~ repeated
    <3>1. c.active /\ None(down, {"UNSUBACK"})
      BY <1>1, <2>2 DEF IInv, Hearing
    <3>2. At(down', {"UNSUBACK"}) = {}
      BY <1>6, <3>1, NoneAt
    <3>3. \A i : ~ Before(down', i, "UNSUBACK")
      BY <3>2 DEF Before
    <3> QED BY <1>1, <1>6, <2>2, <3>1, <3>3 DEF IInv, Hearing
  <2> QED BY <2>1, <2>2
<1> QED BY <1>1, <1>7, <1>9, <1>10, <1>11, <1>12, <1>13, <1>14, <1>15 DEF IInv, Fresh

-----------------------------------------------------------------------------
(* The theorems *)

\* Every step keeps the invariant, and takes no identifier that is in use.
LEMMA StepKeeps ==
    ASSUME IInv, [Next]_vars
    PROVE  IInv' /\ Fresh
<1>1. ASSUME NEW host \in BOOLEAN, Start(host) PROVE IInv' /\ Fresh
  BY <1>1, StartKeeps
<1>2. ASSUME NEW flushed \in BOOLEAN, Stop(flushed) PROVE IInv' /\ Fresh
  BY <1>2, StopKeeps
<1>3. CASE OnReportingTimer \/ OnPingTimer
  BY <1>3, OnReportingTimerKeeps, OnPingTimerKeeps
<1>4. CASE Library
  BY <1>4, PublishKeeps, SubscribeKeeps, UnsubscribeKeeps, DisconnectKeeps DEF Library
<1>5. CASE ReadHeader \/ ReadBody
  BY <1>5, ReadHeaderKeeps, ReadBodyKeeps
<1>6. CASE SocketConnected \/ SocketFails \/ PeerFallsSilent \/ BrokerReads
  BY <1>6, SocketConnectedKeeps, SocketFailsKeeps, PeerFallsSilentKeeps, BrokerReadsKeeps
<1>7. ASSUME NEW m \in Commands, NEW type \in {"PUBLISH", "PUBLISH1"}, BrokerPublishes(m, type)
      PROVE  IInv' /\ Fresh
  BY <1>7, BrokerPublishesKeeps
<1>8. CASE UNCHANGED vars
  BY <1>8, SameKeeps DEF vars
<1> QED BY <1>1, <1>2, <1>3, <1>4, <1>5, <1>6, <1>7, <1>8 DEF Next, External

\* The inductive invariant holds in every state.
LEMMA Consistent == Spec => []IInv
<1>1. IInv /\ [Next]_vars => IInv'
  BY StepKeeps
<1> QED BY <1>1, InitKeeps, PTL DEF Spec

\* The types of the client's record; a broker that keeps to the protocol is never taken for one
\* that violates it, whatever was lost in the middle of a packet; a subscription that says it is
\* subscribed is one of the broker's; and nothing is reported as sent that the broker has not got
\* (QMqttConnection::processDataHelper and its finalize functions).
THEOREM BrokerAndClientAgree == Spec => []Inv
<1>1. IInv => Inv
  <2> SUFFICES ASSUME IInv PROVE Inv
    OBVIOUS
  <2>1. c \in Client /\ flown \subseteq Commands \X Vehicles /\ sent \subseteq Messages
    BY DEF IInv, Typed
  <2>2. /\ c.state \in {"Disconnected", "Connecting", "Connected"}
        /\ c.error \in {"NoError", "TransportInvalid", "ServerUnavailable", "Refused"}
        /\ c.internal \in {"BrokerDisconnected", "BrokerConnecting", "BrokerWaitForConnectAck", "BrokerConnected"}
        /\ c.transport \in {"none", "opening", "open", "closed", "freed", "undefined"}
    BY <2>1 DEF Client
  <2>3. /\ c.pingTimer \in BOOLEAN /\ c.timer \in BOOLEAN /\ c.active \in BOOLEAN /\ c.pings \in 0..2
        /\ c.sub \in SubState
    BY <2>1 DEF Client, Counts
  <2>4. /\ c.counter \in 1..MaxId /\ c.subId \in 0..MaxId
        /\ (c.pendingAck \cup c.pendingUnsub) \subseteq 1..MaxId
    BY <2>1, MqttAssumption DEF Client, Identifiers, SubIds
  <2>5. Strings(c.pendingMsg) /\ Strings(c.pendingRel)
    BY <2>1 DEF Client, Waiting, Strings, Identifiers
  <2>6. TypeOK
    BY <2>1, <2>2, <2>3, <2>4, <2>5 DEF TypeOK, SubState
  <2>7. BrokerIsUnderstood
    BY <2>2 DEF BrokerIsUnderstood
  <2>8. SubscriptionAgrees /\ SentIsReceived
    BY DEF IInv, Subscriptions, Receipts, SubscriptionAgrees, SentIsReceived
  <2> QED BY <2>6, <2>7, <2>8 DEF Inv
<1> QED BY <1>1, Consistent, PTL

\* Telemetry is reported exactly while the client and the connection under it agree that they
\* are connected (VKMqttClient::onClientConnected, onClientDisconnected, stop).
THEOREM ReportsFollowTheConnection == Spec => []ReportsWhileConnected
<1>1. IInv => ReportsWhileConnected
  BY DEF IInv, Phases, Shut, Opening, Shaking, Talking, Hushed, Unsaid, ReportsWhileConnected
<1> QED BY <1>1, Consistent, PTL

\* What the broker knows to have been received has been carried out, unless an unsubscription was
\* repeated while one was under way (QMqttConnection::finalize_publish, finalize_unsuback).
THEOREM AcknowledgedIsCarriedOut == Spec => []AckedIsFlown
<1>1. IInv => AckedIsFlown
  BY DEF IInv, Hearing, AckedIsFlown
<1> QED BY <1>1, Consistent, PTL

\* A new packet identifier is not one that still waits for an answer, those left by lost
\* connections included (QMqttConnection::unusedPacketIdentifier).
THEOREM IdentifiersAreUnused == Spec => NewIdIsUnused
<1>1. IInv /\ [Next]_vars => [c'.counter # c.counter => c'.counter \notin InUse(c)]_vars
  BY StepKeeps DEF Fresh
<1> QED BY <1>1, Consistent, PTL DEF Spec, NewIdIsUnused
=============================================================================

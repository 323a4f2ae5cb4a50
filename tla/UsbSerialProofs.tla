--------------------------- MODULE UsbSerialProofs ---------------------------
(***************************************************************************)
(* Proofs about UsbSerial, for every set of devices, clients and scenes.   *)
(***************************************************************************)
EXTENDS UsbSerial, SequenceTheorems, TLAPS

Steps == {"driver", "parameters", "create", "exists", "store", "ptr"}
Closing == {"stop", "remove", "close"}
Entry == [ioManager : Client \cup {None}, classPtr : Client \cup {None}]
Intent == [kind : {"attached", "detached", "granted", "denied"}, dev : Device]

\* What the variables are made of
Types ==
    /\ where \in [Device -> {"new", "in", "gone"}]
    /\ intents \in Seq(Intent)
    /\ port \in [Device -> Client \cup {None}] /\ dev \in [Client -> Device \cup {None}]
    /\ client \in [Client -> {"new", "opening", "held", "closing", "closed", "failed"}]
    /\ call \in [at : {"idle"} \cup Steps \cup Closing,
                 by : Client \cup {None}, dev : Device \cup {None}]
    /\ io \in [Client -> {"none", "made", "running", "stopping", "stopped"}]
    /\ lost \in [Client -> {"no", "opening", "replaced", "stale"}]
    /\ \A d \in DOMAIN resources : resources[d] \in Entry

\* A broadcast of the end of a device comes after it
EndsAreTrue ==
    \A i \in DOMAIN intents : intents[i].kind = "detached" => where[intents[i].dev] = "gone"

\* The call that is under way is that of the one client that is opening or closing
CallIsOfClient ==
    /\ call.at # "idle" =>
          /\ call.by \in Client /\ call.dev \in Device /\ dev[call.by] = call.dev
          /\ client[call.by] = IF call.at \in Closing THEN "closing" ELSE "opening"
    /\ \A c \in Client : client[c] \in {"opening", "closing"} => call.at # "idle" /\ call.by = c

\* A client past port.open and not past port.close has the port of its device
HasPort(c) ==
    client[c] \in {"held", "closing"} \/ (client[c] = "opening" /\ call.at # "driver")
PortIsOfClient ==
    /\ \A c \in Client : HasPort(c) => dev[c] \in Device /\ port[dev[c]] = c
    /\ \A c \in Client : client[c] = "closed" => dev[c] \in Device
    /\ \A d \in Device, c \in Client :
          port[d] = c => dev[c] = d /\ (HasPort(c) \/ client[c] = "failed")

\* The manager in the map is that of the client the port was opened for
ManagerIsOfPort ==
    /\ \A d \in DOMAIN resources :
          LET m == resources[d].ioManager
          IN  m # None => d \in Device /\ port[d] = m /\ io[m] # "none"
    /\ \A c \in Client :
          client[c] = "new" \/ (client[c] = "opening" /\ call.at # "ptr") => io[c] = "none"
    /\ call.at = "close" /\ call.dev \in DOMAIN resources => resources[call.dev].ioManager = None

\* A client wants only devices that have come.  As long as nothing came between, the map
\* leads to the manager from the end of createIoManager to the first step of close, and
\* after that the manager is stopped
Reached(c) ==
    LET d == dev[c]
    IN  /\ d \in Device => where[d] # "new"
        /\ lost[c] = "no" /\ d \in Device /\ where[d] = "in" =>
              /\ client[c] = "held" \/ (client[c] = "opening" /\ call.at = "ptr")
                                    \/ (client[c] = "closing" /\ call.at = "stop") =>
                    d \in DOMAIN resources /\ resources[d].ioManager = c
              /\ client[c] = "held" => resources[d].classPtr = c
              /\ client[c] = "closed" \/ (client[c] = "closing" /\ call.at # "stop") =>
                    io[c] # "running"

IInv == /\ Types /\ EndsAreTrue /\ CallIsOfClient /\ PortIsOfClient /\ ManagerIsOfPort
        /\ DOMAIN resources \subseteq drivers
        /\ \A c \in Client : Reached(c)

-----------------------------------------------------------------------------
(* The map against the devices that are there *)

Pending(kind, d) == \E i \in DOMAIN intents : intents[i].kind = kind /\ intents[i].dev = d
Adding(d) == receiver.at = "add" /\ receiver.dev = d
Found(d) == receiver.at = "update" /\ d \in receiver.found

\* What the other variables are made of; nobody listens after cleanup
Others ==
    /\ granted \subseteq Device /\ drivers \subseteq Device /\ told \subseteq Client
    /\ asked \in [Device -> Nat] /\ registered \in BOOLEAN
    /\ receiver \in [at : {"idle", "scan"}] \cup [at : {"add"}, dev : Device]
                    \cup [at : {"update"}, found : SUBSET Device]
    /\ ~registered => receiver = Idle /\ intents = <<>>

\* What the receiver works on has come to the port
HaveCome ==
    /\ \A d \in Device : where[d] = "new" => d \notin drivers /\ ~Found(d)
    /\ \A d \in Device : Adding(d) => d \in drivers

\* What the receiver keeps or is about to add of a device that is gone, the broadcast of
\* its end, still on its way, will take out
EndsAreToldOf ==
    registered => \A d \in Device :
        where[d] = "gone" /\ (d \in DOMAIN resources \/ Adding(d) \/ Found(d))
            => Pending("detached", d)

\* A device that is there and not in the map was closed, or its broadcast or a scan will
\* find it; and a scan misses only devices that are not known yet
WillBeFound ==
    /\ registered => \A d \in Device :
          where[d] = "in" /\ d \notin DOMAIN resources
              => \/ d \in ClosedOnce
                 \/ /\ d \notin drivers
                    /\ Pending("attached", d) \/ receiver.at = "scan" \/ Found(d)
    /\ \A d \in Device : receiver.at = "update" /\ where[d] = "in" /\ ~Found(d) => d \notin drivers

\* A device is asked for once when its driver is added first, and once when its one
\* attachment is handled after that
Fresh(d) == where[d] = "new" \/ (d \notin drivers /\ (where[d] = "in" \/ Found(d)))
AttachedOnce ==
    \A i, j \in DOMAIN intents :
        intents[i].kind = "attached" /\ intents[j].kind = "attached"
            /\ intents[i].dev = intents[j].dev => i = j
AskedTwice ==
    /\ \A d \in Device : Fresh(d) => asked[d] = 0
    /\ \A d \in Device : asked[d] <= 2
    /\ \A d \in Device :
          Pending("attached", d) \/ (Adding(d) /\ d \notin granted) => asked[d] <= 1
    /\ \A d \in Device :
          where[d] = "new" \/ (Adding(d) /\ d \notin granted) => ~Pending("attached", d)
    /\ AttachedOnce
    /\ \A d \in Device : Pending("granted", d) => d \in granted

MInv == Others /\ HaveCome /\ EndsAreToldOf /\ WillBeFound /\ AskedTwice

-----------------------------------------------------------------------------
(* Ports, calls and managers *)

USE NoneAssumption DEF android, broadcasts, native, collections, history, Steps, Closing

\* A broadcast that is true when it is sent stays so.
LEMMA BroadcastIsTrue ==
    ASSUME Types, EndsAreTrue, NEW i \in Intent, Broadcast(i),
           \A d \in Device : where[d] = "gone" => where'[d] = "gone",
           i.kind = "detached" => where'[i.dev] = "gone"
    PROVE  intents' \in Seq(Intent) /\ EndsAreTrue'
<1>1. intents' \in Seq(Intent)
  <2>1. intents \in Seq(Intent)
    BY DEF Types
  <2> QED  BY <2>1, AppendProperties DEF Broadcast
<1>2. ASSUME NEW k \in DOMAIN intents'
      PROVE  (k \in DOMAIN intents /\ intents'[k] = intents[k]) \/ intents'[k] = i
  <2>1. intents \in Seq(Intent)
    BY DEF Types
  <2>2. CASE registered
    <3>1. intents' = Append(intents, i)
      BY <2>2 DEF Broadcast
    <3> QED  BY <2>1, <3>1, AppendProperties
  <2>3. CASE ~registered
    BY <2>3 DEF Broadcast
  <2> QED  BY <2>2, <2>3
<1>3. ASSUME NEW k \in DOMAIN intents', intents'[k].kind = "detached"
      PROVE  where'[intents'[k].dev] = "gone"
  <2>1. CASE intents'[k] = i
    BY <1>3, <2>1
  <2>2. CASE k \in DOMAIN intents /\ intents'[k] = intents[k]
    <3>1. intents[k] \in Intent
      BY <2>2 DEF Types
    <3>2. intents[k].dev \in Device
      BY <3>1 DEF Intent
    <3> QED  BY <1>3, <2>2, <3>2 DEF EndsAreTrue
  <2> QED  BY <1>2, <2>1, <2>2
<1> QED  BY <1>1, <1>3 DEF EndsAreTrue

\* What is left of true broadcasts is true, and so is the first.
LEMMA ReceivedIsTrue ==
    ASSUME Types, EndsAreTrue, NEW kind, Receive(kind), UNCHANGED where
    PROVE  /\ intents' \in Seq(Intent) /\ EndsAreTrue'
           /\ Head(intents) \in Intent
           /\ kind = "detached" => where[Head(intents).dev] = "gone"
<1>1. /\ Head(intents) \in Intent /\ Tail(intents) \in Seq(Intent)
      /\ Len(Tail(intents)) = Len(intents) - 1
      /\ \A k \in 1..Len(Tail(intents)) : Tail(intents)[k] = intents[k + 1]
  BY HeadTailProperties DEF Receive, Types
<1>2. /\ Head(intents) = intents[1] /\ Len(intents) \in Nat /\ Len(intents) # 0
      /\ DOMAIN intents = 1..Len(intents) /\ DOMAIN Tail(intents) = 1..(Len(intents) - 1)
  BY <1>1, EmptySeq DEF Receive, Types
<1>3. \A k \in DOMAIN Tail(intents) :
         k + 1 \in DOMAIN intents /\ Tail(intents)[k] = intents[k + 1]
  BY <1>1, <1>2
<1>4. 1 \in DOMAIN intents
  BY <1>2
<1> QED  BY <1>1, <1>2, <1>3, <1>4 DEF Receive, EndsAreTrue

\* Nothing is open and nothing has been broadcast.
LEMMA InitIsSafe == Init => IInv
<1> SUFFICES ASSUME Init PROVE IInv
  OBVIOUS
<1> USE DEF Init, NoCall
<1>1. Types /\ EndsAreTrue
  BY EmptySeq DEF Types, Entry, EndsAreTrue
<1>2. CallIsOfClient /\ PortIsOfClient
  BY DEF CallIsOfClient, PortIsOfClient, HasPort
<1>3. ManagerIsOfPort /\ DOMAIN resources \subseteq drivers
  BY DEF ManagerIsOfPort
<1>4. \A c \in Client : Reached(c)
  BY DEF Reached
<1> QED  BY <1>1, <1>2, <1>3, <1>4 DEF IInv

\* A device that comes was wanted by nobody before.
LEMMA AttachKeeps == ASSUME IInv, NEW d \in Device, Attach(d) PROVE IInv'
<1> USE DEF IInv, Attach, Broadcast
<1>1. Types'
  <2>1. Types /\ EndsAreTrue
    OBVIOUS
  <2>2. intents' \in Seq(Intent) /\ EndsAreTrue'
    <3> DEFINE i == [kind |-> "attached", dev |-> d]
    <3>1. i \in Intent /\ Broadcast(i)
      BY DEF Intent
    <3>2. \A e \in Device : where[e] = "gone" => where'[e] = "gone"
      BY DEF Types
    <3>3. i.kind = "detached" => where'[i.dev] = "gone"
      BY DEF Types
    <3> HIDE DEF i
    <3> QED  BY <2>1, <3>1, <3>2, <3>3, BroadcastIsTrue
  <2> QED  BY <2>2 DEF Types, Entry
<1>2. EndsAreTrue'
  BY DEF Types, Intent, EndsAreTrue
<1>3. CallIsOfClient'
  BY DEF Types, CallIsOfClient
<1>4. PortIsOfClient'
  BY DEF Types, CallIsOfClient, PortIsOfClient, HasPort
<1>5. ManagerIsOfPort'
  BY DEF Types, Entry, CallIsOfClient, PortIsOfClient, HasPort, ManagerIsOfPort
<1>6. (DOMAIN resources \subseteq drivers)'
  BY DEF Types
<1>7. \A b \in Client : Reached(b)'
  BY DEF Types, Entry, EndsAreTrue, Intent, CallIsOfClient, PortIsOfClient, HasPort,
         ManagerIsOfPort, Reached
<1> QED  BY <1>1, <1>2, <1>3, <1>4, <1>5, <1>6, <1>7

\* A device that is gone is told of once, after it has gone.
LEMMA DetachKeeps == ASSUME IInv, NEW d \in Device, Detach(d) PROVE IInv'
<1> USE DEF IInv, Detach, Broadcast
<1>1. Types'
  <2>1. Types /\ EndsAreTrue
    OBVIOUS
  <2>2. intents' \in Seq(Intent) /\ EndsAreTrue'
    <3> DEFINE i == [kind |-> "detached", dev |-> d]
    <3>1. i \in Intent /\ Broadcast(i)
      BY DEF Intent
    <3>2. \A e \in Device : where[e] = "gone" => where'[e] = "gone"
      BY DEF Types
    <3>3. i.kind = "detached" => where'[i.dev] = "gone"
      BY DEF Types
    <3> HIDE DEF i
    <3> QED  BY <2>1, <3>1, <3>2, <3>3, BroadcastIsTrue
  <2> QED  BY <2>2 DEF Types, Entry
<1>2. EndsAreTrue'
  BY DEF Types, Intent, EndsAreTrue
<1>3. CallIsOfClient'
  BY DEF Types, CallIsOfClient
<1>4. PortIsOfClient'
  BY DEF Types, CallIsOfClient, PortIsOfClient, HasPort
<1>5. ManagerIsOfPort'
  BY DEF Types, Entry, CallIsOfClient, PortIsOfClient, HasPort, ManagerIsOfPort
<1>6. (DOMAIN resources \subseteq drivers)'
  BY DEF Types
<1>7. \A b \in Client : Reached(b)'
  BY DEF Types, Entry, EndsAreTrue, Intent, CallIsOfClient, PortIsOfClient, HasPort,
         ManagerIsOfPort, Reached
<1> QED  BY <1>1, <1>2, <1>3, <1>4, <1>5, <1>6, <1>7

\* An answer to a request for permission changes neither map nor ports.
LEMMA AnswerRequestKeeps ==
    ASSUME IInv, NEW d \in Device, NEW yes \in BOOLEAN, AnswerRequest(d, yes)
    PROVE  IInv'
<1> USE DEF IInv, AnswerRequest, Broadcast
<1>1. Types'
  <2>1. Types /\ EndsAreTrue
    OBVIOUS
  <2>2. intents' \in Seq(Intent) /\ EndsAreTrue'
    <3> DEFINE i == [kind |-> IF yes THEN "granted" ELSE "denied", dev |-> d]
    <3>1. i \in Intent /\ Broadcast(i)
      BY DEF Intent
    <3>2. \A e \in Device : where[e] = "gone" => where'[e] = "gone"
      BY DEF Types
    <3>3. i.kind = "detached" => where'[i.dev] = "gone"
      BY DEF Types
    <3> HIDE DEF i
    <3> QED  BY <2>1, <3>1, <3>2, <3>3, BroadcastIsTrue
  <2> QED  BY <2>2 DEF Types, Entry
<1>2. EndsAreTrue'
  BY DEF Types, Intent, EndsAreTrue
<1>3. CallIsOfClient'
  BY DEF Types, CallIsOfClient
<1>4. PortIsOfClient'
  BY DEF Types, CallIsOfClient, PortIsOfClient, HasPort
<1>5. ManagerIsOfPort'
  BY DEF Types, Entry, CallIsOfClient, PortIsOfClient, HasPort, ManagerIsOfPort
<1>6. (DOMAIN resources \subseteq drivers)'
  BY DEF Types
<1>7. \A b \in Client : Reached(b)'
  BY DEF Types, Entry, EndsAreTrue, Intent, CallIsOfClient, PortIsOfClient, HasPort,
         ManagerIsOfPort, Reached
<1> QED  BY <1>1, <1>2, <1>3, <1>4, <1>5, <1>6, <1>7

\* Without broadcasts there is nothing to be true of them.
LEMMA CleanupKeeps == ASSUME IInv, Cleanup PROVE IInv'
<1> USE DEF IInv, Cleanup
<1>1. Types'
  BY DEF Types, Entry, Intent
<1>2. EndsAreTrue'
  BY DEF Types, Intent, EndsAreTrue
<1>3. CallIsOfClient'
  BY DEF Types, CallIsOfClient
<1>4. PortIsOfClient'
  BY DEF Types, CallIsOfClient, PortIsOfClient, HasPort
<1>5. ManagerIsOfPort'
  BY DEF Types, Entry, CallIsOfClient, PortIsOfClient, HasPort, ManagerIsOfPort
<1>6. (DOMAIN resources \subseteq drivers)'
  BY DEF Types
<1>7. \A b \in Client : Reached(b)'
  BY DEF Types, Entry, EndsAreTrue, Intent, CallIsOfClient, PortIsOfClient, HasPort,
         ManagerIsOfPort, Reached
<1> QED  BY <1>1, <1>2, <1>3, <1>4, <1>5, <1>6, <1>7

\* The look into the map changes nothing.
LEMMA ReceiveDeviceKeeps == ASSUME IInv, ReceiveDevice PROVE IInv'
<1> USE DEF IInv, ReceiveDevice, Receive, Scan
<1>a. intents' \in Seq(Intent) /\ EndsAreTrue'
  <2>1. Types /\ EndsAreTrue /\ UNCHANGED where
    OBVIOUS
  <2>2. Receive("attached") \/ Receive("granted")
    OBVIOUS
  <2> QED  BY <2>1, <2>2, ReceivedIsTrue
<1>1. Types'
  BY <1>a DEF Types, Entry
<1>2. EndsAreTrue'
  BY <1>a
<1>3. CallIsOfClient'
  BY DEF Types, CallIsOfClient
<1>4. PortIsOfClient'
  BY DEF Types, CallIsOfClient, PortIsOfClient, HasPort
<1>5. ManagerIsOfPort'
  BY DEF Types, Entry, CallIsOfClient, PortIsOfClient, HasPort, ManagerIsOfPort
<1>6. (DOMAIN resources \subseteq drivers)'
  BY DEF Types
<1>7. \A b \in Client : Reached(b)'
  BY DEF Types, Entry, EndsAreTrue, Intent, CallIsOfClient, PortIsOfClient, HasPort,
         ManagerIsOfPort, Reached
<1> QED  BY <1>1, <1>2, <1>3, <1>4, <1>5, <1>6, <1>7

\* A denial tells the client and changes nothing else.
LEMMA ReceiveDenialKeeps == ASSUME IInv, ReceiveDenial PROVE IInv'
<1> USE DEF IInv, ReceiveDenial, Receive, Scan, Tell
<1>1. Types'
  BY DEF Types, Entry, Intent
<1>2. EndsAreTrue'
  BY DEF Types, Intent, EndsAreTrue
<1>3. CallIsOfClient'
  BY DEF Types, CallIsOfClient
<1>4. PortIsOfClient'
  BY DEF Types, CallIsOfClient, PortIsOfClient, HasPort
<1>5. ManagerIsOfPort'
  BY DEF Types, Entry, CallIsOfClient, PortIsOfClient, HasPort, ManagerIsOfPort
<1>6. (DOMAIN resources \subseteq drivers)'
  BY DEF Types
<1>7. \A b \in Client : Reached(b)'
  BY DEF Types, Entry, EndsAreTrue, Intent, CallIsOfClient, PortIsOfClient, HasPort,
         ManagerIsOfPort, Reached
<1> QED  BY <1>1, <1>2, <1>3, <1>4, <1>5, <1>6, <1>7

\* The entry that is removed is that of a device that is gone, as the broadcast says.
LEMMA ReceiveDetachedKeeps == ASSUME IInv, ReceiveDetached PROVE IInv'
<1> USE DEF IInv, ReceiveDetached, Receive, Scan, Tell, Lose, UsersOf, Restrict
<1>1. Types'
  BY DEF Types, Entry, Intent
<1>2. EndsAreTrue'
  BY DEF Types, Intent, EndsAreTrue
<1>3. CallIsOfClient'
  BY DEF Types, CallIsOfClient
<1>4. PortIsOfClient'
  BY DEF Types, CallIsOfClient, PortIsOfClient, HasPort
<1>5. ManagerIsOfPort'
  BY DEF Types, Entry, CallIsOfClient, PortIsOfClient, HasPort, ManagerIsOfPort
<1>6. (DOMAIN resources \subseteq drivers)'
  BY DEF Types
<1>7. \A b \in Client : Reached(b)'
  BY DEF Types, Entry, EndsAreTrue, Intent, CallIsOfClient, PortIsOfClient, HasPort,
         ManagerIsOfPort, Reached
<1> QED  BY <1>1, <1>2, <1>3, <1>4, <1>5, <1>6, <1>7

\* New resources lose the client of the port they belong to.
LEMMA AddOrUpdateKeeps == ASSUME IInv, AddOrUpdate PROVE IInv'
<1> USE DEF IInv, AddOrUpdate, With, Lose, UsersOf, Resources, Scan, Request
<1>1. Types'
  BY DEF Types, Entry, Intent
<1>2. EndsAreTrue'
  BY DEF Types, Intent, EndsAreTrue
<1>3. CallIsOfClient'
  BY DEF Types, CallIsOfClient
<1>4. PortIsOfClient'
  BY DEF Types, CallIsOfClient, PortIsOfClient, HasPort
<1>5. ManagerIsOfPort'
  BY DEF Types, Entry, CallIsOfClient, PortIsOfClient, HasPort, ManagerIsOfPort
<1>6. (DOMAIN resources \subseteq drivers)'
  BY DEF Types
<1>7. \A b \in Client : Reached(b)'
  BY DEF Types, Entry, EndsAreTrue, Intent, CallIsOfClient, PortIsOfClient, HasPort,
         ManagerIsOfPort, Reached
<1> QED  BY <1>1, <1>2, <1>3, <1>4, <1>5, <1>6, <1>7

\* The scan changes nothing.
LEMMA FindAllDriversKeeps == ASSUME IInv, FindAllDrivers PROVE IInv'
<1> USE DEF IInv, FindAllDrivers
<1>1. Types'
  BY DEF Types, Entry, Intent
<1>2. EndsAreTrue'
  BY DEF Types, Intent, EndsAreTrue
<1>3. CallIsOfClient'
  BY DEF Types, CallIsOfClient
<1>4. PortIsOfClient'
  BY DEF Types, CallIsOfClient, PortIsOfClient, HasPort
<1>5. ManagerIsOfPort'
  BY DEF Types, Entry, CallIsOfClient, PortIsOfClient, HasPort, ManagerIsOfPort
<1>6. (DOMAIN resources \subseteq drivers)'
  BY DEF Types
<1>7. \A b \in Client : Reached(b)'
  BY DEF Types, Entry, EndsAreTrue, Intent, CallIsOfClient, PortIsOfClient, HasPort,
         ManagerIsOfPort, Reached
<1> QED  BY <1>1, <1>2, <1>3, <1>4, <1>5, <1>6, <1>7

\* A stale entry loses its client; a driver that is new had no entry.
LEMMA UpdateDriversKeeps == ASSUME IInv, UpdateDrivers PROVE IInv'
<1> USE DEF IInv, UpdateDrivers, NewDrivers, Lose, UsersOf, Resources, Request
<1>1. Types'
  BY DEF Types, Entry, Intent
<1>2. EndsAreTrue'
  BY DEF Types, Intent, EndsAreTrue
<1>3. CallIsOfClient'
  BY DEF Types, CallIsOfClient
<1>4. PortIsOfClient'
  BY DEF Types, CallIsOfClient, PortIsOfClient, HasPort
<1>5. ManagerIsOfPort'
  BY DEF Types, Entry, CallIsOfClient, PortIsOfClient, HasPort, ManagerIsOfPort
<1>6. (DOMAIN resources \subseteq drivers)'
  BY DEF Types
<1>7. \A b \in Client : Reached(b)'
  BY DEF Types, Entry, EndsAreTrue, Intent, CallIsOfClient, PortIsOfClient, HasPort,
         ManagerIsOfPort, Reached
<1> QED  BY <1>1, <1>2, <1>3, <1>4, <1>5, <1>6, <1>7

\* The device is there or gone; nobody else is in a call.
LEMMA OpenKeeps == ASSUME IInv, NEW d \in Device, NEW c \in Client, Open(c, d) PROVE IInv'
<1> USE DEF IInv, Open, NoCall
<1>1. Types'
  BY DEF Types, Entry, Intent
<1>2. EndsAreTrue'
  BY DEF Types, Intent, EndsAreTrue
<1>3. CallIsOfClient'
  BY DEF Types, CallIsOfClient
<1>4. PortIsOfClient'
  BY DEF Types, CallIsOfClient, PortIsOfClient, HasPort
<1>5. ManagerIsOfPort'
  BY DEF Types, Entry, CallIsOfClient, PortIsOfClient, HasPort, ManagerIsOfPort
<1>6. (DOMAIN resources \subseteq drivers)'
  BY DEF Types
<1>7. \A b \in Client : Reached(b)'
  BY DEF Types, Entry, EndsAreTrue, Intent, CallIsOfClient, PortIsOfClient, HasPort,
         ManagerIsOfPort, Reached
<1> QED  BY <1>1, <1>2, <1>3, <1>4, <1>5, <1>6, <1>7

\* The port was closed, so it belongs to no other client.
LEMMA OpenDriverKeeps == ASSUME IInv, OpenDriver PROVE IInv'
<1> USE DEF IInv, OpenDriver, At, Proceed, Fail, NoCall
<1>1. Types'
  BY DEF Types, Entry, Intent
<1>2. EndsAreTrue'
  BY DEF Types, Intent, EndsAreTrue
<1>3. CallIsOfClient'
  <2>1. CASE call'.at = "parameters" /\ UNCHANGED client
    BY <2>1 DEF Types, CallIsOfClient
  <2>2. CASE Fail
    BY <2>2 DEF Types, CallIsOfClient
  <2> QED  BY <2>1, <2>2 DEF Types, CallIsOfClient
<1>4. PortIsOfClient'
  BY DEF Types, CallIsOfClient, PortIsOfClient, HasPort
<1>5. ManagerIsOfPort'
  BY DEF Types, Entry, CallIsOfClient, PortIsOfClient, HasPort, ManagerIsOfPort
<1>6. (DOMAIN resources \subseteq drivers)'
  BY DEF Types
<1>7. \A b \in Client : Reached(b)'
  BY DEF Types, Entry, EndsAreTrue, Intent, CallIsOfClient, PortIsOfClient, HasPort,
         ManagerIsOfPort, Reached
<1> QED  BY <1>1, <1>2, <1>3, <1>4, <1>5, <1>6, <1>7

\* A refusal leaves the port open for a client that has failed.
LEMMA SetParametersKeeps == ASSUME IInv, SetParameters PROVE IInv'
<1> USE DEF IInv, SetParameters, Look, At, Proceed, Fail, NoCall
<1>1. Types'
  BY DEF Types, Entry, Intent
<1>2. EndsAreTrue'
  BY DEF Types, Intent, EndsAreTrue
<1>3. CallIsOfClient'
  BY DEF Types, CallIsOfClient
<1>4. PortIsOfClient'
  BY DEF Types, CallIsOfClient, PortIsOfClient, HasPort
<1>5. ManagerIsOfPort'
  BY DEF Types, Entry, CallIsOfClient, PortIsOfClient, HasPort, ManagerIsOfPort
<1>6. (DOMAIN resources \subseteq drivers)'
  BY DEF Types
<1>7. \A b \in Client : Reached(b)'
  BY DEF Types, Entry, EndsAreTrue, Intent, CallIsOfClient, PortIsOfClient, HasPort,
         ManagerIsOfPort, Reached
<1> QED  BY <1>1, <1>2, <1>3, <1>4, <1>5, <1>6, <1>7

\* The look into the map changes only where the call is.
LEMMA CreateIoManagerKeeps == ASSUME IInv, CreateIoManager PROVE IInv'
<1> USE DEF IInv, CreateIoManager, Look, At, Proceed, Fail, NoCall
<1>1. Types'
  <2>1. call' \in [at : {"idle"} \cup Steps \cup Closing,
                  by : Client \cup {None}, dev : Device \cup {None}]
    BY DEF Types, Steps
  <2>2. /\ client' \in [Client -> {"new", "opening", "held", "closing", "closed", "failed"}]
        /\ io' \in [Client -> {"none", "made", "running", "stopping", "stopped"}]
    BY DEF Types
  <2>3. \A d \in DOMAIN resources' : resources'[d] \in Entry
    BY DEF Types, Entry
  <2> QED  BY <2>1, <2>2, <2>3 DEF Types, Intent
<1>2. EndsAreTrue'
  BY DEF Types, Intent, EndsAreTrue
<1>3. CallIsOfClient'
  BY DEF Types, CallIsOfClient
<1>4. PortIsOfClient'
  BY DEF Types, CallIsOfClient, PortIsOfClient, HasPort
<1>5. ManagerIsOfPort'
  BY DEF Types, Entry, CallIsOfClient, PortIsOfClient, HasPort, ManagerIsOfPort
<1>6. (DOMAIN resources \subseteq drivers)'
  BY DEF Types
<1>7. \A b \in Client : Reached(b)'
  BY DEF Types, Entry, EndsAreTrue, Intent, CallIsOfClient, PortIsOfClient, HasPort,
         ManagerIsOfPort, Reached
<1> QED  BY <1>1, <1>2, <1>3, <1>4, <1>5, <1>6, <1>7

\* An entry of a port that was just opened has no manager.
LEMMA IoManagerExistsKeeps == ASSUME IInv, IoManagerExists PROVE IInv'
<1> USE DEF IInv, IoManagerExists, At, Proceed, Fail, NoCall
<1>1. Types'
  <2>1. call' \in [at : {"idle"} \cup Steps \cup Closing,
                  by : Client \cup {None}, dev : Device \cup {None}]
    BY DEF Types, Steps
  <2>2. /\ client' \in [Client -> {"new", "opening", "held", "closing", "closed", "failed"}]
        /\ io' \in [Client -> {"none", "made", "running", "stopping", "stopped"}]
    BY DEF Types
  <2>3. \A d \in DOMAIN resources' : resources'[d] \in Entry
    BY DEF Types, Entry
  <2> QED  BY <2>1, <2>2, <2>3 DEF Types, Intent
<1>2. EndsAreTrue'
  BY DEF Types, Intent, EndsAreTrue
<1>3. CallIsOfClient'
  BY DEF Types, CallIsOfClient
<1>4. PortIsOfClient'
  BY DEF Types, CallIsOfClient, PortIsOfClient, HasPort
<1>5. ManagerIsOfPort'
  BY DEF Types, Entry, CallIsOfClient, PortIsOfClient, HasPort, ManagerIsOfPort
<1>6. (DOMAIN resources \subseteq drivers)'
  BY DEF Types
<1>7. \A b \in Client : Reached(b)'
  BY DEF Types, Entry, EndsAreTrue, Intent, CallIsOfClient, PortIsOfClient, HasPort,
         ManagerIsOfPort, Reached
<1> QED  BY <1>1, <1>2, <1>3, <1>4, <1>5, <1>6, <1>7

\* The manager that is stored is that of the client of the port.
LEMMA StoreIoManagerKeeps == ASSUME IInv, StoreIoManager PROVE IInv'
<1> USE DEF IInv, StoreIoManager, Look, At, Proceed, Fail, NoCall
<1>1. Types'
  <2>1. call' \in [at : {"idle"} \cup Steps \cup Closing,
                  by : Client \cup {None}, dev : Device \cup {None}]
    BY DEF Types, Steps
  <2>2. /\ client' \in [Client -> {"new", "opening", "held", "closing", "closed", "failed"}]
        /\ io' \in [Client -> {"none", "made", "running", "stopping", "stopped"}]
    BY DEF Types
  <2>3. \A d \in DOMAIN resources' : resources'[d] \in Entry
    <3>1. CASE call.dev \in DOMAIN resources
      <4>1. /\ resources' = [resources EXCEPT ![call.dev].ioManager = call.by]
            /\ call.by \in Client \cup {None} /\ \A d \in DOMAIN resources : resources[d] \in Entry
        BY <3>1 DEF Types
      <4> QED  BY ONLY <3>1, <4>1 DEF Entry
    <3>2. CASE call.dev \notin DOMAIN resources
      BY <3>2 DEF Types
    <3> QED  BY <3>1, <3>2
  <2> QED  BY <2>1, <2>2, <2>3 DEF Types, Intent
<1>2. EndsAreTrue'
  BY DEF Types, Intent, EndsAreTrue
<1>3. CallIsOfClient'
  <2>1. CASE call.dev \in DOMAIN resources
    <3>1. call' = [call EXCEPT !.at = "ptr"] /\ UNCHANGED <<client, dev>> /\ call.at = "store"
      BY <2>1
    <3>2. /\ call'.at = "ptr" /\ call'.by = call.by /\ call'.dev = call.dev
          /\ call.at \notin Closing \cup {"idle"}
      BY <3>1 DEF Types
    <3> QED  BY ONLY IInv, <3>1, <3>2 DEF IInv, CallIsOfClient, Closing
  <2>2. CASE call.dev \notin DOMAIN resources
    BY <2>2 DEF Types, CallIsOfClient
  <2> QED  BY <2>1, <2>2
<1>4. PortIsOfClient'
  BY DEF Types, CallIsOfClient, PortIsOfClient, HasPort
<1>5. ManagerIsOfPort'
  BY DEF Types, Entry, CallIsOfClient, PortIsOfClient, HasPort, ManagerIsOfPort
<1>6. (DOMAIN resources \subseteq drivers)'
  BY DEF Types
<1>7. \A b \in Client : Reached(b)'
  BY DEF Types, Entry, EndsAreTrue, Intent, CallIsOfClient, PortIsOfClient, HasPort,
         ManagerIsOfPort, Reached
<1> QED  BY <1>1, <1>2, <1>3, <1>4, <1>5, <1>6, <1>7

\* The classPtr joins the manager of the same client.
LEMMA OpenDoneKeeps == ASSUME IInv, OpenDone PROVE IInv'
<1> USE DEF IInv, OpenDone, At, Ptr, NoCall
<1>1. Types'
  <2>1. call' \in [at : {"idle"} \cup Steps \cup Closing,
                  by : Client \cup {None}, dev : Device \cup {None}]
    BY DEF Types, Steps
  <2>2. /\ client' \in [Client -> {"new", "opening", "held", "closing", "closed", "failed"}]
        /\ io' \in [Client -> {"none", "made", "running", "stopping", "stopped"}]
    BY DEF Types
  <2>3. \A d \in DOMAIN resources' : resources'[d] \in Entry
    BY DEF Types, Entry
  <2> QED  BY <2>1, <2>2, <2>3 DEF Types, Intent
<1>2. EndsAreTrue'
  BY DEF Types, Intent, EndsAreTrue
<1>3. CallIsOfClient'
  BY DEF Types, CallIsOfClient
<1>4. PortIsOfClient'
  BY DEF Types, CallIsOfClient, PortIsOfClient, HasPort
<1>5. ManagerIsOfPort'
  BY DEF Types, Entry, CallIsOfClient, PortIsOfClient, HasPort, ManagerIsOfPort
<1>6. (DOMAIN resources \subseteq drivers)'
  BY DEF Types
<1>7. \A b \in Client : Reached(b)'
  BY DEF Types, Entry, EndsAreTrue, Intent, CallIsOfClient, PortIsOfClient, HasPort,
         ManagerIsOfPort, Reached
<1> QED  BY <1>1, <1>2, <1>3, <1>4, <1>5, <1>6, <1>7

\* A client starts its own manager, whose port it has.
LEMMA StartIoManagerKeeps == ASSUME IInv, NEW c \in Client, StartIoManager(c) PROVE IInv'
<1> USE DEF IInv, StartIoManager, Manager, NoCall
<1>1. Types'
  BY DEF Types, Entry, Intent
<1>2. EndsAreTrue'
  BY DEF Types, Intent, EndsAreTrue
<1>3. CallIsOfClient'
  BY DEF Types, CallIsOfClient
<1>4. PortIsOfClient'
  BY DEF Types, CallIsOfClient, PortIsOfClient, HasPort
<1>5. ManagerIsOfPort'
  BY DEF Types, Entry, CallIsOfClient, PortIsOfClient, HasPort, ManagerIsOfPort
<1>6. (DOMAIN resources \subseteq drivers)'
  BY DEF Types
<1>7. \A b \in Client : Reached(b)'
  BY DEF Types, Entry, EndsAreTrue, Intent, CallIsOfClient, PortIsOfClient, HasPort,
         ManagerIsOfPort, Reached
<1> QED  BY <1>1, <1>2, <1>3, <1>4, <1>5, <1>6, <1>7

\* A client stops its own manager.
LEMMA StopIoManagerKeeps == ASSUME IInv, NEW c \in Client, StopIoManager(c) PROVE IInv'
<1> USE DEF IInv, StopIoManager, Stopped, Manager, NoCall
<1>1. Types'
  BY DEF Types, Entry, Intent
<1>2. EndsAreTrue'
  BY DEF Types, Intent, EndsAreTrue
<1>3. CallIsOfClient'
  BY DEF Types, CallIsOfClient
<1>4. PortIsOfClient'
  BY DEF Types, CallIsOfClient, PortIsOfClient, HasPort
<1>5. ManagerIsOfPort'
  BY DEF Types, Entry, CallIsOfClient, PortIsOfClient, HasPort, ManagerIsOfPort
<1>6. (DOMAIN resources \subseteq drivers)'
  BY DEF Types
<1>7. \A b \in Client : Reached(b)'
  BY DEF Types, Entry, EndsAreTrue, Intent, CallIsOfClient, PortIsOfClient, HasPort,
         ManagerIsOfPort, Reached
<1> QED  BY <1>1, <1>2, <1>3, <1>4, <1>5, <1>6, <1>7

\* Nobody else is in a call, and the map still leads to the manager.
LEMMA CloseKeeps == ASSUME IInv, NEW c \in Client, Close(c) PROVE IInv'
<1> USE DEF IInv, Close, NoCall
<1>1. Types'
  <2>1. CASE dev[c] \in DOMAIN resources /\ port[dev[c]] # None
    BY <2>1 DEF Types, Entry, PortIsOfClient, HasPort
  <2>2. CASE ~(dev[c] \in DOMAIN resources /\ port[dev[c]] # None)
    BY <2>2 DEF Types, Entry, PortIsOfClient, HasPort
  <2> QED  BY <2>1, <2>2
<1>2. EndsAreTrue'
  BY DEF Types, Intent, EndsAreTrue
<1>3. CallIsOfClient'
  <2>1. CASE dev[c] \in DOMAIN resources /\ port[dev[c]] # None
    BY <2>1 DEF Types, CallIsOfClient, PortIsOfClient, HasPort
  <2>2. CASE ~(dev[c] \in DOMAIN resources /\ port[dev[c]] # None)
    BY <2>2 DEF Types, CallIsOfClient, PortIsOfClient, HasPort
  <2> QED  BY <2>1, <2>2
<1>4. PortIsOfClient'
  BY DEF Types, CallIsOfClient, PortIsOfClient, HasPort
<1>5. ManagerIsOfPort'
  BY DEF Types, Entry, CallIsOfClient, PortIsOfClient, HasPort, ManagerIsOfPort
<1>6. (DOMAIN resources \subseteq drivers)'
  BY DEF Types
<1>7. \A b \in Client : Reached(b)'
  BY DEF Types, Entry, EndsAreTrue, Intent, CallIsOfClient, PortIsOfClient, HasPort,
         ManagerIsOfPort, Reached
<1> QED  BY <1>1, <1>2, <1>3, <1>4, <1>5, <1>6, <1>7

\* The manager in the map is the client's, so it is the one that is stopped.
LEMMA CloseStopsKeeps == ASSUME IInv, CloseStops PROVE IInv'
<1> USE DEF IInv, CloseStops, At, Proceed, Stopped, Manager
<1>1. Types'
  BY DEF Types, Entry, Intent
<1>2. EndsAreTrue'
  BY DEF Types, Intent, EndsAreTrue
<1>3. CallIsOfClient'
  BY DEF Types, CallIsOfClient
<1>4. PortIsOfClient'
  BY DEF Types, CallIsOfClient, PortIsOfClient, HasPort
<1>5. ManagerIsOfPort'
  BY DEF Types, Entry, CallIsOfClient, PortIsOfClient, HasPort, ManagerIsOfPort
<1>6. (DOMAIN resources \subseteq drivers)'
  BY DEF Types
<1>7. \A b \in Client : Reached(b)'
  BY DEF Types, Entry, EndsAreTrue, Intent, CallIsOfClient, PortIsOfClient, HasPort,
         ManagerIsOfPort, Reached
<1> QED  BY <1>1, <1>2, <1>3, <1>4, <1>5, <1>6, <1>7

\* The entry that goes is that of the client's own port.
LEMMA CloseRemovesKeeps == ASSUME IInv, CloseRemoves PROVE IInv'
<1> USE DEF IInv, CloseRemoves, At, Proceed, Restrict
<1>1. Types'
  BY DEF Types, Entry, Intent
<1>2. EndsAreTrue'
  BY DEF Types, Intent, EndsAreTrue
<1>3. CallIsOfClient'
  BY DEF Types, CallIsOfClient
<1>4. PortIsOfClient'
  BY DEF Types, CallIsOfClient, PortIsOfClient, HasPort
<1>5. ManagerIsOfPort'
  BY DEF Types, Entry, CallIsOfClient, PortIsOfClient, HasPort, ManagerIsOfPort
<1>6. (DOMAIN resources \subseteq drivers)'
  BY DEF Types
<1>7. \A b \in Client : Reached(b)'
  BY DEF Types, Entry, EndsAreTrue, Intent, CallIsOfClient, PortIsOfClient, HasPort,
         ManagerIsOfPort, Reached
<1> QED  BY <1>1, <1>2, <1>3, <1>4, <1>5, <1>6, <1>7

\* No entry has the manager of the port that is closed.
LEMMA CloseClosesKeeps == ASSUME IInv, CloseCloses PROVE IInv'
<1> USE DEF IInv, CloseCloses, At, NoCall
<1>1. Types'
  BY DEF Types, Entry, Intent
<1>2. EndsAreTrue'
  BY DEF Types, Intent, EndsAreTrue
<1>3. CallIsOfClient'
  BY DEF Types, CallIsOfClient
<1>4. PortIsOfClient'
  BY DEF Types, CallIsOfClient, PortIsOfClient, HasPort
<1>5. ManagerIsOfPort'
  BY DEF Types, Entry, CallIsOfClient, PortIsOfClient, HasPort, ManagerIsOfPort
<1>6. (DOMAIN resources \subseteq drivers)'
  BY DEF Types
<1>7. \A b \in Client : Reached(b)'
  BY DEF Types, Entry, EndsAreTrue, Intent, CallIsOfClient, PortIsOfClient, HasPort,
         ManagerIsOfPort, Reached
<1> QED  BY <1>1, <1>2, <1>3, <1>4, <1>5, <1>6, <1>7

\* A thread that ends does not run.
LEMMA IoStopsKeeps == ASSUME IInv, NEW c \in Client, IoStops(c) PROVE IInv'
<1> USE DEF IInv, IoStops
<1>1. Types'
  BY DEF Types, Entry, Intent
<1>2. EndsAreTrue'
  BY DEF Types, Intent, EndsAreTrue
<1>3. CallIsOfClient'
  BY DEF Types, CallIsOfClient
<1>4. PortIsOfClient'
  BY DEF Types, CallIsOfClient, PortIsOfClient, HasPort
<1>5. ManagerIsOfPort'
  BY DEF Types, Entry, CallIsOfClient, PortIsOfClient, HasPort, ManagerIsOfPort
<1>6. (DOMAIN resources \subseteq drivers)'
  BY DEF Types
<1>7. \A b \in Client : Reached(b)'
  BY DEF Types, Entry, EndsAreTrue, Intent, CallIsOfClient, PortIsOfClient, HasPort,
         ManagerIsOfPort, Reached
<1> QED  BY <1>1, <1>2, <1>3, <1>4, <1>5, <1>6, <1>7

\* A thread that ends does not run.
LEMMA IoFailsKeeps == ASSUME IInv, NEW c \in Client, IoFails(c) PROVE IInv'
<1> USE DEF IInv, IoFails, Tell
<1>1. Types'
  BY DEF Types, Entry, Intent
<1>2. EndsAreTrue'
  BY DEF Types, Intent, EndsAreTrue
<1>3. CallIsOfClient'
  BY DEF Types, CallIsOfClient
<1>4. PortIsOfClient'
  BY DEF Types, CallIsOfClient, PortIsOfClient, HasPort
<1>5. ManagerIsOfPort'
  BY DEF Types, Entry, CallIsOfClient, PortIsOfClient, HasPort, ManagerIsOfPort
<1>6. (DOMAIN resources \subseteq drivers)'
  BY DEF Types
<1>7. \A b \in Client : Reached(b)'
  BY DEF Types, Entry, EndsAreTrue, Intent, CallIsOfClient, PortIsOfClient, HasPort,
         ManagerIsOfPort, Reached
<1> QED  BY <1>1, <1>2, <1>3, <1>4, <1>5, <1>6, <1>7

\* Every step of Android, of the receiver, of the native thread and of the threads of the
\* managers keeps the invariant.
LEMMA NextIsSafe == ASSUME IInv, [Next]_vars PROVE IInv'
<1>1. CASE \E d \in Device : Attach(d) \/ Detach(d) \/ \E yes \in BOOLEAN : AnswerRequest(d, yes)
  BY <1>1, AttachKeeps, DetachKeeps, AnswerRequestKeeps
<1>2. CASE Cleanup
  BY <1>2, CleanupKeeps
<1>3. CASE ReceiverStep
  BY <1>3, ReceiveDeviceKeeps, ReceiveDenialKeeps, ReceiveDetachedKeeps, AddOrUpdateKeeps,
     FindAllDriversKeeps, UpdateDriversKeeps DEF ReceiverStep
<1>4. CASE NativeStep
  BY <1>4, OpenDriverKeeps, SetParametersKeeps, CreateIoManagerKeeps, IoManagerExistsKeeps,
     StoreIoManagerKeeps, OpenDoneKeeps, CloseStopsKeeps, CloseRemovesKeeps, CloseClosesKeeps
  DEF NativeStep
<1>5. CASE \E c \in Client, d \in Device : Open(c, d)
  BY <1>5, OpenKeeps
<1>6. CASE \E c \in Client : \/ StartIoManager(c) \/ StopIoManager(c) \/ Close(c)
                             \/ IoStops(c) \/ IoFails(c)
  BY <1>6, StartIoManagerKeeps, StopIoManagerKeeps, CloseKeeps, IoStopsKeeps, IoFailsKeeps
<1>7. CASE UNCHANGED vars
  BY <1>7 DEF vars, IInv, Types, EndsAreTrue, CallIsOfClient, PortIsOfClient, HasPort,
              ManagerIsOfPort, Reached
<1> QED  BY <1>1, <1>2, <1>3, <1>4, <1>5, <1>6, <1>7 DEF Next

\* In every behaviour ports, calls, managers and the map agree about whose a device is.
THEOREM OneOwner == Spec => []IInv
<1>1. Init => IInv
  BY InitIsSafe
<1>2. IInv /\ [Next]_vars => IInv'
  BY NextIsSafe
<1> QED  BY <1>1, <1>2, PTL DEF Spec

\* Whatever broadcasts, answers and ends of devices come between, the map leads from an
\* open device to its manager and its native object unless its resources were replaced or
\* removed as stale, and a client that has closed its device has closed the port and has
\* stopped the thread.
THEOREM MapAndCloseAreSafe == Spec => [](MapLeadsToClient /\ ClosedIsQuiet)
<1>1. IInv => MapLeadsToClient /\ ClosedIsQuiet
  <2> SUFFICES ASSUME IInv PROVE MapLeadsToClient /\ ClosedIsQuiet
    OBVIOUS
  <2>1. ASSUME NEW c \in Client, client[c] = "held", where[dev[c]] = "in", lost[c] = "no"
        PROVE  /\ dev[c] \in DOMAIN resources
               /\ resources[dev[c]] = [ioManager |-> c, classPtr |-> c]
    <3>1. dev[c] \in Device
      BY <2>1 DEF IInv, PortIsOfClient, HasPort
    <3>2. /\ dev[c] \in DOMAIN resources
          /\ resources[dev[c]].ioManager = c /\ resources[dev[c]].classPtr = c
      BY <2>1, <3>1 DEF IInv, Reached
    <3>3. resources[dev[c]] \in Entry
      BY <3>2 DEF IInv, Types
    <3> QED  BY <3>2, <3>3 DEF Entry
  <2>2. ASSUME NEW c \in Client, client[c] = "closed"
        PROVE  /\ port[dev[c]] # c
               /\ lost[c] = "no" /\ where[dev[c]] = "in" => io[c] # "running"
    BY <2>2 DEF IInv, Types, PortIsOfClient, HasPort, Reached
  <2> QED  BY <2>1, <2>2 DEF MapLeadsToClient, ClosedIsQuiet
<1> QED  BY <1>1, OneOwner, PTL
-----------------------------------------------------------------------------
(* The map against the devices that are there *)

\* A broadcast joins those that are on their way.
LEMMA Sent ==
    ASSUME intents \in Seq(Intent), NEW b \in Intent, registered, Broadcast(b)
    PROVE  /\ \A k, d : Pending(k, d)' <=> (Pending(k, d) \/ (b.kind = k /\ b.dev = d))
           /\ AttachedOnce /\ (b.kind = "attached" => ~Pending("attached", b.dev)) => AttachedOnce'
<1>1. DOMAIN intents = 1..Len(intents) /\ Len(intents) \in Nat
  OBVIOUS
<1>2. /\ DOMAIN intents' = 1..(Len(intents) + 1)
      /\ \A i \in 1..Len(intents) : intents'[i] = intents[i]
      /\ intents'[Len(intents) + 1] = b
  BY AppendProperties DEF Broadcast
<1>3. \A i \in DOMAIN intents' : \/ i \in DOMAIN intents /\ intents'[i] = intents[i]
                                 \/ i = Len(intents) + 1 /\ intents'[i] = b
  BY <1>1, <1>2
<1>4. \A i \in DOMAIN intents : i \in DOMAIN intents'
  BY <1>1, <1>2
<1>5. Len(intents) + 1 \in DOMAIN intents'
  BY <1>1, <1>2
<1>6. ASSUME NEW k, NEW d PROVE Pending(k, d)' <=> (Pending(k, d) \/ (b.kind = k /\ b.dev = d))
  BY <1>1, <1>2, <1>3, <1>4, <1>5 DEF Pending
<1>7. AttachedOnce /\ (b.kind = "attached" => ~Pending("attached", b.dev)) => AttachedOnce'
  BY <1>3 DEF AttachedOnce, Pending
<1> QED  BY <1>6, <1>7

\* A broadcast that is received was the first of those on their way.
LEMMA Taken ==
    ASSUME intents \in Seq(Intent), NEW kind, Receive(kind)
    PROVE  /\ Head(intents) \in Intent /\ Head(intents).kind = kind
           /\ \A k, d : Pending(k, d) <=> (Pending(k, d)' \/ (k = kind /\ d = Head(intents).dev))
           /\ AttachedOnce => /\ AttachedOnce'
                              /\ \A d : kind = "attached" /\ d = Head(intents).dev
                                           => ~Pending("attached", d)'
<1>1. /\ Head(intents) \in Intent /\ Tail(intents) \in Seq(Intent)
      /\ Len(Tail(intents)) = Len(intents) - 1
      /\ \A k \in 1..Len(Tail(intents)) : Tail(intents)[k] = intents[k + 1]
  BY HeadTailProperties DEF Receive
<1>2. /\ Head(intents) = intents[1] /\ Len(intents) \in Nat /\ Len(intents) # 0
      /\ DOMAIN intents = 1..Len(intents) /\ DOMAIN intents' = 1..(Len(intents) - 1)
      /\ \A k \in 1..(Len(intents) - 1) : intents'[k] = intents[k + 1]
  BY <1>1, EmptySeq DEF Receive
<1>3. 1 \in DOMAIN intents
  BY <1>2
<1>4. \A i \in DOMAIN intents' :
         i \in Nat /\ i + 1 \in DOMAIN intents /\ i + 1 # 1 /\ intents'[i] = intents[i + 1]
  BY <1>2
<1>5. \A i \in DOMAIN intents : i # 1 => i - 1 \in DOMAIN intents' /\ intents'[i - 1] = intents[i]
  <2> SUFFICES ASSUME NEW i \in DOMAIN intents, i # 1
               PROVE  i - 1 \in DOMAIN intents' /\ intents'[i - 1] = intents[i]
    OBVIOUS
  <2>1. i - 1 \in DOMAIN intents' /\ (i - 1) + 1 = i
    BY <1>2
  <2> QED  BY <1>2, <2>1
<1>6. Head(intents).kind = kind
  BY DEF Receive
<1>7. ASSUME NEW k, NEW d
      PROVE  Pending(k, d) <=> (Pending(k, d)' \/ (k = kind /\ d = Head(intents).dev))
  <2>1. ASSUME Pending(k, d) PROVE Pending(k, d)' \/ (k = kind /\ d = Head(intents).dev)
    <3>1. PICK i \in DOMAIN intents : intents[i].kind = k /\ intents[i].dev = d
      BY <2>1 DEF Pending
    <3>2. CASE i = 1
      BY <1>2, <1>6, <3>1, <3>2
    <3>3. CASE i # 1
      BY <1>5, <3>1, <3>3 DEF Pending
    <3> QED  BY <3>2, <3>3
  <2>2. ASSUME Pending(k, d)' PROVE Pending(k, d)
    BY <1>4, <2>2 DEF Pending
  <2>3. ASSUME k = kind, d = Head(intents).dev PROVE Pending(k, d)
    BY <1>2, <1>3, <1>6, <2>3 DEF Pending
  <2> QED  BY <2>1, <2>2, <2>3
<1>8. ASSUME AttachedOnce
      PROVE  /\ AttachedOnce'
             /\ \A d : kind = "attached" /\ d = Head(intents).dev => ~Pending("attached", d)'
  <2>1. \A i, j \in DOMAIN intents' : i + 1 = j + 1 => i = j
    BY <1>4
  <2>2. AttachedOnce'
    BY <1>4, <1>8, <2>1 DEF AttachedOnce
  <2>3. ASSUME kind = "attached", NEW i \in DOMAIN intents', intents'[i].kind = "attached",
               intents'[i].dev = Head(intents).dev
        PROVE  FALSE
    BY <1>2, <1>3, <1>4, <1>6, <1>8, <2>3 DEF AttachedOnce
  <2> QED  BY <2>2, <2>3 DEF Pending
<1> QED  BY <1>1, <1>6, <1>7, <1>8

\* Nothing is pending where no broadcasts are.
LEMMA NonePending == ASSUME intents = <<>> PROVE \A k, d : ~Pending(k, d)
  BY EmptySeq DEF Pending

\* At the start nothing is known, and a scan is the first thing the receiver does.
LEMMA InitIsKept == Init => MInv
<1> SUFFICES ASSUME Init PROVE MInv
  OBVIOUS
<1>1. PICK s \in Scenes :
         /\ where \in {w \in [Device -> {"new", "in", "gone"}] :
                         \A d \in Device : w[d] = "gone" <=> d \notin s.devices}
         /\ granted \in {s.devices \ s.wanted, s.devices}
  BY DEF Init
<1>2. granted \subseteq Device
  BY <1>1, ScenesAssumption
<1>3. \A k, d : ~Pending(k, d)
  BY NonePending DEF Init
<1>4. \A d \in Device : asked[d] = 0
  BY DEF Init
<1>5. DOMAIN intents = {}
  BY EmptySeq DEF Init
<1>6. Others
  BY <1>2 DEF Init, Others
<1>7. HaveCome /\ EndsAreToldOf /\ WillBeFound
  BY DEF Init, HaveCome, EndsAreToldOf, WillBeFound, Adding, Found
<1>8. AskedTwice
  BY <1>3, <1>4, <1>5 DEF Init, AskedTwice, AttachedOnce, Adding
<1> QED  BY <1>6, <1>7, <1>8 DEF MInv

\* A device that comes has never been asked for, and is told of.
LEMMA AttachMaps == ASSUME IInv, MInv, NEW e \in Device, Attach(e) PROVE MInv'
<1> DEFINE b == [kind |-> "attached", dev |-> e]
<1>1. b \in Intent /\ Broadcast(b) /\ b.kind = "attached" /\ b.dev = e
  BY DEF Intent, Attach
<1> HIDE DEF b
<1>2. intents \in Seq(Intent) /\ where \in [Device -> {"new", "in", "gone"}]
  BY DEF IInv, Types
<1>3. where[e] = "new" /\ \A d \in Device : where'[d] = IF d = e THEN "in" ELSE where[d]
  BY <1>2 DEF Attach
<1>4. registered =>
         /\ \A k, d : Pending(k, d)' <=> (Pending(k, d) \/ (b.kind = k /\ b.dev = d))
         /\ AttachedOnce /\ (b.kind = "attached" => ~Pending("attached", b.dev)) => AttachedOnce'
  BY <1>1, <1>2, Sent
<1>5. ~registered => intents' = intents
  BY <1>1 DEF Broadcast
<1>6. ~registered => \A k, d : Pending(k, d)' <=> Pending(k, d)
  BY <1>5 DEF Pending
<1>7. /\ UNCHANGED <<granted, asked, registered, receiver, drivers, resources, told>>
      /\ ClosedOnce' = ClosedOnce
      /\ \A d : (Adding(d)' <=> Adding(d)) /\ (Found(d)' <=> Found(d))
  BY DEF Attach, ClosedOnce, Adding, Found
<1>8. Others'
  BY <1>5, <1>7 DEF MInv, Others
<1>9. HaveCome'
  BY <1>3, <1>7 DEF MInv, HaveCome
<1>10. EndsAreToldOf'
  BY <1>3, <1>4, <1>7 DEF MInv, EndsAreToldOf
<1>11. WillBeFound'
  BY <1>1, <1>3, <1>4, <1>7 DEF MInv, WillBeFound, HaveCome
<1>12. AskedTwice'
  <2>1. \A d \in Device : Fresh(d)' => Fresh(d)
    BY <1>3, <1>7 DEF Fresh
  <2>2. \A d \in Device : ~(Adding(e) /\ e \notin granted)
    BY <1>3 DEF MInv, HaveCome
  <2>3. \A d \in Device : Pending("attached", d)' => Pending("attached", d) \/ d = e
    BY <1>1, <1>4, <1>6
  <2>4. \A d \in Device : Pending("granted", d)' => Pending("granted", d)
    BY <1>1, <1>4, <1>6
  <2>5. asked[e] = 0
    BY <1>3 DEF MInv, AskedTwice, Fresh
  <2>6. AttachedOnce'
    <3>1. AttachedOnce /\ ~Pending("attached", e)
      BY <1>3 DEF MInv, AskedTwice
    <3> QED  BY <1>1, <1>4, <1>5, <3>1 DEF AttachedOnce
  <2> QED  BY <1>3, <1>7, <2>1, <2>2, <2>3, <2>4, <2>5, <2>6 DEF MInv, AskedTwice
<1> QED  BY <1>8, <1>9, <1>10, <1>11, <1>12 DEF MInv

\* A device that goes is told of.
LEMMA DetachMaps == ASSUME IInv, MInv, NEW e \in Device, Detach(e) PROVE MInv'
<1> DEFINE b == [kind |-> "detached", dev |-> e]
<1>1. b \in Intent /\ Broadcast(b) /\ b.kind = "detached" /\ b.dev = e
  BY DEF Intent, Detach
<1> HIDE DEF b
<1>2. intents \in Seq(Intent) /\ where \in [Device -> {"new", "in", "gone"}]
  BY DEF IInv, Types
<1>3. where[e] = "in" /\ \A d \in Device : where'[d] = IF d = e THEN "gone" ELSE where[d]
  BY <1>2 DEF Detach
<1>4. registered =>
         /\ \A k, d : Pending(k, d)' <=> (Pending(k, d) \/ (b.kind = k /\ b.dev = d))
         /\ AttachedOnce /\ (b.kind = "attached" => ~Pending("attached", b.dev)) => AttachedOnce'
  BY <1>1, <1>2, Sent
<1>5. ~registered => intents' = intents
  BY <1>1 DEF Broadcast
<1>6. ~registered => \A k, d : Pending(k, d)' <=> Pending(k, d)
  BY <1>5 DEF Pending
<1>7. /\ UNCHANGED <<granted, asked, registered, receiver, drivers, resources, told>>
      /\ ClosedOnce' = ClosedOnce
      /\ \A d : (Adding(d)' <=> Adding(d)) /\ (Found(d)' <=> Found(d))
  BY DEF Detach, ClosedOnce, Adding, Found
<1>8. Others'
  BY <1>5, <1>7 DEF MInv, Others
<1>9. HaveCome'
  BY <1>3, <1>7 DEF MInv, HaveCome
<1>10. EndsAreToldOf'
  BY <1>1, <1>3, <1>4, <1>7 DEF MInv, EndsAreToldOf
<1>11. WillBeFound'
  BY <1>3, <1>4, <1>7 DEF MInv, WillBeFound
<1>12. AskedTwice'
  <2>1. \A d \in Device : Fresh(d)' => Fresh(d)
    BY <1>3, <1>7 DEF Fresh
  <2>2. \A d \in Device : /\ Pending("attached", d)' => Pending("attached", d)
                          /\ Pending("granted", d)' => Pending("granted", d)
    BY <1>1, <1>4, <1>6
  <2>3. AttachedOnce'
    BY <1>1, <1>4, <1>5 DEF MInv, AskedTwice, AttachedOnce
  <2> QED  BY <1>3, <1>7, <2>1, <2>2, <2>3 DEF MInv, AskedTwice
<1> QED  BY <1>8, <1>9, <1>10, <1>11, <1>12 DEF MInv

\* An answer ends a request, and a permission that is told of was given.
LEMMA AnswerRequestMaps ==
    ASSUME IInv, MInv, NEW e \in Device, NEW yes \in BOOLEAN, AnswerRequest(e, yes)
    PROVE  MInv'
<1> DEFINE b == [kind |-> IF yes THEN "granted" ELSE "denied", dev |-> e]
<1>1. b \in Intent /\ Broadcast(b) /\ b.kind # "attached" /\ b.dev = e
      /\ (b.kind = "granted" => yes)
  BY DEF Intent, AnswerRequest
<1> HIDE DEF b
<1>2. intents \in Seq(Intent) /\ asked \in [Device -> Nat]
  BY DEF IInv, Types, MInv, Others
<1>3. asked[e] > 0 /\ asked' \in [Device -> Nat]
      /\ \A d \in Device : asked'[d] = IF d = e THEN asked[d] - 1 ELSE asked[d]
  BY <1>2 DEF AnswerRequest
<1>4. registered =>
         /\ \A k, d : Pending(k, d)' <=> (Pending(k, d) \/ (b.kind = k /\ b.dev = d))
         /\ AttachedOnce /\ (b.kind = "attached" => ~Pending("attached", b.dev)) => AttachedOnce'
  BY <1>1, <1>2, Sent
<1>5. ~registered => intents' = intents
  BY <1>1 DEF Broadcast
<1>6. ~registered => \A k, d : Pending(k, d)' <=> Pending(k, d)
  BY <1>5 DEF Pending
<1>7. /\ UNCHANGED <<where, registered, receiver, drivers, resources, told>>
      /\ ClosedOnce' = ClosedOnce /\ granted' = IF yes THEN granted \cup {e} ELSE granted
      /\ \A d : (Adding(d)' <=> Adding(d)) /\ (Found(d)' <=> Found(d))
  BY DEF AnswerRequest, ClosedOnce, Adding, Found
<1>8. Others'
  BY <1>3, <1>5, <1>7 DEF MInv, Others
<1>9. HaveCome'
  BY <1>7 DEF MInv, HaveCome
<1>10. EndsAreToldOf'
  BY <1>4, <1>7 DEF MInv, EndsAreToldOf
<1>11. WillBeFound'
  BY <1>4, <1>7 DEF MInv, WillBeFound
<1>12. AskedTwice'
  <2>1. \A d \in Device : Fresh(d)' => Fresh(d)
    BY <1>7 DEF Fresh
  <2>2. \A d \in Device :
           /\ Pending("attached", d)' => Pending("attached", d)
           /\ Pending("granted", d)' => Pending("granted", d) \/ (yes /\ d = e)
    BY <1>1, <1>4, <1>6
  <2>3. AttachedOnce'
    BY <1>1, <1>4, <1>5 DEF MInv, AskedTwice, AttachedOnce
  <2>4. \A d \in Device : asked'[d] \in Nat /\ asked[d] \in Nat /\ asked'[d] <= asked[d]
    BY <1>2, <1>3
  <2>5. \A d \in Device : d \notin granted' => d \notin granted
    BY <1>7
  <2>6. \A d \in Device : asked[d] = 0 => asked'[d] = 0
    BY <1>3, <2>4
  <2>7. \A d \in Device : /\ asked[d] <= 2 => asked'[d] <= 2
                          /\ asked[d] <= 1 => asked'[d] <= 1
    BY <2>4
  <2> QED  BY <1>7, <2>1, <2>2, <2>3, <2>5, <2>6, <2>7 DEF MInv, AskedTwice
<1> QED  BY <1>8, <1>9, <1>10, <1>11, <1>12 DEF MInv

\* Nothing is claimed of a receiver that is not registered any more but the requests.
LEMMA CleanupMaps == ASSUME IInv, MInv, Cleanup PROVE MInv'
<1>1. DOMAIN intents' = {} /\ \A k, d : ~Pending(k, d)'
  BY EmptySeq DEF Cleanup, Pending
<1>2. UNCHANGED <<where, granted, asked, receiver, drivers, resources, told>> /\ ~registered'
      /\ receiver = Idle /\ intents' = <<>> /\ registered' \in BOOLEAN
      /\ \A d : (Adding(d)' <=> Adding(d)) /\ (Found(d)' <=> Found(d))
  BY DEF Cleanup, Adding, Found
<1>3. Others' /\ HaveCome' /\ EndsAreToldOf'
  BY <1>2 DEF MInv, Others, HaveCome, EndsAreToldOf
<1>4. WillBeFound'
  BY <1>2 DEF MInv, WillBeFound, Idle
<1>5. AskedTwice'
  <2>1. \A d \in Device : Fresh(d)' => Fresh(d)
    BY <1>2 DEF Fresh
  <2> QED  BY <1>1, <1>2, <2>1 DEF MInv, AskedTwice, AttachedOnce
<1> QED  BY <1>3, <1>4, <1>5 DEF MInv

\* A device that is added again was attached or permitted; one that is not in the map has
\* the receiver scan.
LEMMA ReceiveDeviceMaps == ASSUME IInv, MInv, ReceiveDevice PROVE MInv'
<1>1. PICK kind \in {"attached", "granted"} : Receive(kind)
  BY DEF ReceiveDevice
<1>2. intents \in Seq(Intent)
  BY DEF IInv, Types
<1> DEFINE e == Head(intents).dev
<1>3. /\ e \in Device
      /\ \A k, d : Pending(k, d) <=> (Pending(k, d)' \/ (k = kind /\ d = e))
      /\ AttachedOnce'
      /\ \A d : kind = "attached" /\ d = e => ~Pending("attached", d)'
  <2>1. AttachedOnce
    BY DEF MInv, AskedTwice
  <2>2. Head(intents) \in Intent
    BY <1>1, <1>2, Taken
  <2> QED  BY <1>1, <1>2, <2>1, <2>2, Taken DEF Intent
<1>4. /\ UNCHANGED <<where, granted, asked, registered, drivers, resources, told>>
      /\ ClosedOnce' = ClosedOnce /\ receiver = Idle /\ intents # <<>>
      /\ receiver' = IF e \in DOMAIN resources THEN [at |-> "add", dev |-> e]
                                               ELSE [at |-> "scan"]
  BY <1>1 DEF ReceiveDevice, Receive, ClosedOnce, Scan
<1> HIDE DEF e
<1>5. registered
  BY <1>4 DEF MInv, Others
<1>6. \A d : /\ Adding(d)' <=> d = e /\ e \in DOMAIN resources
             /\ ~Adding(d) /\ ~Found(d) /\ ~Found(d)'
  BY <1>4 DEF Adding, Found, Idle
<1>7. Others'
  BY <1>3, <1>4, <1>5 DEF MInv, Others
<1>8. HaveCome'
  BY <1>4, <1>6 DEF MInv, HaveCome, IInv
<1>9. EndsAreToldOf'
  BY <1>3, <1>4, <1>6 DEF MInv, EndsAreToldOf
<1>10. WillBeFound'
  BY <1>3, <1>4, <1>6 DEF MInv, WillBeFound, Idle
<1>11. AskedTwice'
  <2>1. \A d \in Device : Fresh(d)' => Fresh(d)
    BY <1>4, <1>6 DEF Fresh
  <2>2. \A d \in Device : Adding(d)' /\ d \notin granted =>
           kind = "attached" /\ d = e /\ Pending("attached", d)
    BY <1>3, <1>6 DEF MInv, AskedTwice
  <2> QED  BY <1>3, <1>4, <2>1, <2>2 DEF MInv, AskedTwice
<1> QED  BY <1>7, <1>8, <1>9, <1>10, <1>11 DEF MInv

\* A denial changes nothing in the map.
LEMMA ReceiveDenialMaps == ASSUME IInv, MInv, ReceiveDenial PROVE MInv'
<1>1. Receive("denied") /\ intents \in Seq(Intent)
  BY DEF ReceiveDenial, IInv, Types
<1> DEFINE e == Head(intents).dev
<1>2. /\ \A k, d : Pending(k, d) <=> (Pending(k, d)' \/ (k = "denied" /\ d = e))
      /\ AttachedOnce'
  BY <1>1, Taken DEF MInv, AskedTwice
<1>3. /\ UNCHANGED <<where, granted, asked, registered, drivers, resources>>
      /\ ClosedOnce' = ClosedOnce /\ receiver = Idle /\ intents # <<>>
      /\ receiver' = [at |-> "scan"]
  BY <1>1 DEF ReceiveDenial, Receive, ClosedOnce, Scan
<1>4. told' \subseteq Client
  BY DEF ReceiveDenial, Tell, IInv, Types, Entry, MInv, Others
<1> HIDE DEF e
<1>5. registered
  BY <1>3 DEF MInv, Others
<1>6. \A d : ~Adding(d) /\ ~Adding(d)' /\ ~Found(d) /\ ~Found(d)'
  BY <1>3 DEF Adding, Found, Idle
<1>7. Others'
  BY <1>3, <1>4, <1>5 DEF MInv, Others
<1>8. HaveCome' /\ EndsAreToldOf'
  BY <1>2, <1>3, <1>6 DEF MInv, HaveCome, EndsAreToldOf
<1>9. WillBeFound'
  BY <1>2, <1>3, <1>6 DEF MInv, WillBeFound, Idle
<1>10. AskedTwice'
  <2>1. \A d \in Device : Fresh(d)' => Fresh(d)
    BY <1>3, <1>6 DEF Fresh
  <2> QED  BY <1>2, <1>3, <1>6, <2>1 DEF MInv, AskedTwice
<1> QED  BY <1>7, <1>8, <1>9, <1>10 DEF MInv

\* The entry of a device that is gone goes with the broadcast of its end.
LEMMA ReceiveDetachedMaps == ASSUME IInv, MInv, ReceiveDetached PROVE MInv'
<1>1. Receive("detached") /\ intents \in Seq(Intent) /\ Types /\ EndsAreTrue
      /\ UNCHANGED where
  BY DEF ReceiveDetached, IInv, Types
<1> DEFINE e == Head(intents).dev
<1>2. /\ \A k, d : Pending(k, d) <=> (Pending(k, d)' \/ (k = "detached" /\ d = e))
      /\ AttachedOnce'
  BY <1>1, Taken DEF MInv, AskedTwice
<1>3. /\ UNCHANGED <<where, granted, asked, registered, drivers>>
      /\ ClosedOnce' = ClosedOnce /\ receiver = Idle /\ intents # <<>>
      /\ receiver' = [at |-> "scan"] /\ DOMAIN resources' = DOMAIN resources \ {e}
  BY <1>1 DEF ReceiveDetached, Receive, ClosedOnce, Scan, Restrict
<1>4. told' \subseteq Client
  BY DEF ReceiveDetached, Tell, IInv, Types, Entry, MInv, Others
<1>5. where[e] = "gone"
  BY <1>1, ReceivedIsTrue
<1> HIDE DEF e
<1>6. registered
  BY <1>3 DEF MInv, Others
<1>7. \A d : ~Adding(d) /\ ~Adding(d)' /\ ~Found(d) /\ ~Found(d)'
  BY <1>3 DEF Adding, Found, Idle
<1>8. Others'
  BY <1>3, <1>4, <1>6 DEF MInv, Others
<1>9. HaveCome' /\ EndsAreToldOf'
  BY <1>2, <1>3, <1>7 DEF MInv, HaveCome, EndsAreToldOf
<1>10. WillBeFound'
  BY <1>2, <1>3, <1>5, <1>7 DEF MInv, WillBeFound, Idle
<1>11. AskedTwice'
  <2>1. \A d \in Device : Fresh(d)' => Fresh(d)
    BY <1>3, <1>7 DEF Fresh
  <2> QED  BY <1>2, <1>3, <1>7, <2>1 DEF MInv, AskedTwice
<1> QED  BY <1>8, <1>9, <1>10, <1>11 DEF MInv

\* What is added again is a driver already, asked for at most once before.
LEMMA AddOrUpdateMaps == ASSUME IInv, MInv, AddOrUpdate PROVE MInv'
<1> DEFINE e == receiver.dev
<1>1. receiver.at = "add" /\ receiver' = [at |-> "scan"] /\ e \in Device
  BY DEF AddOrUpdate, Scan, MInv, Others
<1>2. /\ UNCHANGED <<where, granted, intents, registered, told>> /\ ClosedOnce' = ClosedOnce
      /\ \A k, d : Pending(k, d)' <=> Pending(k, d)
  BY DEF AddOrUpdate, ClosedOnce, Pending
<1>3. e \in drivers
  BY <1>1 DEF MInv, HaveCome, Adding
<1>4. /\ drivers' = drivers
      /\ DOMAIN resources' = IF e \in granted THEN DOMAIN resources \cup {e} ELSE DOMAIN resources
  BY <1>3 DEF AddOrUpdate, With
<1>5. /\ asked' \in [Device -> Nat]
      /\ \A d \in Device :
            asked'[d] = IF d = e /\ e \notin granted THEN asked[d] + 1 ELSE asked[d]
  <2>1. asked' = [d \in Device |-> asked[d] + IF d \in {e} \ granted THEN 1 ELSE 0]
    BY DEF AddOrUpdate, Request
  <2>2. asked \in [Device -> Nat]
    BY DEF MInv, Others
  <2> QED  BY <2>1, <2>2
<1>6. \A d : /\ Adding(d) <=> d = e
             /\ ~Adding(d)' /\ ~Found(d) /\ ~Found(d)'
  BY <1>1 DEF Adding, Found
<1> HIDE DEF e
<1>7. Others'
  BY <1>1, <1>2, <1>4, <1>5 DEF MInv, Others, Idle
<1>8. HaveCome' /\ EndsAreToldOf'
  BY <1>2, <1>4, <1>6 DEF MInv, HaveCome, EndsAreToldOf
<1>9. WillBeFound'
  BY <1>1, <1>2, <1>4, <1>6 DEF MInv, WillBeFound
<1>10. AskedTwice'
  <2>1. \A d \in Device : Fresh(d)' => Fresh(d) /\ d # e
    BY <1>2, <1>3, <1>4, <1>6 DEF Fresh, MInv, HaveCome
  <2>2. AttachedOnce'
    BY <1>2 DEF MInv, AskedTwice, AttachedOnce
  <2>3. e \notin granted => asked[e] <= 1 /\ ~Pending("attached", e)
    BY <1>1, <1>6 DEF MInv, AskedTwice
  <2>4. \A d \in Device : asked'[d] <= 2
    BY <1>1, <1>5, <2>3 DEF MInv, AskedTwice, Others
  <2>5. \A d \in Device : Fresh(d)' => asked'[d] = 0
    BY <1>5, <2>1 DEF MInv, AskedTwice
  <2>6. \A d \in Device : Pending("attached", d) => asked'[d] <= 1
    BY <1>5, <2>3 DEF MInv, AskedTwice
  <2> QED  BY <1>2, <1>6, <2>2, <2>4, <2>5, <2>6 DEF MInv, AskedTwice
<1> QED  BY <1>7, <1>8, <1>9, <1>10 DEF MInv

\* What is found is there.
LEMMA FindAllDriversMaps == ASSUME IInv, MInv, FindAllDrivers PROVE MInv'
<1> DEFINE found == {d \in Device : where[d] = "in"}
<1>1. /\ receiver.at = "scan"
      /\ receiver' = IF found = {} THEN Idle ELSE [at |-> "update", found |-> found]
  BY DEF FindAllDrivers
<1>2. /\ UNCHANGED <<where, granted, asked, intents, registered, drivers, resources, told>>
      /\ ClosedOnce' = ClosedOnce /\ \A k, d : Pending(k, d)' <=> Pending(k, d)
  BY DEF FindAllDrivers, ClosedOnce, Pending
<1>3. \A d \in Device : /\ ~Adding(d) /\ ~Adding(d)' /\ ~Found(d)
                        /\ Found(d)' <=> where[d] = "in"
  BY <1>1 DEF Adding, Found, Idle
<1>4. registered
  BY <1>1 DEF MInv, Others, Idle
<1>5. Others'
  BY <1>1, <1>2, <1>4 DEF MInv, Others, Idle
<1>6. HaveCome' /\ EndsAreToldOf'
  BY <1>2, <1>3 DEF MInv, HaveCome, EndsAreToldOf
<1>7. WillBeFound'
  BY <1>1, <1>2, <1>3 DEF MInv, WillBeFound
<1>8. AskedTwice'
  <2>1. \A d \in Device : Fresh(d)' => Fresh(d)
    BY <1>2, <1>3 DEF Fresh
  <2>2. AttachedOnce'
    BY <1>2 DEF MInv, AskedTwice, AttachedOnce
  <2> QED  BY <1>2, <1>3, <2>1, <2>2 DEF MInv, AskedTwice
<1> QED  BY <1>5, <1>6, <1>7, <1>8 DEF MInv

\* After an update the drivers are those that were found.
LEMMA UpdateDriversMaps == ASSUME IInv, MInv, UpdateDrivers PROVE MInv'
<1> DEFINE found == receiver.found
<1>1. receiver.at = "update" /\ receiver' = Idle /\ found \subseteq Device
  BY DEF UpdateDrivers, MInv, Others, Idle
<1>2. /\ UNCHANGED <<where, granted, intents, registered, told>> /\ ClosedOnce' = ClosedOnce
      /\ \A k, d : Pending(k, d)' <=> Pending(k, d)
  BY DEF UpdateDrivers, ClosedOnce, Pending
<1>3. /\ drivers' = found
      /\ DOMAIN resources' = (DOMAIN resources \ (drivers \ found)) \cup (found \ drivers)
  BY DEF UpdateDrivers, NewDrivers
<1>4. /\ asked' \in [Device -> Nat]
      /\ \A d \in Device :
            asked'[d] = IF d \in found \ drivers /\ d \notin granted THEN asked[d] + 1 ELSE asked[d]
  <2>1. asked' = [d \in Device |-> asked[d] + IF d \in (found \ drivers) \ granted THEN 1 ELSE 0]
    BY DEF UpdateDrivers, NewDrivers, Request
  <2>2. asked \in [Device -> Nat]
    BY DEF MInv, Others
  <2> QED  BY <2>1, <2>2
<1>5. \A d : /\ ~Adding(d) /\ ~Adding(d)' /\ ~Found(d)'
             /\ Found(d) <=> d \in found
  BY <1>1 DEF Adding, Found, Idle
<1> HIDE DEF found
<1>6. Others'
  BY <1>1, <1>2, <1>3, <1>4 DEF MInv, Others, Idle
<1>7. HaveCome' /\ EndsAreToldOf'
  BY <1>2, <1>3, <1>5 DEF MInv, HaveCome, EndsAreToldOf
<1>8. WillBeFound'
  BY <1>1, <1>2, <1>3, <1>5 DEF MInv, WillBeFound, Idle
<1>9. AskedTwice'
  <2>1. \A d \in Device : Fresh(d)' => Fresh(d) /\ d \notin found
    BY <1>1, <1>2, <1>3, <1>5 DEF Fresh, MInv, HaveCome, WillBeFound
  <2>2. AttachedOnce'
    BY <1>2 DEF MInv, AskedTwice, AttachedOnce
  <2>3. \A d \in found \ drivers : asked[d] = 0
    BY <1>1, <1>5 DEF Fresh, MInv, AskedTwice
  <2>4. \A d \in Device : asked'[d] <= 2
    BY <1>4, <2>3 DEF MInv, AskedTwice
  <2>5. \A d \in Device : Fresh(d)' => asked'[d] = 0
    BY <1>4, <2>1 DEF MInv, AskedTwice
  <2>6. \A d \in Device : Pending("attached", d) => asked'[d] <= 1
    BY <1>4, <2>3 DEF MInv, AskedTwice
  <2> QED  BY <1>2, <1>5, <2>2, <2>4, <2>5, <2>6 DEF MInv, AskedTwice
<1> QED  BY <1>6, <1>7, <1>8, <1>9 DEF MInv

\* The other threads take an entry out of the map only when they close its device.
LEMMA OthersMap ==
    ASSUME MInv, UNCHANGED <<where, granted, asked, broadcasts, receiver, drivers>>,
           told' \subseteq Client, DOMAIN resources' \subseteq DOMAIN resources,
           ClosedOnce \subseteq ClosedOnce',
           \A d \in DOMAIN resources : d \notin DOMAIN resources' => d \in ClosedOnce'
    PROVE  MInv'
<1>1. /\ \A k, d : Pending(k, d)' <=> Pending(k, d)
      /\ \A d : (Adding(d)' <=> Adding(d)) /\ (Found(d)' <=> Found(d)) /\ (Fresh(d)' <=> Fresh(d))
  BY DEF Pending, Adding, Found, Fresh
<1>2. Others' /\ HaveCome' /\ EndsAreToldOf'
  BY <1>1 DEF MInv, Others, HaveCome, EndsAreToldOf
<1>3. WillBeFound'
  BY <1>1 DEF MInv, WillBeFound
<1>4. AskedTwice'
  BY <1>1 DEF MInv, AskedTwice, AttachedOnce
<1> QED  BY <1>2, <1>3, <1>4 DEF MInv

\* A device that was closed stays so.
LEMMA ClosedStays ==
    ASSUME IInv, \A c \in Client : client[c] \in {"closing", "closed"} =>
                    client'[c] \in {"closing", "closed"} /\ dev'[c] = dev[c]
    PROVE  ClosedOnce \subseteq ClosedOnce'
  BY DEF ClosedOnce

\* The native thread.
LEMMA NativeMaps ==
    ASSUME IInv, MInv, NativeStep \/ \E c \in Client, d \in Device : Open(c, d)
    PROVE  MInv'
<1>1. UNCHANGED <<where, granted, asked, broadcasts, receiver, drivers>> /\ told' = told
  BY DEF NativeStep, Open, OpenDriver, SetParameters, Look, CreateIoManager, IoManagerExists,
         StoreIoManager, OpenDone, CloseStops, CloseRemoves, CloseCloses
<1>2. \A c \in Client : client[c] \in {"closing", "closed"} =>
         client'[c] \in {"closing", "closed"} /\ dev'[c] = dev[c]
  <2>1. ASSUME NEW c \in Client, NEW d \in Device, Open(c, d)
        PROVE  \A b \in Client : client[b] \in {"closing", "closed"} =>
                  client'[b] \in {"closing", "closed"} /\ dev'[b] = dev[b]
    BY <2>1 DEF Open, IInv, Types
  <2>2. CASE CloseStops \/ CloseRemoves
    BY <2>2 DEF CloseStops, CloseRemoves
  <2>3. CASE CloseCloses
    BY <2>3 DEF CloseCloses, IInv, Types
  <2>4. CASE OpenDriver \/ SetParameters \/ CreateIoManager \/ IoManagerExists
             \/ StoreIoManager \/ OpenDone
    <3>1. At("driver") \/ At("parameters") \/ At("create") \/ At("exists") \/ At("store")
          \/ At("ptr")
      BY <2>4 DEF OpenDriver, SetParameters, Look, CreateIoManager, IoManagerExists,
                  StoreIoManager, OpenDone
    <3>2. call.by \in Client /\ client[call.by] = "opening"
      BY <3>1 DEF At, IInv, CallIsOfClient
    <3>3. dev' = dev /\ \A b \in Client : b # call.by => client'[b] = client[b]
      BY <2>4 DEF OpenDriver, SetParameters, Look, CreateIoManager, IoManagerExists,
                  StoreIoManager, OpenDone, Fail, IInv, Types
    <3> QED  BY <3>2, <3>3
  <2> QED  BY <2>1, <2>2, <2>3, <2>4 DEF NativeStep
<1>3. /\ DOMAIN resources' \subseteq DOMAIN resources
      /\ \A d \in DOMAIN resources : d \notin DOMAIN resources' => d \in ClosedOnce'
  <2>1. CASE CloseRemoves
    <3>1. call.by \in Client /\ client[call.by] = "closing" /\ dev[call.by] = call.dev
      BY <2>1 DEF CloseRemoves, At, IInv, CallIsOfClient
    <3>2. DOMAIN resources' = DOMAIN resources \ {call.dev} /\ UNCHANGED <<client, dev>>
      BY <2>1 DEF CloseRemoves, Restrict
    <3> QED  BY <3>1, <3>2 DEF ClosedOnce
  <2>2. CASE ~CloseRemoves
    <3>1. DOMAIN resources' = DOMAIN resources
      BY <2>2 DEF NativeStep, Open, OpenDriver, SetParameters, Look, CreateIoManager,
                  IoManagerExists, StoreIoManager, OpenDone, CloseStops, CloseCloses
    <3> QED  BY <3>1
  <2> QED  BY <2>1, <2>2
<1>4. told' \subseteq Client
  BY <1>1 DEF MInv, Others
<1> QED  BY <1>1, <1>2, <1>3, <1>4, ClosedStays, OthersMap

\* The threads of the managers, and the calls that do not touch the map.
LEMMA CallsMap ==
    ASSUME IInv, MInv, NEW c \in Client,
           \/ StartIoManager(c) \/ StopIoManager(c) \/ Close(c) \/ IoStops(c) \/ IoFails(c)
    PROVE  MInv'
<1>1. UNCHANGED <<where, granted, asked, broadcasts, receiver, drivers, resources>>
  BY DEF StartIoManager, StopIoManager, Close, IoStops, IoFails
<1>2. told' \subseteq Client
  BY DEF StartIoManager, StopIoManager, Close, IoStops, IoFails, Tell, MInv, Others
<1>3. \A b \in Client : client[b] \in {"closing", "closed"} =>
         client'[b] \in {"closing", "closed"} /\ dev'[b] = dev[b]
  BY DEF StartIoManager, StopIoManager, Close, IoStops, IoFails, IInv, Types
<1> QED  BY <1>1, <1>2, <1>3, ClosedStays, OthersMap

\* No step breaks the invariant of the map.
LEMMA NextMaps == ASSUME IInv, MInv, [Next]_vars PROVE MInv'
<1>1. ASSUME NEW d \in Device, Attach(d) PROVE MInv'
  BY <1>1, AttachMaps
<1>2. ASSUME NEW d \in Device, Detach(d) PROVE MInv'
  BY <1>2, DetachMaps
<1>3. ASSUME NEW d \in Device, NEW yes \in BOOLEAN, AnswerRequest(d, yes) PROVE MInv'
  BY <1>3, AnswerRequestMaps
<1>4. CASE Cleanup
  BY <1>4, CleanupMaps
<1>5. CASE ReceiverStep
  BY <1>5, ReceiveDeviceMaps, ReceiveDenialMaps, ReceiveDetachedMaps, AddOrUpdateMaps,
     FindAllDriversMaps, UpdateDriversMaps DEF ReceiverStep
<1>6. CASE NativeStep \/ \E c \in Client, d \in Device : Open(c, d)
  BY <1>6, NativeMaps
<1>7. ASSUME NEW c \in Client,
             \/ StartIoManager(c) \/ StopIoManager(c) \/ Close(c) \/ IoStops(c) \/ IoFails(c)
      PROVE  MInv'
  BY <1>7, CallsMap
<1>8. CASE UNCHANGED vars
  <2>1. UNCHANGED <<where, granted, asked, broadcasts, receiver, drivers, resources, told>>
        /\ ClosedOnce' = ClosedOnce
    BY <1>8 DEF vars, ClosedOnce
  <2>2. told' \subseteq Client
    BY <2>1 DEF MInv, Others
  <2> QED  BY <2>1, <2>2, OthersMap
<1> QED  BY <1>1, <1>2, <1>3, <1>4, <1>5, <1>6, <1>7, <1>8 DEF Next

\* While the receiver rests with nothing on its way, the map is the devices that are there.
LEMMA RestIsMap == ASSUME IInv, MInv PROVE TypeOK /\ MapIsDevices
<1>1. MapIsDevices
  <2> SUFFICES ASSUME registered, intents = <<>>, receiver = Idle
               PROVE  /\ \A d \in DOMAIN resources : where[d] # "gone"
                      /\ \A d \in Device :
                            where[d] = "in" => d \in DOMAIN resources \/ d \in ClosedOnce
    BY DEF MapIsDevices
  <2>1. \A k, d : ~Pending(k, d)
    BY NonePending
  <2>2. \A d : ~Adding(d) /\ ~Found(d)
    BY DEF Adding, Found, Idle
  <2>3. DOMAIN resources \subseteq Device
    BY DEF IInv, MInv, Others
  <2> QED  BY <2>1, <2>2, <2>3 DEF MInv, EndsAreToldOf, WillBeFound, Idle
<1>2. asked \in [Device -> 0..2]
  BY DEF MInv, Others, AskedTwice
<1>3. TypeOK
  BY <1>2 DEF TypeOK, IInv, Types, Entry, MInv, Others
<1> QED  BY <1>1, <1>3

\* In every behaviour the map and what is on its way to it account for the devices.
LEMMA MapIsKept == Spec => []MInv
<1>1. Init => MInv
  BY InitIsKept
<1>2. IInv /\ MInv /\ [Next]_vars => MInv'
  BY NextMaps
<1> QED  BY <1>1, <1>2, OneOwner, PTL DEF Spec

\* The invariant of the run: whatever comes and goes, and whoever opens and closes, the
\* receiver ends with a map of the devices that are there, which leads to those who have
\* them open; a device is asked for at most twice, and a closed one is quiet.
THEOREM MapIsTheDevices == Spec => []Inv
<1>1. IInv /\ MInv => TypeOK /\ MapIsDevices
  BY RestIsMap
<1> QED  BY <1>1, OneOwner, MapIsKept, MapAndCloseAreSafe, PTL DEF Inv
=============================================================================

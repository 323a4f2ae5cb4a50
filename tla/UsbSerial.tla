------------------------------ MODULE UsbSerial ------------------------------
(***************************************************************************)
(* QGCUsbSerialManager: the serial devices on the USB port of an Android   *)
(* device.  Three kinds of threads share two collections, each of which is *)
(* safe for threads while sequences of calls on them are not:              *)
(*  - the receiver of broadcasts (attached, detached, permission) keeps    *)
(*    drivers and deviceResourcesMap like the devices that are there;      *)
(*  - the native thread opens, starts, stops and closes devices, looking   *)
(*    into the map again at each step;                                     *)
(*  - one thread of a SerialInputOutputManager per open port.              *)
(*                                                                         *)
(* A device stands for one stay at the port: a device that comes back has  *)
(* another id.  Its name, driver and only port are one to one with it.  A  *)
(* client is a native object with its classPtr, which opens a device once, *)
(* so that a SerialInputOutputManager can be named by the client of its    *)
(* listener.  Android and the USB driver library are external.             *)
(***************************************************************************)
EXTENDS Integers, Sequences, Functions

CONSTANTS Device, Client,
          None,         \* null
          Scenes        \* bound: the devices and clients of a behaviour, and which
                        \* devices the clients open

VARIABLES
    where,          \* of each device: new, in or gone
    granted,        \* devices with permission
    asked,          \* how many requests for permission are unanswered
    intents,        \* broadcasts on their way
    registered,     \* the receiver is registered
    receiver,       \* where the receiver is
    drivers,        \* the devices in drivers (duplicates make no difference)
    resources,      \* deviceResourcesMap: ioManager and classPtr
    port,           \* the client a port was opened for, or None when it is closed
    client,         \* what has become of a client
    dev,            \* the device it wanted
    call,           \* where the native thread is
    io,             \* the SerialInputOutputManager of a client
    told,           \* clients that have heard of an end of their device
    lost,           \* history: why the map no longer leads to a client
    wanted          \* the devices that clients open

android == <<where, granted, asked, wanted>>
native == <<client, dev, call>>
broadcasts == <<intents, registered>>
collections == <<drivers, resources>>
history == <<told, lost>>
vars == <<android, broadcasts, receiver, collections, port, native, io, history>>

ASSUME NoneAssumption == None \notin Client \cup Device
ASSUME ScenesAssumption ==
    Scenes \subseteq [devices : SUBSET Device, wanted : SUBSET Device, clients : SUBSET Client]

Idle == [at |-> "idle"]                        \* of the receiver
NoCall == [at |-> "idle", by |-> None, dev |-> None]
Resources == [ioManager |-> None, classPtr |-> None]

Init ==
    /\ \E s \in Scenes :
          /\ where \in {w \in [Device -> {"new", "in", "gone"}] :
                          \A d \in Device : w[d] = "gone" <=> d \notin s.devices}
          /\ granted \in {s.devices \ s.wanted, s.devices}
          /\ wanted = s.wanted
          /\ client = [c \in Client |-> IF c \in s.clients THEN "new" ELSE "failed"]
    /\ asked = [d \in Device |-> 0]
    /\ intents = <<>> /\ registered = TRUE
    /\ receiver = [at |-> "scan"]         \* initialize: updateCurrentDrivers
    /\ drivers = {} /\ resources = [d \in {} |-> Resources]
    /\ port = [d \in Device |-> None]
    /\ dev = [c \in Client |-> None] /\ call = NoCall
    /\ io = [c \in Client |-> "none"] /\ told = {} /\ lost = [c \in Client |-> "no"]

-----------------------------------------------------------------------------
(* Android and the user *)

Broadcast(intent) == intents' = IF registered THEN Append(intents, intent) ELSE intents

Attach(d) ==
    /\ where[d] = "new"
    /\ where' = [where EXCEPT ![d] = "in"]
    /\ Broadcast([kind |-> "attached", dev |-> d])
    /\ UNCHANGED <<granted, asked, wanted, registered, receiver, collections, port, native, io,
                   history>>

Detach(d) ==
    /\ where[d] = "in"
    /\ where' = [where EXCEPT ![d] = "gone"]
    /\ Broadcast([kind |-> "detached", dev |-> d])
    /\ UNCHANGED <<granted, asked, wanted, registered, receiver, collections, port, native, io,
                   history>>

AnswerRequest(d, yes) ==
    /\ asked[d] > 0 /\ (yes => where[d] = "in")
    /\ asked' = [asked EXCEPT ![d] = @ - 1]
    /\ granted' = IF yes THEN granted \cup {d} ELSE granted
    /\ Broadcast([kind |-> IF yes THEN "granted" ELSE "denied", dev |-> d])
    /\ UNCHANGED <<where, wanted, registered, receiver, collections, port, native, io, history>>

\* cleanup, from QGCActivity.onDestroy.  The initialize of a later activity of the same
\* process returns early and does not register the receiver again.
Cleanup ==
    /\ registered /\ receiver = Idle
    /\ registered' = FALSE /\ intents' = <<>>
    /\ UNCHANGED <<android, receiver, collections, port, native, io, history>>

-----------------------------------------------------------------------------
(* The receiver *)

\* Clients whose way through the map to their device an update of its entry ends
UsersOf(d) == {c \in Client : port[d] = c /\ client[c] \in {"opening", "held", "closing"}}
Lose(clients, why) ==
    lost' = [c \in Client |-> IF c \in clients /\ lost[c] = "no" THEN why ELSE lost[c]]

Tell(c) == told' = told \cup ({c} \ {None})

Receive(kind) ==
    /\ receiver = Idle /\ intents # <<>> /\ Head(intents).kind = kind
    /\ intents' = Tail(intents)
Scan == receiver' = [at |-> "scan"]

\* handleUsbDeviceAttached and a permission that was granted, up to the look into the map
ReceiveDevice ==
    /\ Receive("attached") \/ Receive("granted")
    /\ LET d == Head(intents).dev
       IN  IF d \in DOMAIN resources THEN receiver' = [at |-> "add", dev |-> d] ELSE Scan
    /\ UNCHANGED <<android, registered, collections, port, native, io, history>>

\* handleUsbPermission when it was denied
ReceiveDenial ==
    /\ Receive("denied")
    /\ LET d == Head(intents).dev
       IN  IF d \in DOMAIN resources THEN Tell(resources[d].classPtr) ELSE UNCHANGED told
    /\ Scan
    /\ UNCHANGED <<android, registered, collections, port, native, io, lost>>

\* handleUsbDeviceDetached
ReceiveDetached ==
    /\ Receive("detached")
    /\ LET d == Head(intents).dev
       IN  /\ IF d \in DOMAIN resources THEN Tell(resources[d].classPtr) ELSE UNCHANGED told
           /\ resources' = Restrict(resources, DOMAIN resources \ {d})
           /\ Lose({c \in UsersOf(d) : client[c] = "opening"}, "opening")
    /\ Scan
    /\ UNCHANGED <<android, registered, drivers, port, native, io>>

With(devices) == [d \in DOMAIN resources \cup devices |->
                    IF d \in devices THEN Resources ELSE resources[d]]
Request(devices) ==
    asked' = [d \in Device |-> asked[d] + IF d \in devices \ granted THEN 1 ELSE 0]

\* addOrUpdateDevice behind the look into the map: with a permission the driver is
\* added once more and its resources are new ones
AddOrUpdate ==
    /\ receiver.at = "add"
    /\ LET d == receiver.dev
       IN  /\ Request({d})
           /\ IF d \in granted
              THEN /\ drivers' = drivers \cup {d} /\ resources' = With({d})
                   /\ Lose(UsersOf(d), "replaced")
              ELSE UNCHANGED <<collections, lost>>
    /\ Scan
    /\ UNCHANGED <<where, granted, wanted, broadcasts, port, native, io, told>>

\* updateCurrentDrivers: nothing when no device is found, else the stale drivers go
\* and the new ones come
FindAllDrivers ==
    /\ receiver.at = "scan"
    /\ LET found == {d \in Device : where[d] = "in"}
       IN  receiver' = IF found = {} THEN Idle ELSE [at |-> "update", found |-> found]
    /\ UNCHANGED <<android, broadcasts, collections, port, native, io, history>>

AllDrivers(found) == found                  \* mutant: drivers that are known are added, too
NewDrivers(found) == found \ drivers
UpdateDrivers ==
    /\ receiver.at = "update"
    /\ LET stale == drivers \ receiver.found
           new == NewDrivers(receiver.found)
       IN  /\ drivers' = (drivers \ stale) \cup new
           /\ resources' = [d \in (DOMAIN resources \ stale) \cup new |->
                              IF d \in new THEN Resources ELSE resources[d]]
           /\ Request(new)
           /\ Lose(UNION {UsersOf(d) : d \in stale \cap DOMAIN resources}, "stale")
    /\ receiver' = Idle
    /\ UNCHANGED <<where, granted, wanted, broadcasts, port, native, io, told>>

-----------------------------------------------------------------------------
(* The native thread *)

At(step) == call.at = step
Proceed(step) == call' = [call EXCEPT !.at = step]
\* An open that fails, with false or with a NullPointerException, closes nothing
Fail == call' = NoCall /\ client' = [client EXCEPT ![call.by] = "failed"]
\* A look into the map, which ends the call when the entry is gone
Look(step, next) ==
    /\ At(step)
    /\ IF call.dev \in DOMAIN resources THEN Proceed(next) /\ UNCHANGED client ELSE Fail
    /\ UNCHANGED dev

\* open: the driver of that name
Open(c, d) ==
    /\ call = NoCall /\ client[c] = "new" /\ where[d] # "new" /\ d \in wanted
    /\ dev' = [dev EXCEPT ![c] = d]
    /\ IF d \in DOMAIN resources
       THEN /\ call' = [at |-> "driver", by |-> c, dev |-> d]
            /\ client' = [client EXCEPT ![c] = "opening"]
       ELSE client' = [client EXCEPT ![c] = "failed"] /\ UNCHANGED call
    /\ UNCHANGED <<android, broadcasts, receiver, collections, port, io, history>>

\* findPortByDeviceId and openDriver up to port.open, which throws when it is open
OpenDriver ==
    /\ At("driver")
    /\ \/ /\ call.dev \in DOMAIN resources /\ call.dev \in granted /\ where[call.dev] = "in"
          /\ port[call.dev] = None
          /\ port' = [port EXCEPT ![call.dev] = call.by]
          /\ Proceed("parameters") /\ UNCHANGED client
       \/ Fail /\ UNCHANGED port
    /\ UNCHANGED <<android, broadcasts, receiver, collections, dev, io, history>>

\* setParameters of the port the map leads to, which may refuse
SetParameters ==
    /\ Look("parameters", "create") \/ (At("parameters") /\ Fail /\ UNCHANGED dev)
    /\ UNCHANGED <<android, broadcasts, receiver, collections, port, io, history>>

\* createIoManager: whether there are resources
CreateIoManager ==
    /\ Look("create", "exists")
    /\ UNCHANGED <<android, broadcasts, receiver, collections, port, io, history>>

\* An entry that has a manager keeps it
IoManagerExists ==
    /\ At("exists")
    /\ IF call.dev \notin DOMAIN resources THEN Fail
       ELSE /\ Proceed(IF resources[call.dev].ioManager # None THEN "ptr" ELSE "store")
            /\ UNCHANGED client
    /\ UNCHANGED <<android, broadcasts, receiver, collections, port, dev, io, history>>

StoreIoManager ==
    /\ Look("store", "ptr")
    /\ IF call.dev \in DOMAIN resources
       THEN /\ resources' = [resources EXCEPT ![call.dev].ioManager = call.by]
            /\ io' = [io EXCEPT ![call.by] = "made"]
       ELSE UNCHANGED <<resources, io>>
    /\ UNCHANGED <<android, broadcasts, receiver, drivers, port, history>>

NoPtr(c) == None                            \* mutant: the classPtr is not kept
Ptr(c) == c
OpenDone ==
    /\ At("ptr")
    /\ resources' = IF call.dev \in DOMAIN resources
                    THEN [resources EXCEPT ![call.dev].classPtr = Ptr(call.by)] ELSE resources
    /\ client' = [client EXCEPT ![call.by] = "held"] /\ call' = NoCall
    /\ UNCHANGED <<android, broadcasts, receiver, drivers, port, dev, io, history>>

\* The manager the map has for a device
Manager(d) == IF d \in DOMAIN resources THEN resources[d].ioManager ELSE None

StartIoManager(c) ==
    /\ call = NoCall /\ client[c] = "held" /\ Manager(dev[c]) # None
    /\ LET m == Manager(dev[c])
       IN  io[m] \in {"made", "stopped"} /\ io' = [io EXCEPT ![m] = "running"]
    /\ UNCHANGED <<android, broadcasts, receiver, collections, port, native, history>>

Stopped(m) == IF m # None /\ io[m] = "running" THEN [io EXCEPT ![m] = "stopping"] ELSE io
StopIoManager(c) ==
    /\ call = NoCall /\ client[c] = "held"
    /\ io' = Stopped(Manager(dev[c]))
    /\ UNCHANGED <<android, broadcasts, receiver, collections, port, native, history>>

\* close: false without an entry or an open port, and then nothing is closed
Close(c) ==
    /\ call = NoCall /\ client[c] = "held"
    /\ IF dev[c] \in DOMAIN resources /\ port[dev[c]] # None
       THEN /\ call' = [at |-> "stop", by |-> c, dev |-> dev[c]]
            /\ client' = [client EXCEPT ![c] = "closing"]
       ELSE client' = [client EXCEPT ![c] = "failed"] /\ UNCHANGED call
    /\ UNCHANGED <<android, broadcasts, receiver, collections, port, dev, io, history>>

CloseStops ==
    /\ At("stop") /\ Proceed("remove")
    /\ io' = Stopped(Manager(call.dev))
    /\ UNCHANGED <<android, broadcasts, receiver, collections, port, client, dev, history>>

CloseRemoves ==
    /\ At("remove") /\ Proceed("close")
    /\ resources' = Restrict(resources, DOMAIN resources \ {call.dev})
    /\ UNCHANGED <<android, broadcasts, receiver, drivers, port, client, dev, io, history>>

CloseCloses ==
    /\ At("close")
    /\ port' = [port EXCEPT ![call.dev] = None]
    /\ client' = [client EXCEPT ![call.by] = "closed"] /\ call' = NoCall
    /\ UNCHANGED <<android, broadcasts, receiver, collections, dev, io, history>>

NativeStep == \/ OpenDriver \/ SetParameters \/ CreateIoManager \/ IoManagerExists
              \/ StoreIoManager \/ OpenDone \/ CloseStops \/ CloseRemoves \/ CloseCloses

-----------------------------------------------------------------------------
(* The threads of the managers *)

\* The thread has seen that it is to stop
IoStops(c) ==
    /\ io[c] = "stopping"
    /\ io' = [io EXCEPT ![c] = "stopped"]
    /\ UNCHANGED <<android, broadcasts, receiver, collections, port, native, history>>

\* A read fails because the port is closed or the device is gone: onRunError
IoFails(c) ==
    /\ io[c] \in {"running", "stopping"} /\ (port[dev[c]] # c \/ where[dev[c]] = "gone")
    /\ io' = [io EXCEPT ![c] = "stopped"] /\ Tell(c)
    /\ UNCHANGED <<android, broadcasts, receiver, collections, port, native, lost>>

-----------------------------------------------------------------------------
ReceiverStep == \/ ReceiveDevice \/ ReceiveDenial \/ ReceiveDetached
                \/ AddOrUpdate \/ FindAllDrivers \/ UpdateDrivers

Next ==
    \/ \E d \in Device : Attach(d) \/ Detach(d) \/ \E yes \in BOOLEAN : AnswerRequest(d, yes)
    \/ Cleanup \/ ReceiverStep \/ NativeStep
    \/ \E c \in Client, d \in Device : Open(c, d)
    \/ \E c \in Client : \/ StartIoManager(c) \/ StopIoManager(c) \/ Close(c)
                         \/ IoStops(c) \/ IoFails(c)

Fairness == /\ WF_vars(ReceiverStep) /\ WF_vars(NativeStep)
            /\ \A c \in Client : WF_vars(IoFails(c))
Spec == Init /\ [][Next]_vars /\ Fairness

-----------------------------------------------------------------------------
(* Properties *)

TypeOK ==
    /\ call \in [at : {"idle", "driver", "parameters", "create", "exists", "store", "ptr",
                      "stop", "remove", "close"},
                by : Client \cup {None}, dev : Device \cup {None}]
    /\ where \in [Device -> {"new", "in", "gone"}] /\ granted \subseteq Device
    /\ asked \in [Device -> 0..2] /\ registered \in BOOLEAN
    /\ receiver.at \in {"idle", "add", "scan", "update"}
    /\ drivers \subseteq Device /\ DOMAIN resources \subseteq Device
    /\ \A d \in DOMAIN resources :
          resources[d] \in [ioManager : Client \cup {None}, classPtr : Client \cup {None}]
    /\ port \in [Device -> Client \cup {None}] /\ dev \in [Client -> Device \cup {None}]
    /\ client \in [Client -> {"new", "opening", "held", "closing", "closed", "failed"}]
    /\ io \in [Client -> {"none", "made", "running", "stopping", "stopped"}]
    /\ told \subseteq Client /\ lost \in [Client -> {"no", "opening", "replaced", "stale"}]

\* When no broadcast is on its way the map has no device that is gone, and each device
\* that is there unless it has been closed: a device that was closed cannot be opened
\* again before it is plugged out and in.
ClosedOnce == {dev[c] : c \in {b \in Client : client[b] \in {"closing", "closed"}}}
MapIsDevices ==
    registered /\ intents = <<>> /\ receiver = Idle =>
        /\ \A d \in DOMAIN resources : where[d] # "gone"
        /\ \A d \in Device : where[d] = "in" => d \in DOMAIN resources \/ d \in ClosedOnce

\* The map leads to the manager and the native object of an open device, so that a
\* stop, a close and the broadcast of its end reach them, unless the resources were
\* replaced by a permission or an attachment that was handled after the device had
\* been opened, or removed as stale.
MapLeadsToClient ==
    \A c \in Client :
        client[c] = "held" /\ where[dev[c]] = "in" /\ lost[c] = "no" =>
            /\ dev[c] \in DOMAIN resources
            /\ resources[dev[c]] = [ioManager |-> c, classPtr |-> c]

\* After a close the port is closed and its thread has been told to end, unless the
\* manager was lost with the resources or the device with its end: that thread ends
\* with an error instead.
ClosedIsQuiet ==
    \A c \in Client : client[c] = "closed" =>
        /\ port[dev[c]] # c
        /\ lost[c] = "no" /\ where[dev[c]] = "in" => io[c] # "running"

Inv == TypeOK /\ MapIsDevices /\ MapLeadsToClient /\ ClosedIsQuiet

\* A native object hears of the end of the device it has open: from the broadcast,
\* unless the map no longer led to it, and in any case from the thread that reads.
ToldOfEnd ==
    \A c \in Client :
        client[c] = "held" /\ where[dev[c]] = "gone" /\ registered
            /\ (lost[c] = "no" \/ io[c] = "running")
        ~> \/ c \in told \/ client[c] # "held" \/ ~registered
           \/ (lost[c] # "no" /\ io[c] # "running")
=============================================================================

----------------------------- MODULE ModbusPool -----------------------------
(***************************************************************************)
(* The connections of the Modbus TCP driver (drivers/modbus_tcp.py) and    *)
(* the link redundancy it drives (drivers/redundancy.py): devices on the   *)
(* same host share a counted client, a reconnect task and a watchdog per   *)
(* device replace it, replaced clients are closed later.  Delays, ports,   *)
(* values and writes are left out; a write leases its client as a read.    *)
(***************************************************************************)
EXTENDS Naturals, Functions

CONSTANTS
    Devices, Hosts,
    Primary,      \* host of a device
    Backup,       \* its host_backup, or NoHost
    NoHost,
    NoClient,
    MaxClients,   \* clients that exist at a time
    MaxAttempts,  \* max_reconnect_attempts
    FailoverThreshold, StableCount,
    MaxOutages,   \* bound: times a host or a connection is lost
    MaxRemovals   \* bound: removals of a device

Clients == 1..MaxClients

ASSUME HostAssumption ==
    /\ Primary \in [Devices -> Hosts] /\ Backup \in [Devices -> Hosts \cup {NoHost}]
    /\ NoHost \notin Hosts /\ NoClient \notin Clients
ASSUME CountAssumption ==
    {MaxClients, MaxAttempts, FailoverThreshold, StableCount} \subseteq Nat \ {0}

VARIABLES
    up,       \* hosts that can be reached
    socket,   \* of a client: its host, and whether it is connected ("up"),
              \* "down" and reconnecting by itself, or "closed"
    bound,    \* devices in _device_configs
    adding,   \* devices whose add_device is connecting
    client,   \* _clients
    key,      \* _device_pool_key
    conn,     \* _conn_state
    retry,    \* _retry_count
    circuit,  \* _circuit_open
    task,     \* _reconnect_tasks: "none", "sleep", "empty" (asleep without a
              \* configuration) or "connect", and to which host
    watched,  \* _device_watchdog_tasks
    reading,  \* client a read of the device uses
    leased,   \* _leased_clients
    stale,    \* _stale_clients
    pool,     \* _connection_pool
    redundancy,    \* the device's state in LinkRedundancyManager
    outages, removals

devices == <<client, key, conn, retry, circuit, task, watched>>
clients == <<socket, pool, stale>>
vars == <<up, clients, bound, adding, devices, reading, leased, redundancy, outages, removals>>

NoEntry == [client |-> NoClient, refs |-> 0]
NoTask == [pc |-> "none", host |-> NoHost]
Unregistered == [role |-> "none", fails |-> 0, stable |-> 0]
Registered == [Unregistered EXCEPT !.role = "primary"]

Gone == [link |-> "closed", host |-> NoHost]
Open(h) == [link |-> "up", host |-> h]

Connected(c) == c # NoClient /\ socket[c].link = "up"

Referenced ==
    Range(client) \cup Range(reading) \cup stale \cup {pool[h].client : h \in Hosts}

(* A new client object; MaxClients bounds how many there are at a time.    *)
Fresh == CHOOSE c \in Clients : c \notin Referenced

RoomForClient == Clients \ Referenced # {}

(* A client nobody refers to is not followed any longer.                   *)
Follow(s) == socket' = [c \in Clients |-> IF c \in Referenced' THEN s[c] ELSE Gone]

Init ==
    /\ up \in SUBSET Hosts
    /\ socket = [c \in Clients |-> Gone]
    /\ bound = {} /\ adding = {}
    /\ client = [d \in Devices |-> NoClient] /\ key = [d \in Devices |-> NoHost]
    /\ conn = [d \in Devices |-> "disconnected"] /\ retry = [d \in Devices |-> 0]
    /\ circuit = {} /\ task = [d \in Devices |-> NoTask] /\ watched = {}
    /\ reading = [d \in Devices |-> NoClient] /\ leased = {} /\ stale = {}
    /\ pool = [h \in Hosts |-> NoEntry]
    /\ redundancy = [d \in Devices |-> Unregistered]
    /\ outages = 0 /\ removals = 0

-----------------------------------------------------------------------------
(* The network, and what the client library does by itself.                *)

Drop(cs) ==
    socket' = [c \in Clients |-> IF c \in cs /\ Connected(c) THEN [socket[c] EXCEPT !.link = "down"]
                                ELSE socket[c]]

HostGoes ==
    /\ outages < MaxOutages /\ outages' = outages + 1
    /\ \E h \in up : up' = up \ {h} /\ Drop({c \in Clients : socket[c].host = h})
    /\ UNCHANGED <<pool, stale, bound, adding, devices, reading, leased, redundancy, removals>>

HostComes ==
    /\ \E h \in Hosts \ up : up' = up \cup {h}
    /\ UNCHANGED <<clients, bound, adding, devices, reading, leased, redundancy, outages, removals>>

ConnectionLost ==
    /\ outages < MaxOutages /\ outages' = outages + 1
    /\ \E c \in Clients : Connected(c) /\ Drop({c})
    /\ UNCHANGED <<up, pool, stale, bound, adding, devices, reading, leased, redundancy, removals>>

LibraryReconnects ==
    /\ \E c \in Clients :
        /\ socket[c].link = "down" /\ socket[c].host \in up
        /\ socket' = [socket EXCEPT ![c].link = "up"]
    /\ UNCHANGED <<up, pool, stale, bound, adding, devices, reading, leased, redundancy, outages, removals>>

-----------------------------------------------------------------------------
(* add_device and remove_device.                                           *)

Joined(h, d, c, refs) ==
    /\ client' = [client EXCEPT ![d] = c]
    /\ key' = [key EXCEPT ![d] = h]
    /\ pool' = [pool EXCEPT ![h] = [client |-> c, refs |-> refs]]

AddDevice(d) ==
    LET h == Primary[d]
        entry == pool[h]
    IN  /\ d \notin bound /\ bound' = bound \cup {d}
        /\ redundancy' = [redundancy EXCEPT ![d] = Registered]
        /\ IF Connected(entry.client)
           THEN /\ Joined(h, d, entry.client, entry.refs + 1)
                /\ retry' = [retry EXCEPT ![d] = 0]
                /\ watched' = watched \cup {d}
                /\ UNCHANGED adding
           ELSE /\ pool' = [pool EXCEPT ![h] = NoEntry]
                /\ adding' = adding \cup {d}
                /\ UNCHANGED <<client, key, retry, watched>>
        /\ UNCHANGED <<up, stale, conn, circuit, task, reading, leased, outages, removals>>
        /\ Follow(socket)

(* Somebody else may have put a client into the pool meanwhile.            *)
AddConnects(d) ==
    LET h == Primary[d]
        entry == pool[h]
    IN  /\ d \in adding /\ h \in up /\ RoomForClient
        /\ IF entry # NoEntry
           THEN Joined(h, d, entry.client, entry.refs + 1)
           ELSE Joined(h, d, Fresh, 1)
        /\ adding' = adding \ {d}
        /\ retry' = [retry EXCEPT ![d] = 0]
        /\ circuit' = circuit \ {d}
        /\ conn' = [conn EXCEPT ![d] = "connected"]
        /\ watched' = watched \cup {d}
        /\ UNCHANGED <<up, stale, bound, task, reading, leased, redundancy, outages, removals>>
        /\ Follow(IF entry # NoEntry THEN socket ELSE [socket EXCEPT ![Fresh] = Open(h)])

(* The device stays without a client, and without a watchdog.              *)
AddFails(d) ==
    /\ d \in adding /\ Primary[d] \notin up
    /\ adding' = adding \ {d}
    /\ conn' = [conn EXCEPT ![d] = "disconnected"]
    /\ client' = [client EXCEPT ![d] = NoClient]
    /\ key' = [key EXCEPT ![d] = NoHost]
    /\ UNCHANGED <<up, pool, stale, bound, retry, circuit, task, watched, reading, leased, redundancy,
                   outages, removals>>
    /\ Follow(socket)

\* Mutant of MayClose: the leases are not looked at.
MayCloseLeased(c) == Connected(c)

MayClose(c) == Connected(c) /\ c \notin leased

Closing(c) == [socket EXCEPT ![c].link = "closed"]

PoolClient(h) == IF h = NoHost THEN NoClient ELSE pool[h].client

\* Mutant of Left: the last reference does not take the entry away.
LeftBehind(h) ==
    [pool EXCEPT ![h].refs = IF @ = 0 THEN 0 ELSE @ - 1]

(* The pool without one reference to a host's client.                      *)
Left(h) ==
    [g \in Hosts |->
        IF g # h THEN pool[g]
        ELSE IF pool[g].refs <= 1 THEN NoEntry ELSE [pool[g] EXCEPT !.refs = @ - 1]]

(* The reconnect task goes on.                                             *)
RemoveDevice(d) ==
    LET h == key[d]
        c == PoolClient(h)
        last == c # NoClient /\ pool[h].refs = 1
    IN  /\ removals < MaxRemovals /\ removals' = removals + 1
        /\ d \in bound \ adding /\ bound' = bound \ {d}
        /\ watched' = watched \ {d}
        /\ client' = [client EXCEPT ![d] = NoClient]
        /\ key' = [key EXCEPT ![d] = NoHost]
        /\ pool' = Left(h)
        /\ stale' = IF ~last \/ ~Connected(c) THEN stale
                    ELSE IF MayClose(c) THEN stale \ {c} ELSE stale \cup {c}
        /\ retry' = [retry EXCEPT ![d] = 0]
        /\ circuit' = circuit \ {d}
        /\ conn' = [conn EXCEPT ![d] = "disconnected"]
        /\ redundancy' = [redundancy EXCEPT ![d] = Unregistered]
        /\ UNCHANGED <<up, adding, task, reading, leased, outages>>
        /\ Follow(IF last /\ MayClose(c) THEN Closing(c) ELSE socket)

-----------------------------------------------------------------------------
(* _try_reconnect, a task of its own: what it does before it waits, what it *)
(* does before it connects, and what it does with the answer.              *)

Attempt(d) ==
    IF task[d] # NoTask \/ d \in circuit
    THEN /\ conn' = [conn EXCEPT ![d] = IF @ = "connecting" THEN @ ELSE "disconnected"]
         /\ UNCHANGED <<retry, circuit, task>>
    ELSE IF retry[d] >= MaxAttempts
    THEN /\ conn' = [conn EXCEPT ![d] = "offline"]
         /\ circuit' = circuit \cup {d}
         /\ retry' = [retry EXCEPT ![d] = 0]
         /\ UNCHANGED task
    ELSE /\ conn' = [conn EXCEPT ![d] = "disconnected"]
         /\ retry' = [retry EXCEPT ![d] = @ + 1]
         /\ task' = [task EXCEPT ![d].pc = IF d \in bound THEN "sleep" ELSE "empty"]
         /\ UNCHANGED circuit

(* get_active_host; the host of a device that is gone is "".               *)
ActiveHost(d) ==
    CASE redundancy[d].role = "primary" -> Primary[d]
      [] redundancy[d].role = "backup"  -> Backup[d]
      [] OTHER                     -> NoHost

Wakes(d) ==
    /\ task[d].pc \in {"sleep", "empty"}
    /\ IF conn[d] = "connected" \/ task[d].pc = "empty"
       THEN task' = [task EXCEPT ![d] = NoTask] /\ UNCHANGED conn
       ELSE /\ task' = [task EXCEPT ![d] = [pc |-> "connect", host |-> ActiveHost(d)]]
            /\ conn' = [conn EXCEPT ![d] = "connecting"]
    /\ UNCHANGED <<up, clients, bound, adding, client, key, retry, circuit, watched, reading, leased,
                   redundancy, outages, removals>>

(* record_failure; the count is not used above the threshold.              *)
FailureRecorded(d) ==
    LET fails == IF redundancy[d].fails < FailoverThreshold THEN redundancy[d].fails + 1
                 ELSE FailoverThreshold
    IN  IF redundancy[d].role = "primary" /\ fails = FailoverThreshold /\ Backup[d] # NoHost
        THEN [role |-> "backup", fails |-> 0, stable |-> 0]
        ELSE IF redundancy[d].role = "none" THEN redundancy[d] ELSE [redundancy[d] EXCEPT !.fails = fails]

(* record_success, auto_revert on.                                         *)
SuccessRecorded(d) ==
    LET stable == redundancy[d].stable + 1
    IN  CASE redundancy[d].role # "backup" -> [redundancy[d] EXCEPT !.fails = 0]
          [] stable >= StableCount    -> Registered
          [] OTHER                    -> [role |-> "backup", fails |-> 0, stable |-> stable]

\* Mutant of ConnectFails: the finished task stays registered.
ConnectFailsUnnoticed(d) ==
    /\ task[d].pc = "connect" /\ task[d].host \notin up
    /\ conn' = [conn EXCEPT ![d] = "disconnected"]
    /\ task' = [task EXCEPT ![d].pc = "failed"]
    /\ redundancy' = [redundancy EXCEPT ![d] = FailureRecorded(d)]
    /\ UNCHANGED <<up, clients, bound, adding, client, key, retry, circuit, watched, reading, leased,
                   outages, removals>>

ConnectFails(d) ==
    /\ task[d].pc = "connect" /\ task[d].host \notin up
    /\ task' = [task EXCEPT ![d] = NoTask]
    /\ conn' = [conn EXCEPT ![d] = "disconnected"]
    /\ redundancy' = [redundancy EXCEPT ![d] = FailureRecorded(d)]
    /\ UNCHANGED <<up, clients, bound, adding, client, key, retry, circuit, watched, reading, leased,
                   outages, removals>>

(* The reference to the old client is given back first, and the old client *)
(* goes: now, or when nobody uses it.                                      *)
Reconnects(d) ==
    LET h     == task[d].host
        old   == PoolClient(key[d])
        last  == old # NoClient /\ pool[key[d]].refs = 1
        left  == Left(key[d])
        c     == IF Connected(left[h].client) THEN left[h].client ELSE Fresh
    IN  /\ task[d].pc = "connect" /\ h \in up /\ RoomForClient
        /\ task' = [task EXCEPT ![d] = NoTask]
        /\ IF conn[d] = "connected"
           THEN UNCHANGED <<pool, stale, client, key, conn, retry, circuit, redundancy>>
           ELSE /\ client' = [client EXCEPT ![d] = c]
                /\ key' = [key EXCEPT ![d] = h]
                /\ pool' = [left EXCEPT ![h] = [client |-> c, refs |-> @.refs + 1]]
                /\ stale' = IF old = NoClient \/ (last /\ (MayClose(old) \/ ~Connected(old))) THEN stale
                            ELSE stale \cup {old}
                /\ retry' = [retry EXCEPT ![d] = 0]
                /\ circuit' = circuit \ {d}
                /\ conn' = [conn EXCEPT ![d] = "connected"]
                /\ redundancy' = [redundancy EXCEPT ![d] = SuccessRecorded(d)]
        /\ UNCHANGED <<up, bound, adding, watched, reading, leased, outages, removals>>
        /\ Follow(IF conn[d] = "connected" THEN socket
                  ELSE [(IF last /\ MayClose(old) THEN Closing(old) ELSE socket) EXCEPT ![c] = Open(h)])

-----------------------------------------------------------------------------
(* read_points and write_point: the client is leased while it is used.     *)

Read(d) ==
    /\ d \in bound \ adding /\ reading[d] = NoClient
    /\ IF Connected(client[d])
       THEN /\ reading' = [reading EXCEPT ![d] = client[d]]
            /\ leased' = leased \cup {client[d]}
            /\ UNCHANGED <<conn, retry, circuit, task>>
       ELSE Attempt(d) /\ UNCHANGED <<reading, leased>>
    /\ UNCHANGED <<up, clients, bound, adding, client, key, watched, redundancy, outages, removals>>

(* Between two points: the client may have been replaced, or the device    *)
(* removed.                                                                *)
ReadGoesOn(d) ==
    /\ reading[d] # NoClient
    /\ Connected(client[d]) => reading[d] # client[d]
    /\ IF Connected(client[d])
       THEN /\ reading' = [reading EXCEPT ![d] = client[d]]
            /\ leased' = (leased \ {reading[d]}) \cup {client[d]}
            /\ UNCHANGED <<conn, retry, circuit, task>>
       ELSE Attempt(d) /\ UNCHANGED <<reading, leased>>
    /\ UNCHANGED <<up, pool, stale, bound, adding, client, key, watched, redundancy, outages, removals>>
    /\ Follow(socket)

ReadEnds(d) ==
    /\ reading[d] # NoClient
    /\ reading' = [reading EXCEPT ![d] = NoClient]
    /\ leased' = leased \ {reading[d]}
    /\ UNCHANGED <<up, pool, stale, bound, adding, devices, redundancy, outages, removals>>
    /\ Follow(socket)

-----------------------------------------------------------------------------
(* _watchdog_loop, and the two ways a replaced client is closed in the end. *)

Watch(d) ==
    /\ d \in watched
    /\ IF Connected(client[d])
       THEN /\ circuit' = circuit \ {d}
            /\ conn' = [conn EXCEPT ![d] = "connected"]
            /\ UNCHANGED <<retry, task>>
       ELSE \/ /\ conn' = [conn EXCEPT ![d] = IF @ = "connected" THEN "disconnected" ELSE @]
               /\ UNCHANGED <<retry, circuit, task>>
            \/ task[d] = NoTask /\ d \notin circuit /\ Attempt(d)
    /\ UNCHANGED <<up, clients, bound, adding, client, key, watched, reading, leased, redundancy, outages, removals>>

\* Mutant of Without: the closed clients stay in the pool.
WithoutNobody(cs) == pool

Without(cs) == [h \in Hosts |-> IF pool[h].client \in cs THEN NoEntry ELSE pool[h]]

(* _stale_client_cleanup_loop.                                             *)
ForceClose ==
    \E c \in stale \ leased :
        /\ stale' = stale \ {c}
        /\ client' = [d \in Devices |-> IF client[d] = c THEN NoClient ELSE client[d]]
        /\ pool' = Without({c})
        /\ UNCHANGED <<up, bound, adding, key, conn, retry, circuit, task, watched, reading, leased,
                       redundancy, outages, removals>>
        /\ Follow(Closing(c))

(* _cleanup_stale_clients, called by the watchdogs: of the clients that    *)
(* are old, all lose their entries once one of them is closed.             *)
CleanUp ==
    \E old \in SUBSET stale :
        LET closing == {c \in old \ leased : Connected(c)}
        IN  /\ watched # {} /\ old \ leased # {}
            /\ stale' = stale \ (old \ leased)
            /\ pool' = IF closing = {} THEN pool ELSE Without(old)
            /\ UNCHANGED <<up, bound, adding, devices, reading, leased, redundancy, outages, removals>>
            /\ Follow([c \in Clients |-> IF c \in closing THEN [socket[c] EXCEPT !.link = "closed"]
                                         ELSE socket[c]])

(* An operator asks for it.                                                *)
ProbePrimary(d) ==
    /\ Primary[d] \in up
    /\ redundancy[d].role = "backup" /\ redundancy' = [redundancy EXCEPT ![d] = Registered]
    /\ UNCHANGED <<up, clients, bound, adding, devices, reading, leased, outages, removals>>

-----------------------------------------------------------------------------
DeviceStep(d) ==
    \/ AddDevice(d) \/ AddConnects(d) \/ AddFails(d) \/ RemoveDevice(d)
    \/ Wakes(d) \/ ConnectFails(d) \/ Reconnects(d)
    \/ Read(d) \/ ReadGoesOn(d) \/ ReadEnds(d)
    \/ Watch(d) \/ ProbePrimary(d)

Network == HostGoes \/ HostComes \/ ConnectionLost \/ LibraryReconnects

Next == Network \/ ForceClose \/ CleanUp \/ \E d \in Devices : DeviceStep(d)

Spec == Init /\ [][Next]_vars

(* The collector keeps reading, reads end, and the tasks run.              *)
FairSpec ==
    /\ Spec
    /\ WF_vars(ForceClose) /\ WF_vars(LibraryReconnects)
    /\ \A d \in Devices :
        /\ WF_vars(AddConnects(d) \/ AddFails(d))
        /\ WF_vars(Wakes(d) \/ ConnectFails(d) \/ Reconnects(d))
        /\ WF_vars(Read(d)) /\ WF_vars(ReadEnds(d))

-----------------------------------------------------------------------------
(* Properties.                                                             *)

PoolTypeOK ==
    /\ socket \in [Clients -> [link : {"up", "down", "closed"}, host : Hosts \cup {NoHost}]]
    /\ client \in [Devices -> Clients \cup {NoClient}] /\ key \in [Devices -> Hosts \cup {NoHost}]
    /\ reading \in [Devices -> Clients \cup {NoClient}]
    /\ leased \cup stale \subseteq Clients
    /\ pool \in [Hosts -> [client : Clients \cup {NoClient}, refs : Nat]]
    /\ \A h \in Hosts : pool[h] # NoEntry =>
         pool[h].client # NoClient /\ socket[pool[h].client].host = h /\ pool[h].refs > 0

TaskTypeOK ==
    /\ up \subseteq Hosts
    /\ bound \subseteq Devices /\ adding \subseteq bound /\ watched \subseteq bound
    /\ conn \in [Devices -> {"disconnected", "connecting", "connected", "offline"}]
    /\ retry \in [Devices -> 0..MaxAttempts] /\ circuit \subseteq Devices
    /\ task \in [Devices -> [pc : {"none", "sleep", "empty", "connect"}, host : Hosts \cup {NoHost}]]
    /\ redundancy \in [Devices -> [role : {"none", "primary", "backup"},
                                  fails : 0..FailoverThreshold, stable : 0..StableCount]]

TypeOK == PoolTypeOK /\ TaskTypeOK

\* A client in the pool can be given to the next device: nobody closed it,
\* whichever of the five places that close clients ran in between.
PooledIsOpen == \A h \in Hosts : pool[h] # NoEntry => socket[pool[h].client].link # "closed"

\* "A leased client may not be closed": while it is in _leased_clients.
LeasedIsNotClosed ==
    [][\A c \in leased \cap leased' : socket'[c].link = "closed" => socket[c].link = "closed"]_vars

\* A device whose host can be reached gets a connection, or is given up.
ComesBack ==
    \A d \in Devices :
        d \in bound ~> Connected(client[d]) \/ d \in circuit \/ d \notin bound \/ ActiveHost(d) \notin up

\* "Avoid that the devices oscillate": when nothing is lost, added or removed
\* any more, the connections stay.
Settles ==
    <>[](up = Hosts /\ bound = Devices /\ circuit = {}) =>
        <>[](\A d \in Devices : Connected(client[d]))
=============================================================================

-------------------------- MODULE ModbusPoolProofs --------------------------
(***************************************************************************)
(* Theorems about ModbusPool, for every number of devices, hosts, clients, *)
(* attempts, outages and removals.                                         *)
(***************************************************************************)
EXTENDS ModbusPool, TLAPS

(* What is in _leased_clients is in somebody's hands, so a client that is  *)
(* leased is not lost sight of.                                            *)
LeasedAreRead == leased \subseteq Range(reading)

IInv == TypeOK /\ PooledIsOpen /\ LeasedAreRead

Sockets == [link : {"up", "down", "closed"}, host : Hosts \cup {NoHost}]

(* The sockets s may be followed by s': whoever is still referred to keeps *)
(* what s says.                                                            *)
LEMMA Followed ==
    ASSUME NEW s \in [Clients -> Sockets], Follow(s)
    PROVE  /\ socket' \in [Clients -> Sockets]
           /\ \A c \in Clients : c \in Referenced' => socket'[c] = s[c]
BY DEF Follow, Sockets, Gone

(* A client in the pool, and a client that is read, is referred to.        *)
LEMMA PooledIsReferenced ==
    ASSUME NEW h \in Hosts
    PROVE  pool[h].client \in Referenced
BY DEF Referenced

LEMMA ReadIsReferenced == Range(reading) \subseteq Referenced
BY DEF Referenced

(* Two hosts have no client in common.                                     *)
LEMMA OwnClient ==
    ASSUME PoolTypeOK, NEW g \in Hosts, NEW h \in Hosts, g # h, pool[h] # NoEntry
    PROVE  pool[g].client # pool[h].client
BY DEF PoolTypeOK, NoEntry

LEMMA FreshIsNew ==
    ASSUME RoomForClient
    PROVE  Fresh \in Clients /\ Fresh \notin Referenced
BY DEF RoomForClient, Fresh

(* A pool entry is sound in the sockets s.                                 *)
Sound(entry, h, s) ==
    entry # NoEntry => /\ entry.client # NoClient /\ entry.refs > 0
                       /\ s[entry.client].host = h /\ s[entry.client].link # "closed"

Entries == [client : Clients \cup {NoClient}, refs : Nat]

LEMMA PoolIsSound ==
    ASSUME IInv
    PROVE  /\ socket \in [Clients -> Sockets] /\ pool \in [Hosts -> Entries]
           /\ \A h \in Hosts : Sound(pool[h], h, socket)
           /\ \A h \in Hosts : pool[h] # NoEntry => pool[h].client \in Clients
BY DEF IInv, TypeOK, PoolTypeOK, PooledIsOpen, Sockets, Entries, Sound

(* A step that follows sockets in which its pool is sound keeps the        *)
(* invariant of the pool.                                                  *)
LEMMA SoundStep ==
    ASSUME NEW s \in [Clients -> Sockets], Follow(s),
           pool' \in [Hosts -> Entries],
           \A h \in Hosts : Sound(pool'[h], h, s),
           client' \in [Devices -> Clients \cup {NoClient}],
           key' \in [Devices -> Hosts \cup {NoHost}],
           reading' \in [Devices -> Clients \cup {NoClient}],
           leased' \subseteq Clients, stale' \subseteq Clients
    PROVE  PoolTypeOK' /\ PooledIsOpen'
<1>1. /\ socket' \in [Clients -> Sockets]
      /\ \A c \in Clients : c \in Referenced' => socket'[c] = s[c]
  BY Followed
<1>2. ASSUME NEW h \in Hosts, pool'[h] # NoEntry
      PROVE  /\ pool'[h].client # NoClient /\ pool'[h].refs > 0
             /\ socket'[pool'[h].client].host = h /\ socket'[pool'[h].client].link # "closed"
  <2>1. pool'[h].client \in Clients
    BY <1>2 DEF Entries, Sound
  <2>2. pool'[h].client \in Referenced'
    BY DEF Referenced
  <2>3. QED
    BY <1>1, <1>2, <2>1, <2>2 DEF Sound
<1>3. QED
  BY <1>1, <1>2 DEF PoolTypeOK, PooledIsOpen, Sockets, Entries

LEMMA InitHolds == Init => IInv
BY HostAssumption, CountAssumption
   DEF Init, TypeOK, PoolTypeOK, TaskTypeOK, IInv, PooledIsOpen, LeasedAreRead, NoEntry, Gone, NoTask,
       Unregistered

-----------------------------------------------------------------------------
(* The network.                                                            *)

LEMMA NetworkStep == IInv /\ Network => IInv'
<1> SUFFICES ASSUME IInv, Network PROVE IInv'
  OBVIOUS
<1>1. /\ socket' \in [Clients -> Sockets]
      /\ \A c \in Clients : /\ socket'[c].host = socket[c].host
                            /\ socket[c].link # "closed" => socket'[c].link # "closed"
  <2>1. ASSUME NEW cs, Drop(cs)
        PROVE  /\ socket' \in [Clients -> Sockets]
               /\ \A c \in Clients : /\ socket'[c].host = socket[c].host
                                     /\ socket[c].link # "closed" => socket'[c].link # "closed"
    BY <2>1, PoolIsSound DEF Drop, Sockets
  <2>2. CASE HostGoes
    BY <2>1, <2>2 DEF HostGoes
  <2>3. CASE HostComes
    BY <2>3, PoolIsSound DEF HostComes, clients
  <2>4. CASE ConnectionLost
    BY <2>1, <2>4 DEF ConnectionLost
  <2>5. CASE LibraryReconnects
    BY <2>5, PoolIsSound DEF LibraryReconnects, Sockets
  <2>6. QED
    BY <2>2, <2>3, <2>4, <2>5 DEF Network
<1>2. UNCHANGED <<pool, stale, bound, adding, devices, reading, leased, redundancy>> /\ up' \subseteq Hosts
  BY DEF IInv, TypeOK, TaskTypeOK, Network, HostGoes, HostComes, ConnectionLost, LibraryReconnects, clients
<1>3. PoolTypeOK' /\ PooledIsOpen'
  BY <1>1, <1>2, PoolIsSound
     DEF IInv, TypeOK, PoolTypeOK, PooledIsOpen, devices, Sockets, Entries, Sound
<1>4. TaskTypeOK' /\ LeasedAreRead'
  BY <1>2 DEF IInv, TypeOK, TaskTypeOK, LeasedAreRead, devices
<1>5. QED
  BY <1>3, <1>4 DEF IInv, TypeOK

-----------------------------------------------------------------------------
(* add_device and remove_device.                                           *)

(* A pool without one reference to a host's client is sound in the same    *)
(* sockets; when the reference was the last one, the client is nobody's.   *)
LEMMA LeftIsSound ==
    ASSUME IInv, NEW h \in Hosts \cup {NoHost}
    PROVE  /\ Left(h) \in [Hosts -> Entries]
           /\ \A g \in Hosts : Sound(Left(h)[g], g, socket)
           /\ \A g \in Hosts : Left(h)[g] # NoEntry => Left(h)[g].client = pool[g].client /\ pool[g] # NoEntry
           /\ PoolClient(h) # NoClient =>
                /\ PoolClient(h) \in Clients
                /\ h \in Hosts /\ pool[h] # NoEntry
                /\ pool[h].refs = 1 =>
                     \A g \in Hosts : Left(h)[g] # NoEntry => Left(h)[g].client # PoolClient(h)
<1>1. Left(h) \in [Hosts -> Entries]
  BY PoolIsSound DEF Left, Entries, NoEntry
<1>2. \A g \in Hosts : Left(h)[g] # NoEntry => Left(h)[g].client = pool[g].client /\ pool[g] # NoEntry
  BY PoolIsSound DEF Left, Entries, NoEntry
<1>3. ASSUME NEW g \in Hosts PROVE Sound(Left(h)[g], g, socket)
  BY PoolIsSound DEF Left, Entries, NoEntry, Sound
<1>4. ASSUME PoolClient(h) # NoClient
      PROVE  /\ PoolClient(h) \in Clients
             /\ h \in Hosts /\ pool[h] # NoEntry
             /\ pool[h].refs = 1 =>
                  \A g \in Hosts : Left(h)[g] # NoEntry => Left(h)[g].client # PoolClient(h)
  <2>1. h \in Hosts /\ pool[h] # NoEntry /\ PoolClient(h) = pool[h].client /\ pool[h].client \in Clients
    BY <1>4, PoolIsSound, HostAssumption DEF PoolClient, NoEntry, Entries
  <2>2. ASSUME pool[h].refs = 1, NEW g \in Hosts, Left(h)[g] # NoEntry
        PROVE  Left(h)[g].client # PoolClient(h)
    <3>1. g # h
      BY <2>1, <2>2 DEF Left
    <3>2. QED
      BY <1>2, <2>1, <2>2, <3>1, OwnClient DEF IInv, TypeOK
  <2>3. QED
    BY <2>1, <2>2
<1>5. QED
  BY <1>1, <1>2, <1>3, <1>4

LEMMA AddDeviceStep == ASSUME IInv, NEW d \in Devices, AddDevice(d) PROVE IInv'
<1> DEFINE h == Primary[d]
<1>0. h \in Hosts
  BY HostAssumption
<1>1. PoolTypeOK' /\ PooledIsOpen'
  <2>1. CASE Connected(pool[h].client)
    <3>1. pool[h] # NoEntry
      BY <2>1 DEF NoEntry, Connected
    <3>2. Joined(h, d, pool[h].client, pool[h].refs + 1) /\ UNCHANGED <<stale, reading, leased>> /\ Follow(socket)
      BY <2>1 DEF AddDevice
    <3>3. /\ pool' \in [Hosts -> Entries]
          /\ \A g \in Hosts : Sound(pool'[g], g, socket)
      BY <1>0, <3>1, <3>2, PoolIsSound DEF Joined, Entries, Sound
    <3>4. QED
      BY <1>0, <3>1, <3>2, <3>3, PoolIsSound, SoundStep DEF Joined, IInv, TypeOK, PoolTypeOK
  <2>2. CASE ~Connected(pool[h].client)
    <3>1. pool' = [pool EXCEPT ![h] = NoEntry] /\ UNCHANGED <<client, key, stale, reading, leased>> /\ Follow(socket)
      BY <2>2 DEF AddDevice
    <3>2. /\ pool' \in [Hosts -> Entries]
          /\ \A g \in Hosts : Sound(pool'[g], g, socket)
      BY <1>0, <3>1, PoolIsSound DEF Entries, Sound, NoEntry
    <3>3. QED
      BY <3>1, <3>2, PoolIsSound, SoundStep DEF IInv, TypeOK, PoolTypeOK
  <2>3. QED
    BY <2>1, <2>2
<1>2. TaskTypeOK'
  <2>1. /\ UNCHANGED <<up, conn, circuit, task>> /\ bound' = bound \cup {d}
        /\ adding' \subseteq adding \cup {d} /\ watched' \subseteq watched \cup {d}
        /\ redundancy' = [redundancy EXCEPT ![d] = Registered]
        /\ retry' = retry \/ retry' = [retry EXCEPT ![d] = 0]
    BY DEF AddDevice
  <2>2. retry' \in [Devices -> 0..MaxAttempts]
    BY <2>1, CountAssumption DEF IInv, TypeOK, TaskTypeOK
  <2>3. redundancy' \in [Devices -> [role : {"none", "primary", "backup"},
                                     fails : 0..FailoverThreshold, stable : 0..StableCount]]
    BY <2>1, CountAssumption DEF IInv, TypeOK, TaskTypeOK, Registered, Unregistered
  <2>4. QED
    BY <2>1, <2>2, <2>3 DEF IInv, TypeOK, TaskTypeOK
<1>3. QED
  BY <1>1, <1>2 DEF IInv, TypeOK, LeasedAreRead, AddDevice

LEMMA AddConnectsStep == ASSUME IInv, NEW d \in Devices, AddConnects(d) PROVE IInv'
<1> DEFINE h == Primary[d]
           s == IF pool[h] # NoEntry THEN socket ELSE [socket EXCEPT ![Fresh] = Open(h)]
<1>0. h \in Hosts
  BY HostAssumption
<1>1. PoolTypeOK' /\ PooledIsOpen'
  <2>1. UNCHANGED <<stale, reading, leased>> /\ Follow(s)
    BY DEF AddConnects
  <2>2. CASE pool[h] # NoEntry
    <3>1. Joined(h, d, pool[h].client, pool[h].refs + 1)
      BY <2>2 DEF AddConnects
    <3>2. /\ pool' \in [Hosts -> Entries]
          /\ \A g \in Hosts : Sound(pool'[g], g, socket)
      BY <1>0, <2>2, <3>1, PoolIsSound DEF Joined, Entries, Sound
    <3>3. QED
      BY <1>0, <2>1, <2>2, <3>1, <3>2, PoolIsSound, SoundStep DEF Joined, IInv, TypeOK, PoolTypeOK
  <2>3. CASE pool[h] = NoEntry
    <3>1. Joined(h, d, Fresh, 1) /\ RoomForClient
      BY <2>3 DEF AddConnects
    <3>2. Fresh \in Clients /\ s \in [Clients -> Sockets] /\ s[Fresh] = Open(h)
          /\ \A c \in Clients \ {Fresh} : s[c] = socket[c]
      BY <1>0, <2>3, <3>1, FreshIsNew, PoolIsSound DEF Sockets, Open
    <3>3. \A g \in Hosts : pool[g].client # Fresh
      BY <3>1, FreshIsNew, PooledIsReferenced
    <3>4. /\ pool' \in [Hosts -> Entries]
          /\ \A g \in Hosts : Sound(pool'[g], g, s)
      BY <1>0, <3>1, <3>2, <3>3, PoolIsSound, HostAssumption DEF Joined, Entries, Sound, Open
    <3>5. client' \in [Devices -> Clients \cup {NoClient}] /\ key' \in [Devices -> Hosts \cup {NoHost}]
      BY <1>0, <3>1, <3>2 DEF Joined, IInv, TypeOK, PoolTypeOK
    <3>6. QED
      BY <2>1, <3>2, <3>4, <3>5, SoundStep DEF IInv, TypeOK, PoolTypeOK
  <2>4. QED
    BY <2>2, <2>3
<1>2. TaskTypeOK'
  BY CountAssumption DEF AddConnects, IInv, TypeOK, TaskTypeOK, Joined
<1>3. QED
  BY <1>1, <1>2 DEF IInv, TypeOK, LeasedAreRead, AddConnects

LEMMA AddFailsStep == ASSUME IInv, NEW d \in Devices, AddFails(d) PROVE IInv'
<1>1. PoolTypeOK' /\ PooledIsOpen'
  BY PoolIsSound, SoundStep DEF AddFails, IInv, TypeOK, PoolTypeOK
<1>2. TaskTypeOK'
  BY DEF AddFails, IInv, TypeOK, TaskTypeOK
<1>3. QED
  BY <1>1, <1>2 DEF IInv, TypeOK, LeasedAreRead, AddFails

LEMMA RemoveDeviceStep == ASSUME IInv, NEW d \in Devices, RemoveDevice(d) PROVE IInv'
<1> DEFINE h == key[d]
           c == PoolClient(h)
           last == c # NoClient /\ pool[h].refs = 1
           s == IF last /\ MayClose(c) THEN Closing(c) ELSE socket
<1>0. h \in Hosts \cup {NoHost}
  BY DEF IInv, TypeOK, PoolTypeOK
<1>1. PoolTypeOK' /\ PooledIsOpen'
  <2>1. /\ UNCHANGED <<reading, leased>> /\ Follow(s) /\ pool' = Left(h)
        /\ client' = [client EXCEPT ![d] = NoClient] /\ key' = [key EXCEPT ![d] = NoHost]
    BY DEF RemoveDevice
  <2>2. stale' \subseteq Clients
    BY <1>0, LeftIsSound DEF RemoveDevice, IInv, TypeOK, PoolTypeOK
  <2>3. s \in [Clients -> Sockets]
    BY <1>0, PoolIsSound DEF Closing, Sockets
  <2>4. /\ pool' \in [Hosts -> Entries]
        /\ \A g \in Hosts : Sound(pool'[g], g, s)
    BY <1>0, <2>1, LeftIsSound, PoolIsSound DEF Closing, Sound, Entries
  <2>5. QED
    BY <2>1, <2>2, <2>3, <2>4, SoundStep DEF IInv, TypeOK, PoolTypeOK
<1>2. TaskTypeOK'
  BY CountAssumption DEF RemoveDevice, IInv, TypeOK, TaskTypeOK, Unregistered
<1>3. QED
  BY <1>1, <1>2 DEF IInv, TypeOK, LeasedAreRead, RemoveDevice

-----------------------------------------------------------------------------
(* _try_reconnect.                                                         *)

LEMMA AttemptTypes ==
    ASSUME IInv, NEW d \in Devices, Attempt(d)
    PROVE  /\ conn' \in [Devices -> {"disconnected", "connecting", "connected", "offline"}]
           /\ retry' \in [Devices -> 0..MaxAttempts] /\ circuit' \subseteq Devices
           /\ task' \in [Devices -> [pc : {"none", "sleep", "empty", "connect"}, host : Hosts \cup {NoHost}]]
<1>1. /\ conn' \in [Devices -> {"disconnected", "connecting", "connected", "offline"}]
      /\ circuit' \subseteq Devices
  BY DEF Attempt, IInv, TypeOK, TaskTypeOK
<1>2. retry' \in [Devices -> 0..MaxAttempts]
  <2>1. /\ retry \in [Devices -> 0..MaxAttempts] /\ MaxAttempts \in Nat
        /\ \/ retry' = retry
           \/ retry' = [retry EXCEPT ![d] = 0]
           \/ retry[d] < MaxAttempts /\ retry' = [retry EXCEPT ![d] = @ + 1]
    BY CountAssumption DEF Attempt, IInv, TypeOK, TaskTypeOK
  <2>2. QED
    BY <2>1
<1>3. task' = task \/ task' = [task EXCEPT ![d].pc = "sleep"] \/ task' = [task EXCEPT ![d].pc = "empty"]
  BY DEF Attempt
<1>4. task' \in [Devices -> [pc : {"none", "sleep", "empty", "connect"}, host : Hosts \cup {NoHost}]]
  BY <1>3 DEF IInv, TypeOK, TaskTypeOK
<1>5. QED
  BY <1>1, <1>2, <1>4

LEMMA ActiveHostType ==
    ASSUME NEW d \in Devices
    PROVE  ActiveHost(d) \in Hosts \cup {NoHost}
BY HostAssumption DEF ActiveHost

LEMMA WakesStep == ASSUME IInv, NEW d \in Devices, Wakes(d) PROVE IInv'
<1>1. PoolTypeOK' /\ PooledIsOpen' /\ LeasedAreRead'
  BY DEF Wakes, clients, IInv, TypeOK, PoolTypeOK, PooledIsOpen, LeasedAreRead
<1>2. TaskTypeOK'
  <2>1. \E t \in [pc : {"none", "sleep", "empty", "connect"}, host : Hosts \cup {NoHost}] :
          task' = [task EXCEPT ![d] = t]
    BY ActiveHostType DEF Wakes, NoTask
  <2>2. task' \in [Devices -> [pc : {"none", "sleep", "empty", "connect"}, host : Hosts \cup {NoHost}]]
    BY <2>1 DEF IInv, TypeOK, TaskTypeOK
  <2>3. QED
    BY <2>2 DEF Wakes, clients, IInv, TypeOK, TaskTypeOK
<1>3. QED
  BY <1>1, <1>2 DEF IInv, TypeOK

LEMMA RecordedTypes ==
    ASSUME IInv, NEW d \in Devices
    PROVE  /\ FailureRecorded(d) \in [role : {"none", "primary", "backup"},
                                      fails : 0..FailoverThreshold, stable : 0..StableCount]
           /\ SuccessRecorded(d) \in [role : {"none", "primary", "backup"},
                                      fails : 0..FailoverThreshold, stable : 0..StableCount]
BY CountAssumption
   DEF FailureRecorded, SuccessRecorded, Registered, Unregistered, IInv, TypeOK, TaskTypeOK

LEMMA ConnectFailsStep == ASSUME IInv, NEW d \in Devices, ConnectFails(d) PROVE IInv'
<1>1. PoolTypeOK' /\ PooledIsOpen' /\ LeasedAreRead'
  BY DEF ConnectFails, clients, IInv, TypeOK, PoolTypeOK, PooledIsOpen, LeasedAreRead
<1>2. TaskTypeOK'
  BY RecordedTypes DEF ConnectFails, IInv, TypeOK, TaskTypeOK, NoTask
<1>3. QED
  BY <1>1, <1>2 DEF IInv, TypeOK

(* The client that is closed belongs to no entry any more, and the client  *)
(* that takes its place is new, or one that is connected already.          *)
LEMMA ReconnectsStep == ASSUME IInv, NEW d \in Devices, Reconnects(d) PROVE IInv'
<1> DEFINE h == task[d].host
           old == PoolClient(key[d])
           last == old # NoClient /\ pool[key[d]].refs = 1
           left == Left(key[d])
           c == IF Connected(left[h].client) THEN left[h].client ELSE Fresh
           closed == IF last /\ MayClose(old) THEN Closing(old) ELSE socket
           s == [closed EXCEPT ![c] = Open(h)]
<1>0. h \in Hosts /\ key[d] \in Hosts \cup {NoHost} /\ RoomForClient
  BY DEF Reconnects, IInv, TypeOK, PoolTypeOK, TaskTypeOK
<1>1. PoolTypeOK' /\ PooledIsOpen'
  <2>1. CASE conn[d] = "connected"
    <3>1. UNCHANGED <<pool, stale, client, key, reading, leased>> /\ Follow(socket)
      BY <2>1 DEF Reconnects
    <3>2. QED
      BY <3>1, PoolIsSound, SoundStep DEF IInv, TypeOK, PoolTypeOK
  <2>2. CASE conn[d] # "connected"
    <3>1. /\ client' = [client EXCEPT ![d] = c] /\ key' = [key EXCEPT ![d] = h]
          /\ pool' = [left EXCEPT ![h] = [client |-> c, refs |-> @.refs + 1]]
          /\ UNCHANGED <<reading, leased>> /\ Follow(s)
      BY <2>2 DEF Reconnects
    <3>2. stale' \subseteq Clients
      BY <1>0, <2>2, LeftIsSound DEF Reconnects, IInv, TypeOK, PoolTypeOK
    <3>3. /\ left \in [Hosts -> Entries]
          /\ \A g \in Hosts : Sound(left[g], g, socket)
          /\ \A g \in Hosts : left[g] # NoEntry => left[g].client = pool[g].client /\ pool[g] # NoEntry
      BY <1>0, LeftIsSound
    <3>4. /\ closed \in [Clients -> Sockets]
          /\ \A g \in Hosts : Sound(left[g], g, closed)
      <4>1. CASE last /\ MayClose(old)
        <5>1. /\ closed = Closing(old) /\ old \in Clients
              /\ \A g \in Hosts : left[g] # NoEntry => left[g].client # old
          BY <1>0, <4>1, LeftIsSound
        <5>2. closed \in [Clients -> Sockets] /\ \A b \in Clients \ {old} : closed[b] = socket[b]
          BY <5>1, PoolIsSound DEF Closing, Sockets
        <5>3. QED
          BY <3>3, <5>1, <5>2 DEF Sound, Entries
      <4>2. CASE ~(last /\ MayClose(old))
        BY <3>3, <4>2, PoolIsSound
      <4>3. QED
        BY <4>1, <4>2
    <3>5. c \in Clients /\ c # NoClient
      BY <1>0, <3>3, FreshIsNew, HostAssumption DEF Connected, Entries
    <3>6. ASSUME NEW g \in Hosts, g # h, left[g] # NoEntry PROVE left[g].client # c
      <4>1. CASE Connected(left[h].client)
        <5>1. left[h] # NoEntry
          BY <4>1 DEF Connected, NoEntry
        <5>2. pool[g].client # pool[h].client
          BY <1>0, <3>3, <3>6, <5>1, OwnClient DEF IInv, TypeOK
        <5>3. QED
          BY <1>0, <3>3, <3>6, <4>1, <5>1, <5>2
      <4>2. CASE ~Connected(left[h].client)
        BY <1>0, <3>3, <3>6, <4>2, FreshIsNew, PooledIsReferenced
      <4>3. QED
        BY <4>1, <4>2
    <3>7. s \in [Clients -> Sockets]
      BY <1>0, <3>4 DEF Sockets, Open
    <3>8. /\ pool' \in [Hosts -> Entries]
          /\ \A g \in Hosts : g # h => pool'[g] = left[g]
          /\ pool'[h].client = c /\ pool'[h].refs > 0
      BY <1>0, <3>1, <3>3, <3>5 DEF Entries
    <3>9. ASSUME NEW g \in Hosts PROVE Sound(pool'[g], g, s)
      <4>1. CASE g = h
        BY <1>0, <3>4, <3>5, <3>8, <4>1 DEF Sound, Open, Sockets
      <4>2. CASE g # h
        BY <3>3, <3>4, <3>6, <3>8, <4>2 DEF Sound, Entries
      <4>3. QED
        BY <4>1, <4>2
    <3>10. client' \in [Devices -> Clients \cup {NoClient}] /\ key' \in [Devices -> Hosts \cup {NoHost}]
      BY <1>0, <3>1, <3>5 DEF IInv, TypeOK, PoolTypeOK
    <3> HIDE DEF s
    <3>11. QED
      BY <3>1, <3>2, <3>7, <3>8, <3>9, <3>10, SoundStep DEF IInv, TypeOK, PoolTypeOK
  <2>3. QED
    BY <2>1, <2>2
<1>2. TaskTypeOK'
  <2>1. /\ UNCHANGED <<up, bound, adding, watched>>
        /\ task' = [task EXCEPT ![d] = NoTask]
        /\ conn' = conn \/ conn' = [conn EXCEPT ![d] = "connected"]
        /\ retry' = retry \/ retry' = [retry EXCEPT ![d] = 0]
        /\ circuit' \subseteq circuit
        /\ redundancy' = redundancy \/ redundancy' = [redundancy EXCEPT ![d] = SuccessRecorded(d)]
    BY DEF Reconnects
  <2>2. task' \in [Devices -> [pc : {"none", "sleep", "empty", "connect"}, host : Hosts \cup {NoHost}]]
    BY <2>1 DEF IInv, TypeOK, TaskTypeOK, NoTask
  <2>3. retry' \in [Devices -> 0..MaxAttempts]
    BY <2>1, CountAssumption DEF IInv, TypeOK, TaskTypeOK
  <2>4. redundancy' \in [Devices -> [role : {"none", "primary", "backup"},
                                     fails : 0..FailoverThreshold, stable : 0..StableCount]]
    BY <2>1, RecordedTypes DEF IInv, TypeOK, TaskTypeOK
  <2>5. QED
    BY <2>1, <2>2, <2>3, <2>4 DEF IInv, TypeOK, TaskTypeOK
<1>3. QED
  BY <1>1, <1>2 DEF IInv, TypeOK, LeasedAreRead, Reconnects

-----------------------------------------------------------------------------
(* read_points.                                                            *)

LEMMA ReadStep == ASSUME IInv, NEW d \in Devices, Read(d) PROVE IInv'
<1>1. PoolTypeOK' /\ PooledIsOpen'
  BY DEF Read, clients, Connected, IInv, TypeOK, PoolTypeOK, PooledIsOpen
<1>2. LeasedAreRead'
  <2>1. \/ reading' = [reading EXCEPT ![d] = client[d]] /\ leased' = leased \cup {client[d]}
        \/ UNCHANGED <<reading, leased>>
    BY DEF Read
  <2>2. reading[d] = NoClient /\ NoClient \notin leased /\ reading \in [Devices -> Clients \cup {NoClient}]
    BY HostAssumption DEF Read, IInv, TypeOK, PoolTypeOK
  <2>3. QED
    BY <2>1, <2>2 DEF IInv, LeasedAreRead, Range
<1>3. TaskTypeOK'
  <2>1. Attempt(d) \/ UNCHANGED <<conn, retry, circuit, task>>
    BY DEF Read
  <2>2. QED
    BY <2>1, AttemptTypes DEF Read, IInv, TypeOK, TaskTypeOK
<1>4. QED
  BY <1>1, <1>2, <1>3 DEF IInv, TypeOK

LEMMA ReadGoesOnStep == ASSUME IInv, NEW d \in Devices, ReadGoesOn(d) PROVE IInv'
<1>1. /\ UNCHANGED <<pool, client, key, stale>> /\ Follow(socket)
      /\ \/ /\ client[d] \in Clients /\ reading' = [reading EXCEPT ![d] = client[d]]
            /\ leased' = (leased \ {reading[d]}) \cup {client[d]}
         \/ UNCHANGED <<reading, leased>>
  BY DEF ReadGoesOn, Connected, IInv, TypeOK, PoolTypeOK
<1>2. PoolTypeOK' /\ PooledIsOpen'
  <2>1. leased' \subseteq Clients /\ reading' \in [Devices -> Clients \cup {NoClient}]
    BY <1>1 DEF IInv, TypeOK, PoolTypeOK
  <2>2. QED
    BY <1>1, <2>1, PoolIsSound, SoundStep DEF IInv, TypeOK, PoolTypeOK
<1>3. LeasedAreRead'
  BY <1>1 DEF IInv, TypeOK, PoolTypeOK, LeasedAreRead, Range
<1>4. TaskTypeOK'
  <2>1. Attempt(d) \/ UNCHANGED <<conn, retry, circuit, task>>
    BY DEF ReadGoesOn
  <2>2. QED
    BY <2>1, AttemptTypes DEF ReadGoesOn, IInv, TypeOK, TaskTypeOK
<1>5. QED
  BY <1>2, <1>3, <1>4 DEF IInv, TypeOK

LEMMA ReadEndsStep == ASSUME IInv, NEW d \in Devices, ReadEnds(d) PROVE IInv'
<1>1. /\ UNCHANGED <<pool, client, key, stale, conn, retry, circuit, task, watched>> /\ Follow(socket)
      /\ reading' = [reading EXCEPT ![d] = NoClient] /\ leased' = leased \ {reading[d]}
  BY DEF ReadEnds, devices
<1>2. PoolTypeOK' /\ PooledIsOpen'
  BY <1>1, PoolIsSound, SoundStep DEF IInv, TypeOK, PoolTypeOK
<1>3. LeasedAreRead'
  BY <1>1 DEF IInv, TypeOK, PoolTypeOK, LeasedAreRead, Range
<1>4. TaskTypeOK'
  BY <1>1 DEF ReadEnds, IInv, TypeOK, TaskTypeOK
<1>5. QED
  BY <1>2, <1>3, <1>4 DEF IInv, TypeOK

-----------------------------------------------------------------------------
(* The watchdog, and the tasks that close what was replaced.               *)

LEMMA WatchStep == ASSUME IInv, NEW d \in Devices, Watch(d) PROVE IInv'
<1>1. PoolTypeOK' /\ PooledIsOpen' /\ LeasedAreRead'
  BY DEF Watch, clients, IInv, TypeOK, PoolTypeOK, PooledIsOpen, LeasedAreRead
<1>2. TaskTypeOK'
  <2>1. \/ Attempt(d)
        \/ /\ \E state \in {"disconnected", "connected", conn[d]} : conn' = [conn EXCEPT ![d] = state]
           /\ circuit' \subseteq circuit /\ UNCHANGED <<retry, task>>
    BY DEF Watch
  <2>2. UNCHANGED <<up, bound, adding, watched, redundancy>>
    BY DEF Watch
  <2>3. CASE Attempt(d)
    BY <2>2, <2>3, AttemptTypes DEF IInv, TypeOK, TaskTypeOK
  <2>4. CASE /\ \E state \in {"disconnected", "connected", conn[d]} : conn' = [conn EXCEPT ![d] = state]
             /\ circuit' \subseteq circuit /\ UNCHANGED <<retry, task>>
    BY <2>2, <2>4 DEF IInv, TypeOK, TaskTypeOK
  <2>5. QED
    BY <2>1, <2>3, <2>4
<1>3. QED
  BY <1>1, <1>2 DEF IInv, TypeOK

(* Clients are taken out of the pool, and some of them are closed.         *)
LEMMA WithoutIsSound ==
    ASSUME IInv, NEW cs, NEW s \in [Clients -> Sockets],
           \A c \in Clients : c \in cs \/ s[c] = socket[c]
    PROVE  /\ Without(cs) \in [Hosts -> Entries]
           /\ \A h \in Hosts : Sound(Without(cs)[h], h, s)
BY PoolIsSound DEF Without, Entries, Sound, NoEntry

LEMMA ForceCloseStep == IInv /\ ForceClose => IInv'
<1> SUFFICES ASSUME IInv, ForceClose PROVE IInv'
  OBVIOUS
<1>1. PICK c \in stale \ leased :
        /\ stale' = stale \ {c}
        /\ client' = [d \in Devices |-> IF client[d] = c THEN NoClient ELSE client[d]]
        /\ pool' = Without({c}) /\ Follow(Closing(c))
        /\ UNCHANGED <<key, reading, leased>>
        /\ UNCHANGED <<up, bound, adding, conn, retry, circuit, task, watched, redundancy>>
  BY DEF ForceClose
<1>2. c \in Clients
  BY <1>1 DEF IInv, TypeOK, PoolTypeOK
<1>3. Closing(c) \in [Clients -> Sockets] /\ \A b \in Clients : b \in {c} \/ Closing(c)[b] = socket[b]
  BY <1>2, PoolIsSound DEF Closing, Sockets
<1>4. PoolTypeOK' /\ PooledIsOpen'
  BY <1>1, <1>2, <1>3, WithoutIsSound, SoundStep DEF IInv, TypeOK, PoolTypeOK
<1>5. TaskTypeOK' /\ LeasedAreRead'
  BY <1>1 DEF IInv, TypeOK, TaskTypeOK, LeasedAreRead
<1>6. QED
  BY <1>4, <1>5 DEF IInv, TypeOK

(* The sockets when the clients cs are closed.                             *)
ClosingAll(cs) ==
    [c \in Clients |-> IF c \in cs THEN [socket[c] EXCEPT !.link = "closed"] ELSE socket[c]]

LEMMA CleanUpStep == IInv /\ CleanUp => IInv'
<1> SUFFICES ASSUME IInv, CleanUp PROVE IInv'
  OBVIOUS
<1>1. PICK old \in SUBSET stale :
        LET closing == {c \in old \ leased : Connected(c)}
        IN  /\ stale' = stale \ (old \ leased)
            /\ pool' = IF closing = {} THEN pool ELSE Without(old)
            /\ Follow(ClosingAll(closing))
            /\ UNCHANGED <<client, key, reading, leased>>
            /\ UNCHANGED <<up, bound, adding, conn, retry, circuit, task, watched, redundancy>>
  BY DEF CleanUp, devices, ClosingAll
<1> DEFINE closing == {c \in old \ leased : Connected(c)}
<1>2. /\ ClosingAll(closing) \in [Clients -> Sockets]
      /\ \A c \in Clients : c \in old \/ ClosingAll(closing)[c] = socket[c]
  BY PoolIsSound DEF ClosingAll, Sockets
<1>3. pool' \in [Hosts -> Entries] /\ \A h \in Hosts : Sound(pool'[h], h, ClosingAll(closing))
  <2>1. CASE closing = {}
    <3>1. ClosingAll(closing) = socket
      BY <2>1, PoolIsSound DEF ClosingAll
    <3>2. QED
      BY <1>1, <2>1, <3>1, PoolIsSound
  <2>2. CASE closing # {}
    BY <1>1, <1>2, <2>2, WithoutIsSound
  <2>3. QED
    BY <2>1, <2>2
<1>4. PoolTypeOK' /\ PooledIsOpen'
  BY <1>1, <1>2, <1>3, SoundStep DEF IInv, TypeOK, PoolTypeOK
<1>5. TaskTypeOK' /\ LeasedAreRead'
  BY <1>1 DEF IInv, TypeOK, TaskTypeOK, LeasedAreRead
<1>6. QED
  BY <1>4, <1>5 DEF IInv, TypeOK

LEMMA ProbePrimaryStep == ASSUME IInv, NEW d \in Devices, ProbePrimary(d) PROVE IInv'
<1>1. PoolTypeOK' /\ PooledIsOpen' /\ LeasedAreRead'
  BY DEF ProbePrimary, clients, devices, IInv, TypeOK, PoolTypeOK, PooledIsOpen, LeasedAreRead
<1>2. TaskTypeOK'
  BY CountAssumption DEF ProbePrimary, devices, IInv, TypeOK, TaskTypeOK, Registered, Unregistered
<1>3. QED
  BY <1>1, <1>2 DEF IInv, TypeOK

-----------------------------------------------------------------------------
(* Every step of the driver.                                               *)

LEMMA IInvNext == IInv /\ [Next]_vars => IInv'
<1> SUFFICES ASSUME IInv, [Next]_vars PROVE IInv'
  OBVIOUS
<1>1. ASSUME NEW d \in Devices, DeviceStep(d) PROVE IInv'
  BY <1>1, AddDeviceStep, AddConnectsStep, AddFailsStep, RemoveDeviceStep, WakesStep, ConnectFailsStep,
     ReconnectsStep, ReadStep, ReadGoesOnStep, ReadEndsStep, WatchStep, ProbePrimaryStep
     DEF DeviceStep
<1>2. CASE UNCHANGED vars
  BY <1>2 DEF vars, clients, devices, IInv, TypeOK, PoolTypeOK, TaskTypeOK, PooledIsOpen, LeasedAreRead
<1>3. QED
  BY <1>1, <1>2, NetworkStep, ForceCloseStep, CleanUpStep DEF Next

(* The invariant of the driver's connections holds in every behaviour.     *)
LEMMA Invariant == Spec => []IInv
<1>1. QED
  BY InitHolds, IInvNext, PTL DEF Spec

(* _connection_pool, _clients, _stale_clients, the tasks and the           *)
(* redundancy manager keep their types; a host's entry holds a client of   *)
(* that host, and counts at least one reference.                           *)
THEOREM TypesHold == Spec => []TypeOK
<1>1. IInv => TypeOK
  BY DEF IInv
<1>2. QED
  BY <1>1, Invariant, PTL

(* The client add_device and _try_reconnect find in the pool has not been  *)
(* closed by any of the places that close clients.                         *)
THEOREM PoolStaysOpen == Spec => []PooledIsOpen
<1>1. IInv => PooledIsOpen
  BY DEF IInv
<1>2. QED
  BY <1>1, Invariant, PTL

-----------------------------------------------------------------------------
(* Leases.                                                                 *)

LeasesKept == \A c \in leased \cap leased' : socket'[c].link = "closed" => socket[c].link = "closed"

(* Following sockets that close nothing that is leased is safe: what is    *)
(* leased is read, so it is still referred to.                             *)
LEMMA FollowedLeases ==
    ASSUME IInv, IInv', NEW s \in [Clients -> Sockets], Follow(s),
           \A c \in leased : s[c].link = "closed" => socket[c].link = "closed"
    PROVE  LeasesKept
<1>1. \A c \in leased' : c \in Clients /\ c \in Referenced'
  BY DEF IInv, LeasedAreRead, Referenced, TypeOK, PoolTypeOK
<1>2. QED
  BY <1>1, Followed DEF LeasesKept

(* A client is closed at once only when nobody leases it.                  *)
LEMMA ClosingLeases ==
    ASSUME IInv, NEW c, NEW last \in BOOLEAN,
           NEW s, s = IF last /\ MayClose(c) THEN Closing(c) ELSE socket
    PROVE  /\ s \in [Clients -> Sockets]
           /\ \A b \in leased : s[b].link = "closed" => socket[b].link = "closed"
<1>1. leased \subseteq Clients /\ socket \in [Clients -> Sockets]
  BY PoolIsSound DEF IInv, TypeOK, PoolTypeOK
<1>2. CASE last /\ MayClose(c)
  <2>1. c \notin leased /\ s = Closing(c)
    BY <1>2 DEF MayClose
  <2>2. s \in [Clients -> Sockets]
    BY <1>1, <2>1 DEF Closing, Sockets
  <2>3. \A b \in leased : s[b] = socket[b]
    BY <1>1, <2>1 DEF Closing
  <2>4. QED
    BY <2>2, <2>3
<1>3. CASE ~(last /\ MayClose(c))
  BY <1>1, <1>3
<1>4. QED
  BY <1>2, <1>3

LEMMA DeviceLeases == ASSUME IInv, IInv', NEW d \in Devices, DeviceStep(d) PROVE LeasesKept
<1>1. CASE AddDevice(d) \/ AddFails(d) \/ ReadGoesOn(d) \/ ReadEnds(d)
  <2>1. Follow(socket)
    BY <1>1 DEF AddDevice, AddFails, ReadGoesOn, ReadEnds
  <2>2. QED
    BY <2>1, FollowedLeases, PoolIsSound
<1>2. CASE AddConnects(d)
  <2>1. CASE pool[Primary[d]] # NoEntry
    BY <1>2, <2>1, FollowedLeases, PoolIsSound DEF AddConnects
  <2>2. CASE pool[Primary[d]] = NoEntry
    <3>1. Follow([socket EXCEPT ![Fresh] = Open(Primary[d])]) /\ Fresh \in Clients
      BY <1>2, <2>2, FreshIsNew DEF AddConnects
    <3>2. [socket EXCEPT ![Fresh] = Open(Primary[d])] \in [Clients -> Sockets]
      BY <3>1, PoolIsSound, HostAssumption DEF Sockets, Open
    <3>3. \A c \in leased : [socket EXCEPT ![Fresh] = Open(Primary[d])][c].link = "closed"
                             => socket[c].link = "closed"
      BY <3>1, PoolIsSound DEF Open, IInv, TypeOK, PoolTypeOK
    <3>4. QED
      BY <3>1, <3>2, <3>3, FollowedLeases
  <2>3. QED
    BY <2>1, <2>2
<1>3. CASE RemoveDevice(d)
  <2> DEFINE c == PoolClient(key[d])
             last == c # NoClient /\ pool[key[d]].refs = 1
             s == IF last /\ MayClose(c) THEN Closing(c) ELSE socket
  <2>1. Follow(s)
    BY <1>3 DEF RemoveDevice
  <2>2. s \in [Clients -> Sockets] /\ \A b \in leased : s[b].link = "closed" => socket[b].link = "closed"
    BY ClosingLeases
  <2>3. QED
    BY <2>1, <2>2, FollowedLeases
<1>4. CASE Reconnects(d)
  <2> DEFINE h == task[d].host
             old == PoolClient(key[d])
             last == old # NoClient /\ pool[key[d]].refs = 1
             left == Left(key[d])
             c == IF Connected(left[h].client) THEN left[h].client ELSE Fresh
             closed == IF last /\ MayClose(old) THEN Closing(old) ELSE socket
             s == [closed EXCEPT ![c] = Open(h)]
  <2>1. CASE conn[d] = "connected"
    BY <1>4, <2>1, FollowedLeases, PoolIsSound DEF Reconnects
  <2>2. CASE conn[d] # "connected"
    <3>1. Follow(s) /\ h \in Hosts
      BY <1>4, <2>2 DEF Reconnects, IInv, TypeOK, TaskTypeOK
    <3>2. closed \in [Clients -> Sockets] /\ \A b \in leased : closed[b].link = "closed" => socket[b].link = "closed"
      BY ClosingLeases
    <3>3. s \in [Clients -> Sockets] /\ \A b \in leased : s[b].link = "closed" => socket[b].link = "closed"
      <4>1. Open(h) \in Sockets /\ Open(h).link = "up"
        BY <3>1 DEF Open, Sockets
      <4>2. leased \subseteq Clients
        BY DEF IInv, TypeOK, PoolTypeOK
      <4> HIDE DEF c, closed
      <4>3. QED
        BY <3>2, <4>1, <4>2
    <3>4. QED
      BY <3>1, <3>3, FollowedLeases
  <2>3. QED
    BY <2>1, <2>2
<1>5. CASE Wakes(d) \/ ConnectFails(d) \/ Read(d) \/ Watch(d) \/ ProbePrimary(d)
  BY <1>5 DEF Wakes, ConnectFails, Read, Watch, ProbePrimary, clients, LeasesKept
<1>6. QED
  BY <1>1, <1>2, <1>3, <1>4, <1>5 DEF DeviceStep

LEMMA LeasesKeptNext == ASSUME IInv, IInv', [Next]_vars PROVE LeasesKept
<1>1. CASE Network
  <2>1. ASSUME NEW cs, Drop(cs) PROVE LeasesKept
    BY <2>1, PoolIsSound DEF Drop, LeasesKept, IInv, TypeOK, PoolTypeOK, Sockets
  <2>2. CASE HostComes \/ LibraryReconnects
    BY <2>2, PoolIsSound
       DEF HostComes, LibraryReconnects, clients, LeasesKept, IInv, TypeOK, PoolTypeOK, Sockets
  <2>3. QED
    BY <1>1, <2>1, <2>2 DEF Network, HostGoes, ConnectionLost
<1>2. CASE ForceClose \/ CleanUp
  <2>1. PICK cs : Follow(ClosingAll(cs)) /\ cs \cap leased = {}
    <3>1. CASE ForceClose
      <4>1. PICK c \in stale \ leased : Follow(Closing(c))
        BY <3>1 DEF ForceClose
      <4>2. c \in Clients /\ socket \in [Clients -> Sockets]
        BY PoolIsSound DEF IInv, TypeOK, PoolTypeOK
      <4>3. Closing(c) = ClosingAll({c})
        BY <4>2 DEF Closing, ClosingAll, Sockets
      <4>4. QED
        BY <4>1, <4>3
    <3>2. CASE CleanUp
      <4>1. PICK old \in SUBSET stale : Follow(ClosingAll({c \in old \ leased : Connected(c)}))
        BY <3>2 DEF CleanUp, ClosingAll
      <4>2. QED
        BY <4>1
    <3>3. QED
      BY <1>2, <3>1, <3>2
  <2>2. leased \subseteq Clients
    BY DEF IInv, TypeOK, PoolTypeOK
  <2>3. /\ ClosingAll(cs) \in [Clients -> Sockets]
        /\ \A b \in leased : ClosingAll(cs)[b].link = "closed" => socket[b].link = "closed"
    BY <2>1, <2>2, PoolIsSound DEF ClosingAll, Sockets
  <2>4. QED
    BY <2>1, <2>3, FollowedLeases
<1>3. CASE UNCHANGED vars
  BY <1>3 DEF vars, clients, LeasesKept
<1>4. QED
  BY <1>1, <1>2, <1>3, DeviceLeases DEF Next

(* A client that is in _leased_clients is not closed, by none of the       *)
(* places that close clients.                                              *)
THEOREM LeasesHold == Spec => LeasedIsNotClosed
<1>1. IInv /\ IInv' /\ [Next]_vars => [LeasesKept]_vars
  BY LeasesKeptNext
<1>2. Spec => [][LeasesKept]_vars
  BY <1>1, Invariant, PTL DEF Spec
<1>3. QED
  BY <1>2 DEF LeasedIsNotClosed, LeasesKept
=============================================================================

--------------------------- MODULE InstanceFanout ---------------------------
(***************************************************************************)
(* One room on several instances of the server: each loads its own copy    *)
(* from the row, passes on what its clients send over Redis pub/sub, and   *)
(* writes whole snapshots back; an epoch claimed through one is announced  *)
(* to the others.  Redis keeps the order in which it hands messages to a   *)
(* subscriber and delivers each at most once.                              *)
(*                                                                         *)
(* The exchange between a client and its instance is RoomSync's subject:   *)
(* a connected client has what its instance has, and a handshake gives     *)
(* each what the other lacks.  A document is the set of items received;    *)
(* when a room may be unloaded is RoomLifecycle's subject, here it may     *)
(* be at any time without clients.                                         *)
(***************************************************************************)
EXTENDS Integers, Sequences

CONSTANTS
  Instances,
  Clients,
  Items,      \* what clients may add to the document
  MaxEpoch,   \* bound: epochs claimed
  MaxLoads,   \* bound: times a copy is begun
  MaxQueue,   \* bound: messages under way to an instance when another is published
  MaxFaults   \* bound: messages Redis loses and instances that crash

ASSUME FanoutAssumption == {MaxEpoch, MaxLoads, MaxQueue, MaxFaults} \subseteq Nat

VARIABLES
  row,        \* the room's yjsState and currentKeyId in the database
  copy,       \* each instance's entry in roomInitMap: its stage, document and epoch
  read,       \* the row as the load under way has read it, or NoRead
  claimed,    \* the epoch committed through each instance and not announced yet, or 0
  epochByDbId,\* the highest epoch each instance was told of
  timer,      \* persistTimers
  write,      \* the snapshot being written, or NoRead
  queue,      \* the messages Redis has for each instance
  at,         \* the instance each client is connected to, or Nowhere
  doc,        \* the document of each client that is not connected
  \* history
  said,       \* items the room was ever given
  missed,     \* items published before the instance had its copy, and those lost since
  deaf,       \* an epoch message never got to the instance's copy
  loads, faults  \* bounded by the Max constants

vars == <<row, copy, read, claimed, epochByDbId, timer, write, queue, at, doc, said, missed, deaf, loads, faults>>

Nowhere == "nowhere"
NoRead  == [items |-> {}, keyId |-> -1]
Row     == [items : SUBSET Items, keyId : 0 .. MaxEpoch]
Copy    == [stage : {"absent", "loading", "loaded"}, items : SUBSET Items, keyId : 0 .. MaxEpoch]
Absent  == [stage |-> "absent", items |-> {}, keyId |-> 0]

Message == [type : {"update"}, items : SUBSET Items] \cup [type : {"epoch"}, keyId : 1 .. MaxEpoch]
Update(items) == [type |-> "update", items |-> items]
Epoch(k)      == [type |-> "epoch", keyId |-> k]

Higher(a, b) == IF a > b THEN a ELSE b
Loaded(i) == copy[i].stage = "loaded"
Here(i)   == {c \in Clients : at[c] = i}

Init ==
  /\ row = [items |-> {}, keyId |-> 0]
  /\ copy = [i \in Instances |-> Absent]
  /\ read = [i \in Instances |-> NoRead]
  /\ claimed = [i \in Instances |-> 0]
  /\ epochByDbId = [i \in Instances |-> 0]
  /\ timer = [i \in Instances |-> FALSE]
  /\ write = [i \in Instances |-> NoRead]
  /\ queue = [i \in Instances |-> <<>>]
  /\ at = [c \in Clients |-> Nowhere]
  /\ doc = [c \in Clients |-> {}]
  /\ said = {}
  /\ missed = [i \in Instances |-> {}]
  /\ deaf = [i \in Instances |-> FALSE]
  /\ loads = 0 /\ faults = 0

\* pub.publish: every instance but the sender, which skips its own messages.
Publish(i, msg) ==
  /\ \A j \in Instances \ {i} : Len(queue[j]) < MaxQueue
  /\ queue' = [j \in Instances |-> IF j = i THEN queue[j] ELSE Append(queue[j], msg)]

\* The items in messages that are under way to i.
Unheard(i) == UNION {queue[i][n].items : n \in {n \in DOMAIN queue[i] : queue[i][n].type = "update"}}

-----------------------------------------------------------------------------
(* Loading.  The room is in `rooms` from the start, so that messages reach  *)
(* the copy while the row is being read.                                    *)

BeginLoad(i) ==
  /\ copy[i].stage = "absent" /\ loads < MaxLoads
  /\ loads' = loads + 1
  /\ copy' = [copy EXCEPT ![i].stage = "loading"]
  /\ missed' = [missed EXCEPT ![i] = said \ Unheard(i)]
  /\ UNCHANGED <<claimed, said, row, read, epochByDbId, timer, write, queue, at, doc, deaf, faults>>

ReadRow(i) ==
  /\ copy[i].stage = "loading" /\ read[i] = NoRead
  /\ read' = [read EXCEPT ![i] = row]
  /\ deaf' = [deaf EXCEPT ![i] = FALSE]
  /\ UNCHANGED <<claimed, said, row, copy, epochByDbId, timer, write, queue, at, doc, missed, loads, faults>>

\* Mutant: the epoch is the one that was read.
EpochRead(i) == read[i].keyId

\* max(): a claim may have committed after the read.
LoadedEpoch(i) == Higher(Higher(copy[i].keyId, read[i].keyId), epochByDbId[i])

LoadRoomState(i) ==
  /\ copy[i].stage = "loading" /\ read[i] # NoRead
  /\ copy' = [copy EXCEPT ![i] =
                [stage |-> "loaded", items |-> @.items \cup read[i].items, keyId |-> LoadedEpoch(i)]]
  /\ read' = [read EXCEPT ![i] = NoRead]
  /\ UNCHANGED <<claimed, said, row, epochByDbId, timer, write, queue, at, doc, missed, deaf, loads, faults>>

-----------------------------------------------------------------------------
(* Clients.                                                                 *)

\* The update handler of instance i, for what a client has brought.
FromClient(i, items) ==
  IF items \subseteq copy[i].items
  THEN UNCHANGED <<copy, queue, timer>>
  ELSE /\ copy' = [copy EXCEPT ![i].items = @ \cup items]
       /\ Publish(i, Update(items \ copy[i].items))
       /\ timer' = [timer EXCEPT ![i] = TRUE]

\* A client connects, and each side gets what it lacks.
Connect(c, i) ==
  /\ at[c] = Nowhere /\ Loaded(i)
  /\ at' = [at EXCEPT ![c] = i]
  /\ FromClient(i, doc[c])
  /\ doc' = [doc EXCEPT ![c] = {}]
  /\ UNCHANGED <<claimed, said, row, read, epochByDbId, write, missed, deaf, loads, faults>>

\* It keeps what its instance had.
Disconnect(c) ==
  /\ at[c] # Nowhere
  /\ at' = [at EXCEPT ![c] = Nowhere]
  /\ doc' = [doc EXCEPT ![c] = copy[at[c]].items]
  /\ UNCHANGED <<claimed, said, row, copy, read, epochByDbId, timer, write, queue, missed, deaf, loads, faults>>

Say(c, x) ==
  /\ x \notin said /\ at[c] # Nowhere
  /\ said' = said \cup {x}
  /\ FromClient(at[c], {x})
  /\ UNCHANGED <<claimed, row, read, epochByDbId, write, at, doc, missed, deaf, loads, faults>>

-----------------------------------------------------------------------------
(* Messages from other instances.                                           *)

\* raiseEpoch: remembered, and applied to a copy whose dbId is known.
RaiseEpoch(i, k) ==
  /\ epochByDbId' = [epochByDbId EXCEPT ![i] = Higher(@, k)]
  /\ copy' = IF Loaded(i) THEN [copy EXCEPT ![i].keyId = Higher(@, k)] ELSE copy

\* An admin enables encryption or rotates the key through instance i: the
\* claim commits, and only then does the instance hear of it and tell.
ClaimEpoch(i) ==
  /\ row.keyId < MaxEpoch /\ claimed[i] = 0
  /\ row' = [row EXCEPT !.keyId = @ + 1]
  /\ claimed' = [claimed EXCEPT ![i] = row.keyId + 1]
  /\ UNCHANGED <<said, copy, read, epochByDbId, timer, write, queue, at, doc, missed, deaf, loads, faults>>

OnEpochAdvanced(i) ==
  /\ claimed[i] > 0
  /\ RaiseEpoch(i, claimed[i])
  /\ Publish(i, Epoch(claimed[i]))
  /\ claimed' = [claimed EXCEPT ![i] = 0]
  /\ UNCHANGED <<said, row, read, timer, write, at, doc, missed, deaf, loads, faults>>

\* Mutant: only a copy that is loaded takes an update.
OnceLoaded(i) == Loaded(i)

\* rooms.get(...): a copy that is still loading takes it too.
HasRoom(i) == copy[i].stage # "absent"

\* An update is applied with origin 'redis': not published, not persisted.
PMessage(i) ==
  /\ queue[i] # <<>>
  /\ queue' = [queue EXCEPT ![i] = Tail(@)]
  /\ LET msg == Head(queue[i]) IN
     CASE msg.type = "epoch"  -> RaiseEpoch(i, msg.keyId)
       [] msg.type = "update" ->
            /\ copy' = IF HasRoom(i) THEN [copy EXCEPT ![i].items = @ \cup msg.items] ELSE copy
            /\ UNCHANGED epochByDbId
  /\ UNCHANGED <<claimed, said, row, read, timer, write, at, doc, missed, deaf, loads, faults>>

\* Redis loses it.
Lose(i) ==
  /\ queue[i] # <<>> /\ faults < MaxFaults
  /\ faults' = faults + 1
  /\ queue' = [queue EXCEPT ![i] = Tail(@)]
  /\ LET msg == Head(queue[i]) IN
     /\ missed' = IF msg.type = "update" THEN [missed EXCEPT ![i] = @ \cup msg.items] ELSE missed
     /\ deaf' = IF msg.type = "epoch" THEN [deaf EXCEPT ![i] = copy[i].stage # "absent"] ELSE deaf
  /\ UNCHANGED <<claimed, said, row, copy, read, epochByDbId, timer, write, at, doc, loads>>

-----------------------------------------------------------------------------
(* Persistence and unloading.                                               *)

\* persistRoomState: the snapshot is taken when the timer fires.
PersistTimeout(i) ==
  /\ timer[i] /\ write[i] = NoRead
  /\ timer' = [timer EXCEPT ![i] = FALSE]
  /\ write' = [write EXCEPT ![i] = [items |-> copy[i].items, keyId |-> 0]]
  /\ UNCHANGED <<claimed, said, row, copy, read, epochByDbId, queue, at, doc, missed, deaf, loads, faults>>

\* room.update({ yjsState }): the whole state, whatever the row has by now.
WriteLands(i) ==
  /\ write[i] # NoRead
  /\ row' = [row EXCEPT !.items = write[i].items]
  /\ write' = [write EXCEPT ![i] = NoRead]
  /\ UNCHANGED <<claimed, said, copy, read, epochByDbId, timer, queue, at, doc, missed, deaf, loads, faults>>

\* Mutant: the timer of a room that goes is left to fire.
UnloadTimed(i) ==
  /\ Loaded(i) /\ Here(i) = {} /\ write[i] = NoRead
  /\ copy' = [copy EXCEPT ![i] = Absent]
  /\ deaf' = [deaf EXCEPT ![i] = FALSE]
  /\ UNCHANGED <<claimed, said, row, read, epochByDbId, timer, write, queue, at, doc, missed, loads, faults>>

\* A room without clients goes, after a last write if one was due.
Unload(i) ==
  /\ Loaded(i) /\ Here(i) = {} /\ write[i] = NoRead
  /\ copy' = [copy EXCEPT ![i] = Absent]
  /\ timer' = [timer EXCEPT ![i] = FALSE]
  /\ write' = IF timer[i] THEN [write EXCEPT ![i] = [items |-> copy[i].items, keyId |-> 0]] ELSE write
  /\ deaf' = [deaf EXCEPT ![i] = FALSE]
  /\ UNCHANGED <<claimed, said, row, read, epochByDbId, queue, at, doc, missed, loads, faults>>

Crash(i) ==
  /\ faults < MaxFaults
  /\ faults' = faults + 1
  /\ copy' = [copy EXCEPT ![i] = Absent]
  /\ read' = [read EXCEPT ![i] = NoRead]
  /\ epochByDbId' = [epochByDbId EXCEPT ![i] = 0]
  /\ timer' = [timer EXCEPT ![i] = FALSE]
  /\ write' = [write EXCEPT ![i] = NoRead]
  /\ queue' = [queue EXCEPT ![i] = <<>>]
  /\ at' = [c \in Clients |-> IF at[c] = i THEN Nowhere ELSE at[c]]
  /\ doc' = [c \in Clients |-> IF at[c] = i THEN copy[i].items ELSE doc[c]]
  /\ deaf' = [j \in Instances |-> j # i /\ (deaf[j] \/ (claimed[i] > 0 /\ copy[j].stage # "absent"))]
  /\ claimed' = [claimed EXCEPT ![i] = 0]
  /\ UNCHANGED <<said, row, missed, loads>>

-----------------------------------------------------------------------------
Next ==
  \/ \E i \in Instances :
       \/ BeginLoad(i) \/ ReadRow(i) \/ LoadRoomState(i)
       \/ ClaimEpoch(i) \/ OnEpochAdvanced(i) \/ PMessage(i) \/ Lose(i)
       \/ PersistTimeout(i) \/ WriteLands(i) \/ Unload(i) \/ Crash(i)
  \/ \E c \in Clients :
       \/ Disconnect(c)
       \/ \E i \in Instances : Connect(c, i)
       \/ \E x \in Items : Say(c, x)

Spec == Init /\ [][Next]_vars

-----------------------------------------------------------------------------
(* Properties.                                                              *)

\* Every variable holds the kind of value the code gives it, and clients are
\* only at instances that have the room.
TypeOK ==
  /\ row \in Row
  /\ copy \in [Instances -> Copy]
  /\ read \in [Instances -> Row \cup {NoRead}]
  /\ claimed \in [Instances -> 0 .. MaxEpoch]
  /\ epochByDbId \in [Instances -> 0 .. MaxEpoch]
  /\ timer \in [Instances -> BOOLEAN]
  /\ write \in [Instances -> Row \cup {NoRead}]
  /\ queue \in [Instances -> Seq(Message)]
  /\ at \in [Clients -> Instances \cup {Nowhere}]
  /\ doc \in [Clients -> SUBSET Items]
  /\ said \subseteq Items
  /\ missed \in [Instances -> SUBSET Items]
  /\ deaf \in [Instances -> BOOLEAN]
  /\ loads \in 0 .. MaxLoads /\ faults \in 0 .. MaxFaults
  /\ \A c \in Clients : at[c] # Nowhere => Loaded(at[c])
  /\ \A i \in Instances : timer[i] => Loaded(i)

(***************************************************************************)
(* Two instances that have the room differ by what is on its way, and by   *)
(* what one of them never got: updates Redis lost, and those published     *)
(* before it had its copy.  An update that arrives while the copy is being *)
(* loaded is not among them, and a crash or an unloading does no more harm *)
(* than the load that follows it.                                          *)
(***************************************************************************)
Differ(i, j) == copy[i].items \ copy[j].items

DifferencesAreMissed ==
  \A i, j \in Instances :
    Loaded(i) /\ Loaded(j) => Differ(i, j) \subseteq missed[j] \cup Unheard(j)

(***************************************************************************)
(* The gate of a loaded copy has the room's epoch, however claims, loads   *)
(* and announcements overlap, unless it is still to be announced, the      *)
(* announcement is under way, or it was lost since the copy's row was read *)
(* (the case sync.gateway.ts:166 names).                                   *)
(***************************************************************************)
Announced(i, k) == \E n \in DOMAIN queue[i] : queue[i][n] = Epoch(k)

EpochKnown ==
  \A i \in Instances :
    Loaded(i) =>
      \/ copy[i].keyId = row.keyId \/ Announced(i, row.keyId) \/ deaf[i]
      \/ \E j \in Instances : claimed[j] = row.keyId

-----------------------------------------------------------------------------
(* What documents say of the program, and the program does not always do.   *)

(***************************************************************************)
(* ADR-004:19: "durability already lives in Postgres", and ADR-004:31:     *)
(* "Every instance holding a room also persists it (redundant writes -     *)
(* benign because docs converge)": when nothing is under way and nothing   *)
(* was lost, the row has all that the copies have.                         *)
(***************************************************************************)
Quiet == \A i \in Instances : ~timer[i] /\ write[i] = NoRead /\ queue[i] = <<>>

RowCovers ==
  Quiet /\ faults = 0 => \A i \in Instances : Loaded(i) => copy[i].items \subseteq row.items
=============================================================================

--------------------------- MODULE RoomLifecycle ----------------------------
(***************************************************************************)
(* How one server instance loads, shares, saves and unloads the in-memory  *)
(* copy of one room: SyncGateway.handleConnection, getOrCreateRoom,        *)
(* loadRoomState, handleDisconnect with its GC timer, schedulePersist and  *)
(* persistRoomState, raiseEpoch.                                           *)
(*                                                                         *)
(* Node runs one callback at a time, so an action is what happens between  *)
(* two awaits.  The interleavings are those of the awaits (membership      *)
(* check, database read, database write), of socket closes and of timers.  *)
(* The continuations of sockets that await the same load run in the same   *)
(* turn as the load's own.                                                 *)
(*                                                                         *)
(* A socket is one connection; a device that comes back is another socket. *)
(* Copies of the room, the RoomState objects, are numbered as created; 0   *)
(* is "undefined".  What the maps and timers are keyed by is the room's    *)
(* name, so each holds one entry here; what a closure captured is a copy.  *)
(* Documents are sets of updates.  A load that fails is left out: it       *)
(* rejects handleConnection, and the process's policy on unhandled         *)
(* rejections decides.  The 'default' lobby, which skips the membership    *)
(* check, and the upsert of a row without state differ only in awaits.     *)
(***************************************************************************)
EXTENDS Integers, Sequences, FiniteSets

CONSTANTS
  Socket,      \* connections
  Msg,         \* document updates
  MaxLoads,    \* bound: copies of the room created
  MaxEpoch,    \* bound: epochs claimed
  MaxFailures  \* bound: database writes that fail

ASSUME LifecycleAssumption ==
  {MaxLoads, MaxEpoch, MaxFailures} \subseteq Nat /\ IsFiniteSet(Socket)

VARIABLES
  phase,         \* how far handleConnection got with each socket
  open,          \* the socket is open
  joined,        \* the copy a socket's message handler captured
  clientRoom,    \* sockets with a clientRoom entry
  rooms,         \* the copy in the rooms map
  roomInitMap,   \* the copy whose promise is in roomInitMap
  load,          \* how far each copy's loadRoomState got
  row,           \* what each copy's database read returned
  doc,           \* each copy's document
  currentKeyId,  \* each copy's epoch
  clients,       \* each copy's client set
  gcTimer,       \* the copy captured by the GC timer a closing socket armed
  persistTimer,  \* the copy captured by the armed persist timer
  writes,        \* persists that have been issued and not completed
  yjsState,      \* the database row: saved document
  dbKeyId,       \* the database row: epoch
  epochByDbId,   \* the highest epoch event this instance handled
  wsConnections, roomsLoaded,  \* the two gauges
  \* history
  accepted,      \* updates handleMessage has applied
  lastFailed,    \* the write that completed last failed
  failures       \* bounded by MaxFailures

socketVars == <<phase, open, joined, clientRoom>>
copyVars   == <<rooms, roomInitMap, load, row, doc, currentKeyId, clients>>
timerVars  == <<gcTimer, persistTimer>>
dbVars     == <<writes, yjsState, dbKeyId, lastFailed, failures>>
vars == <<socketVars, copyVars, timerVars, dbVars, epochByDbId, wsConnections,
          roomsLoaded, accepted>>

Copy == 1 .. MaxLoads

\* Mutant: every epoch event raises the epoch, a repeated one too.
OneHigher(a, b) == a + 1

Higher(a, b) == IF a > b THEN a ELSE b

Init ==
  /\ phase = [s \in Socket |-> "new"]
  /\ open = [s \in Socket |-> FALSE]
  /\ joined = [s \in Socket |-> 0]
  /\ clientRoom = {}
  /\ rooms = 0 /\ roomInitMap = 0
  /\ load = [r \in Copy |-> "none"]
  /\ row = [r \in Copy |-> [state |-> {}, keyId |-> 0]]
  /\ doc = [r \in Copy |-> {}]
  /\ currentKeyId = [r \in Copy |-> 0]
  /\ clients = [r \in Copy |-> {}]
  /\ gcTimer = [s \in Socket |-> 0]
  /\ persistTimer = 0
  /\ writes = <<>>
  /\ yjsState = {} /\ dbKeyId = 0
  /\ epochByDbId = 0
  /\ wsConnections = 0 /\ roomsLoaded = 0
  /\ accepted = {} /\ lastFailed = FALSE /\ failures = 0

-----------------------------------------------------------------------------
(* A connection.                                                            *)

\* A socket opens; handleConnection awaits the membership check.
Connect(s) ==
  /\ phase[s] = "new"
  /\ phase' = [phase EXCEPT ![s] = "checking"]
  /\ open' = [open EXCEPT ![s] = TRUE]
  /\ UNCHANGED <<joined, clientRoom, copyVars, timerVars, dbVars, epochByDbId,
                 wsConnections, roomsLoaded, accepted>>

\* Not a member: the server closes the socket, which never joined anything.
Forbid(s) ==
  /\ phase[s] = "checking"
  /\ phase' = [phase EXCEPT ![s] = "refused"]
  /\ open' = [open EXCEPT ![s] = FALSE]
  /\ UNCHANGED <<joined, clientRoom, copyVars, timerVars, dbVars, epochByDbId,
                 wsConnections, roomsLoaded, accepted>>

\* The tail of handleConnection, for the sockets in S and the loaded copy r.
JoinAll(S, r) ==
  /\ phase' = [s \in Socket |-> IF s \in S THEN "joined" ELSE phase[s]]
  /\ joined' = [s \in Socket |-> IF s \in S THEN r ELSE joined[s]]
  /\ clientRoom' = clientRoom \cup S
  /\ clients' = [clients EXCEPT ![r] = @ \cup S]
  /\ wsConnections' = wsConnections + Cardinality(S)

\* A member: the room's promise is there and settled, so the socket joins.
AdmitToLoaded(s) ==
  /\ phase[s] = "checking"
  /\ roomInitMap # 0
  /\ load[roomInitMap] = "loaded"
  /\ JoinAll({s}, roomInitMap)
  /\ UNCHANGED <<open, rooms, roomInitMap, load, row, doc, currentKeyId, timerVars,
                 dbVars, epochByDbId, roomsLoaded, accepted>>

\* A member: the room is being loaded, await it too.
AdmitToLoading(s) ==
  /\ phase[s] = "checking"
  /\ roomInitMap # 0
  /\ load[roomInitMap] # "loaded"
  /\ phase' = [phase EXCEPT ![s] = "waiting"]
  /\ joined' = [joined EXCEPT ![s] = roomInitMap]
  /\ UNCHANGED <<open, clientRoom, copyVars, timerVars, dbVars, epochByDbId,
                 wsConnections, roomsLoaded, accepted>>

\* A member, and no copy: create one, put it in both maps, start loading it.
AdmitFirst(s) ==
  /\ phase[s] = "checking"
  /\ roomInitMap = 0
  /\ \E r \in Copy :
       /\ load[r] = "none" /\ \A q \in Copy : q < r => load[q] # "none"
       /\ rooms' = r /\ roomInitMap' = r
       /\ load' = [load EXCEPT ![r] = "reading"]
       /\ joined' = [joined EXCEPT ![s] = r]
  /\ phase' = [phase EXCEPT ![s] = "waiting"]
  /\ UNCHANGED <<open, clientRoom, row, doc, currentKeyId, clients, timerVars, dbVars,
                 epochByDbId, wsConnections, roomsLoaded, accepted>>

\* The database answers the read of loadRoomState.
ReadRow(r) ==
  /\ load[r] = "reading"
  /\ load' = [load EXCEPT ![r] = "read"]
  /\ row' = [row EXCEPT ![r] = [state |-> yjsState, keyId |-> dbKeyId]]
  /\ UNCHANGED <<socketVars, rooms, roomInitMap, doc, currentKeyId, clients, timerVars,
                 dbVars, epochByDbId, wsConnections, roomsLoaded, accepted>>

\* Mutant: the epoch is the row's, whatever event came in between.
LoadedEpochFromRow(r) == Higher(currentKeyId[r], row[r].keyId)

\* max(): an epoch claim may have committed after the read.
LoadedEpoch(r) == Higher(currentKeyId[r], Higher(row[r].keyId, epochByDbId))

\* The rest of loadRoomState, and of every handleConnection that awaits it.
Loaded(r) ==
  /\ load[r] = "read"
  /\ load' = [load EXCEPT ![r] = "loaded"]
  /\ doc' = [doc EXCEPT ![r] = @ \cup row[r].state]
  /\ currentKeyId' = [currentKeyId EXCEPT ![r] = LoadedEpoch(r)]
  /\ roomsLoaded' = roomsLoaded + 1
  /\ JoinAll({s \in Socket : phase[s] = "waiting" /\ joined[s] = r}, r)
  /\ UNCHANGED <<open, rooms, roomInitMap, row, timerVars, dbVars, epochByDbId, accepted>>

-----------------------------------------------------------------------------
(* Messages and persistence.                                                *)

\* A document update from a client; schedulePersist (re)arms the room's timer.
Receive(s) ==
  /\ phase[s] = "joined" /\ open[s]
  /\ \E m \in Msg \ accepted :
       /\ doc' = [doc EXCEPT ![joined[s]] = @ \cup {m}]
       /\ accepted' = accepted \cup {m}
  /\ persistTimer' = joined[s]
  /\ UNCHANGED <<socketVars, rooms, roomInitMap, load, row, currentKeyId, clients,
                 gcTimer, dbVars, epochByDbId, wsConnections, roomsLoaded>>

\* persistRoomState writes the whole state.
Snapshot(r) == doc[r]

\* The debounced persist.
PersistTimeout ==
  /\ persistTimer # 0
  /\ writes' = Append(writes, Snapshot(persistTimer))
  /\ persistTimer' = 0
  /\ UNCHANGED <<socketVars, copyVars, gcTimer, yjsState, dbKeyId, lastFailed, failures,
                 epochByDbId, wsConnections, roomsLoaded, accepted>>

\* Writes of one row are issued seconds apart and applied in that order.
WriteDone ==
  /\ writes # <<>>
  /\ yjsState' = Head(writes)
  /\ writes' = Tail(writes)
  /\ lastFailed' = FALSE
  /\ UNCHANGED <<socketVars, copyVars, timerVars, dbKeyId, failures, epochByDbId,
                 wsConnections, roomsLoaded, accepted>>

\* A write fails: logged, not retried.
WriteFails ==
  /\ writes # <<>>
  /\ failures < MaxFailures
  /\ failures' = failures + 1
  /\ writes' = Tail(writes)
  /\ lastFailed' = TRUE
  /\ UNCHANGED <<socketVars, copyVars, timerVars, yjsState, dbKeyId, epochByDbId,
                 wsConnections, roomsLoaded, accepted>>

-----------------------------------------------------------------------------
(* handleDisconnect and the GC timer.                                       *)

\* A socket closes before it has joined: nothing to undo, and the awaits go on.
CloseEarly(s) ==
  /\ open[s] /\ s \notin clientRoom
  /\ open' = [open EXCEPT ![s] = FALSE]
  /\ UNCHANGED <<phase, joined, clientRoom, copyVars, timerVars, dbVars, epochByDbId,
                 wsConnections, roomsLoaded, accepted>>

\* Mutant: the timer is only armed when the room holds no unsaved change.
LeftEmptyAndSaved(remaining) == remaining = {} /\ persistTimer = 0

\* The last client left: arm a GC timer.
LeftEmpty(remaining) == remaining = {}

\* A socket that joined closes: it leaves the copy now in the rooms map.
Close(s) ==
  /\ open[s] /\ s \in clientRoom
  /\ open' = [open EXCEPT ![s] = FALSE]
  /\ clientRoom' = clientRoom \ {s}
  /\ wsConnections' = wsConnections - 1
  /\ IF rooms = 0
     THEN UNCHANGED <<clients, gcTimer>>
     ELSE /\ clients' = [clients EXCEPT ![rooms] = @ \ {s}]
          /\ gcTimer' = IF LeftEmpty(clients[rooms] \ {s})
                        THEN [gcTimer EXCEPT ![s] = rooms] ELSE gcTimer
  /\ UNCHANGED <<phase, joined, rooms, roomInitMap, load, row, doc, currentKeyId,
                 persistTimer, dbVars, epochByDbId, roomsLoaded, accepted>>

\* Mutant: the timer does not look again whether somebody came back.
StillUsedNever(r) == FALSE

\* Somebody joined the copy since the timer was armed.
StillUsed(r) == clients[r] # {}

\* Mutant: the pending persist is cancelled, not flushed.
FlushNothing(r) == writes

\* "Flush any pending persist before GC."
Flush(r) == IF persistTimer # 0 THEN Append(writes, Snapshot(r)) ELSE writes

\* The timer fires on a copy that is in use again.
GcSpares(s) ==
  /\ gcTimer[s] # 0
  /\ StillUsed(gcTimer[s])
  /\ gcTimer' = [gcTimer EXCEPT ![s] = 0]
  /\ UNCHANGED <<socketVars, copyVars, persistTimer, dbVars, epochByDbId,
                 wsConnections, roomsLoaded, accepted>>

\* It fires on an empty copy: flush, and drop the room's entries, by its name.
GcUnloads(s) ==
  /\ gcTimer[s] # 0
  /\ ~StillUsed(gcTimer[s])
  /\ writes' = Flush(gcTimer[s])
  /\ persistTimer' = 0
  /\ gcTimer' = [gcTimer EXCEPT ![s] = 0]
  /\ rooms' = 0 /\ roomInitMap' = 0
  /\ roomsLoaded' = roomsLoaded - 1
  /\ UNCHANGED <<socketVars, load, row, doc, currentKeyId, clients, yjsState, dbKeyId,
                 lastFailed, failures, epochByDbId, wsConnections, accepted>>

-----------------------------------------------------------------------------
(* Epochs.                                                                  *)

\* A claim commits in the database.
ClaimEpoch ==
  /\ dbKeyId < MaxEpoch
  /\ dbKeyId' = dbKeyId + 1
  /\ UNCHANGED <<socketVars, copyVars, timerVars, writes, yjsState, lastFailed, failures,
                 epochByDbId, wsConnections, roomsLoaded, accepted>>

\* raiseEpoch: the event of a committed claim reaches the gateway.
RaiseEpoch ==
  /\ \E k \in 1 .. dbKeyId :
       /\ epochByDbId' = Higher(epochByDbId, k)
       /\ currentKeyId' =
            [r \in Copy |-> IF r = rooms /\ load[r] = "loaded"
                            THEN Higher(currentKeyId[r], k) ELSE currentKeyId[r]]
  /\ UNCHANGED <<socketVars, rooms, roomInitMap, load, row, doc, clients, timerVars,
                 dbVars, wsConnections, roomsLoaded, accepted>>

-----------------------------------------------------------------------------
Gc(s) == GcSpares(s) \/ GcUnloads(s)

Next ==
  \/ \E s \in Socket :
       \/ Connect(s) \/ Forbid(s)
       \/ AdmitToLoaded(s) \/ AdmitToLoading(s) \/ AdmitFirst(s)
       \/ Receive(s) \/ CloseEarly(s) \/ Close(s) \/ Gc(s)
  \/ \E r \in Copy : ReadRow(r) \/ Loaded(r)
  \/ PersistTimeout \/ WriteDone \/ WriteFails
  \/ ClaimEpoch \/ RaiseEpoch

Spec == Init /\ [][Next]_vars

(***************************************************************************)
(* Fairness: reads and writes of the database complete, awaited callbacks  *)
(* run, timers fire.  Nothing is assumed of clients.                       *)
(***************************************************************************)
Fairness ==
  /\ \A r \in Copy : WF_vars(ReadRow(r)) /\ WF_vars(Loaded(r))
  /\ \A s \in Socket :
       /\ WF_vars(Gc(s))
       /\ WF_vars(Forbid(s) \/ AdmitToLoaded(s) \/ AdmitToLoading(s) \/ AdmitFirst(s))
  /\ WF_vars(PersistTimeout) /\ WF_vars(WriteDone \/ WriteFails)

FairSpec == Spec /\ Fairness

-----------------------------------------------------------------------------
(* Properties.                                                              *)

\* Every variable holds the kind of value the code gives it.
TypeOK ==
  /\ phase \in [Socket -> {"new", "checking", "waiting", "joined", "refused"}]
  /\ open \in [Socket -> BOOLEAN]
  /\ joined \in [Socket -> Copy \cup {0}]
  /\ \A s \in Socket : phase[s] \in {"waiting", "joined"} => joined[s] # 0
  /\ clientRoom \subseteq Socket
  /\ rooms \in Copy \cup {0} /\ roomInitMap \in Copy \cup {0}
  /\ load \in [Copy -> {"none", "reading", "read", "loaded"}]
  /\ row \in [Copy -> [state : SUBSET Msg, keyId : 0 .. MaxEpoch]]
  /\ doc \in [Copy -> SUBSET Msg]
  /\ currentKeyId \in [Copy -> 0 .. MaxEpoch]
  /\ clients \in [Copy -> SUBSET Socket]
  /\ gcTimer \in [Socket -> Copy \cup {0}]
  /\ persistTimer \in Copy \cup {0}
  /\ writes \in Seq(SUBSET Msg)
  /\ yjsState \subseteq Msg /\ dbKeyId \in 0 .. MaxEpoch
  /\ epochByDbId \in 0 .. dbKeyId
  /\ wsConnections \in Int /\ roomsLoaded \in Int
  /\ accepted \subseteq Msg
  /\ lastFailed \in BOOLEAN /\ failures \in 0 .. MaxFailures

(***************************************************************************)
(* An epoch event is never lost to a load: whenever the gateway has        *)
(* handled the event of a claim, the copy in the map, once loaded, has at  *)
(* least that epoch, even if its database read came before the claim and   *)
(* the event came before the read was used.                                *)
(***************************************************************************)
EpochNotLost ==
  rooms # 0 /\ load[rooms] = "loaded" => currentKeyId[rooms] >= epochByDbId

(***************************************************************************)
(* Unsaved updates survive, as long as the room has been loaded only once: *)
(* when no persist is armed or under way, and the last one did not fail,   *)
(* every update the gateway ever applied is in the database.  A later      *)
(* snapshot makes up for a failed one, and unloading a room flushes its    *)
(* timer.                                                                  *)
(***************************************************************************)
Settled == persistTimer = 0 /\ writes = <<>> /\ ~lastFailed

LoadedOnce == \A r \in Copy \ {1} : load[r] = "none"

FirstTailSaved == LoadedOnce /\ Settled => accepted \subseteq yjsState

\* The copies some connected device sends to and hears from.
InUse == {joined[s] : s \in {t \in Socket : phase[t] = "joined" /\ open[t]}}

(***************************************************************************)
(* A copy in use is never unloaded by a GC timer of its own: the timer     *)
(* fires 30 s after one particular leave, whatever happened since.         *)
(***************************************************************************)
OwnTimerSparesUsers ==
  [][\A s \in Socket :
       /\ gcTimer[s] # 0 /\ gcTimer'[s] = 0
       /\ gcTimer[s] \in InUse /\ gcTimer[s] = rooms
       => rooms' = rooms]_vars

\* A socket that closed while handleConnection was still awaiting, and joined.
Ghosts(r) == {s \in clients[r] : ~open[s]}

(***************************************************************************)
(* A room everybody left is unloaded in the end: some disconnect armed a   *)
(* timer for it.  The exception is a room with a ghost, a socket that      *)
(* joined after it had closed, which no disconnect will ever remove.       *)
(***************************************************************************)
Unloads ==
  <>[](rooms = 0 \/ (\E s \in Socket : open[s]) \/ Ghosts(rooms) # {})

-----------------------------------------------------------------------------
(* What comments and documents say of the program, and the program does     *)
(* not always do.                                                           *)

(***************************************************************************)
(* ADR-006:12: "Pending writes are flushed ... before room GC (server), so *)
(* the debounce never drops the tail": FirstTailSaved however often the    *)
(* room is loaded.                                                         *)
(***************************************************************************)
TailSaved == Settled => accepted \subseteq yjsState

(***************************************************************************)
(* sync.gateway.ts:484: "In all cases, fan the delta out to local clients  *)
(* except the originating one": devices connected to this instance for     *)
(* this room share one copy.                                               *)
(***************************************************************************)
OneCopy == Cardinality(InUse) <= 1

\* metrics.service.ts:28: "Current number of open WebSocket connections on
\* this instance": with no connection open or being set up, none.
ConnectionGauge ==
  (\A s \in Socket : ~open[s] /\ phase[s] \in {"new", "refused", "joined"})
    => wsConnections = 0

\* metrics.service.ts:34: "Current number of rooms held in memory on this
\* instance": never less than none.
RoomsGauge == roomsLoaded >= 0
=============================================================================

------------------------------ MODULE RoomSync ------------------------------
(***************************************************************************)
(* One room on one server instance and the devices connected to it: the    *)
(* WebSocketProvider and SyncEngine of each device, the SyncGateway's      *)
(* message handlers, and the two FIFO directions of each WebSocket.        *)
(*                                                                         *)
(* The room may become end-to-end encrypted (its epoch, currentKeyId,      *)
(* becomes positive) while devices still hold, queue or have in flight     *)
(* plaintext messages.  From then on the gateway refuses, whole, every     *)
(* update that carries plaintext content; the author's device withdraws    *)
(* the refused messages and the server asks for its state again.           *)
(*                                                                         *)
(* Sockets drop at any time, losing what is in flight.  Frames a device    *)
(* sends before the gateway has attached its 'message' listener are lost.  *)
(* The server may crash and come back with the last persisted snapshot.    *)
(*                                                                         *)
(* Every item has the author's replica as "by"; the message id is the item *)
(* itself.  Awareness, rate limiting, room unloading and the token check   *)
(* belong to other components.                                             *)
(***************************************************************************)
EXTENDS YDoc, Sequences

CONSTANTS
  Stale,       \* devices whose app predates the E2EE frames and ignores them
  MaxMessages, \* bound: insertions of all replicas together
  MaxEpoch,    \* bound: epochs claimed
  MaxDrops,    \* bound: sockets closed (dropped, or by an engine rebuild)
  MaxCrashes   \* bound: server crashes

ASSUME StaleAssumption == Stale \subseteq Client

ASSUME BoundsAssumption == {MaxMessages, MaxEpoch, MaxDrops, MaxCrashes} \subseteq Nat

VARIABLES
  \* --- per device (SyncEngine + WebSocketProvider) ---
  doc,            \* engine.doc
  sent,           \* items inserted so far: the replica's own clock
  hasCipher,      \* the engine was built with a contentCipher
  epochSeen,      \* highest epoch the app has been told; gates the composer
  status,         \* provider.status ("connecting" queues like "disconnected")
  pendingUpdates, \* provider.pendingUpdates
  retractedIds,   \* provider.retractedIds
  stateRefused,   \* provider.stateRefused
  synced,         \* provider.synced
  \* --- the server's copy of the room ---
  serverDoc,      \* room.doc
  currentKeyId,   \* room.currentKeyId (and the database column it follows)
  clients,        \* room.clients: sockets with a 'message' listener
  lastRejection,  \* per socket: the last refused frame, as a set of at most one
  resyncTimer,    \* per socket: a delayed step1 is pending
  stored,         \* the yjsState column: the last persisted snapshot
  persistDue,     \* the room's debounced persist timer is armed
  \* --- the sockets, and the content of every item ---
  up,             \* frames from each device to the server
  down,           \* frames from the server to each device
  plain,          \* the items inserted in plaintext
  drops,          \* bounded by MaxDrops
  crashes,        \* bounded by MaxCrashes
  unheard         \* history: per socket, what its own frames made the server
                  \* integrate without carrying it (see AcceptUpdate)

deviceVars == <<doc, sent, hasCipher, epochSeen, status, pendingUpdates,
                retractedIds, stateRefused, synced>>
serverVars == <<serverDoc, currentKeyId, clients, lastRejection, resyncTimer,
                stored, persistDue>>
vars == <<deviceVars, serverVars, up, down, plain, drops, crashes, unheard>>

-----------------------------------------------------------------------------
(* Frames.  A "step2" answers a "step1"; an "update" is one 'update' event. *)

SyncFrame ==
  [type : {"step1"}, sv : SUBSET Item]
    \cup [type : {"step2", "update"}, update : Update]

ServerFrame ==
  SyncFrame
    \cup [type : {"epoch"}, keyId : 1 .. MaxEpoch]
    \cup [type : {"rejected"}, keyId : 1 .. MaxEpoch, ids : SUBSET Item]

Step1(d)      == [type |-> "step1", sv |-> StateVector(d)]
Step2(d, sv)  == [type |-> "step2", update |-> EncodeDiff(d, sv)]
UpdateFrame(u) == [type |-> "update", update |-> u]
EpochFrame(k) == [type |-> "epoch", keyId |-> k]
RejectedFrame(k, ids) == [type |-> "rejected", keyId |-> k, ids |-> ids]

CarriesUpdate(f) == f.type \in {"step2", "update"}

\* The items inserted so far.
Created == {i \in Item : i.clock <= sent[i.by]}

Higher(a, b) == IF a > b THEN a ELSE b

-----------------------------------------------------------------------------
Init ==
  /\ doc = [c \in Client |-> EmptyDoc]
  /\ sent = [c \in Client |-> 0]
  /\ hasCipher = [c \in Client |-> FALSE]
  /\ epochSeen = [c \in Client |-> 0]
  /\ status = [c \in Client |-> "disconnected"]
  /\ pendingUpdates = [c \in Client |-> <<>>]
  /\ retractedIds = [c \in Client |-> {}]
  /\ stateRefused = [c \in Client |-> FALSE]
  /\ synced = [c \in Client |-> FALSE]
  /\ serverDoc = EmptyDoc
  /\ currentKeyId = 0
  /\ clients = {}
  /\ lastRejection = [c \in Client |-> {}]
  /\ resyncTimer = [c \in Client |-> FALSE]
  /\ stored = EmptyDoc
  /\ persistDue = FALSE
  /\ up = [c \in Client |-> <<>>]
  /\ down = [c \in Client |-> <<>>]
  /\ plain = {}
  /\ drops = 0
  /\ crashes = 0
  /\ unheard = [c \in Client |-> {}]

-----------------------------------------------------------------------------
(* The device: SyncEngine.sendMessage and the provider's doc handler.       *)

(***************************************************************************)
(* The provider's handler of the doc's 'update' event, for a change made   *)
(* on this device: send it, or queue it while there is no connection, or   *)
(* (the doc is about to be discarded) drop it.                             *)
(***************************************************************************)
SentNow(c, u) ==
  IF ~stateRefused[c] /\ status[c] = "connected"
  THEN [up EXCEPT ![c] = Append(@, UpdateFrame(u))]
  ELSE up

QueuedNow(c, u) ==
  IF ~stateRefused[c] /\ status[c] # "connected"
  THEN [pendingUpdates EXCEPT ![c] = Append(@, u)]
  ELSE pendingUpdates

(***************************************************************************)
(* The user sends a message.  Without a cipher the engine inserts it in    *)
(* plaintext, which the app's composer only allows while it knows of no    *)
(* epoch.                                                                  *)
(***************************************************************************)
SendMessage(c) ==
  /\ sent[c] < MaxSend /\ Cardinality(Created) < MaxMessages
  /\ hasCipher[c] \/ epochSeen[c] = 0
  /\ LET item   == [by |-> c, clock |-> sent[c] + 1]
         update == [full |-> {item}, bare |-> {}, del |-> {}]
     IN /\ sent' = [sent EXCEPT ![c] = @ + 1]
        /\ doc' = [doc EXCEPT ![c] = ApplyUpdate(@, update)]
        /\ plain' = IF hasCipher[c] THEN plain ELSE plain \cup {item}
        /\ up' = SentNow(c, update)
        /\ pendingUpdates' = QueuedNow(c, update)
  /\ UNCHANGED <<hasCipher, epochSeen, status, retractedIds, stateRefused, synced,
                 serverVars, down, drops, crashes, unheard>>

\* The frames that empty the queue.
Flush(c) == [k \in 1 .. Len(pendingUpdates[c]) |-> UpdateFrame(pendingUpdates[c][k])]

(***************************************************************************)
(* ws.onopen: ask for the server's state, then flush the queue.  On the    *)
(* server, handleConnection is still awaiting the membership check and the *)
(* room's load: the socket is not in room.clients yet.                     *)
(***************************************************************************)
Open(c) ==
  /\ status[c] = "disconnected"
  /\ status' = [status EXCEPT ![c] = "connected"]
  /\ up' = [up EXCEPT ![c] = <<Step1(doc[c])>> \o Flush(c)]
  /\ pendingUpdates' = [pendingUpdates EXCEPT ![c] = <<>>]
  /\ UNCHANGED <<doc, sent, hasCipher, epochSeen, retractedIds, stateRefused, synced,
                 serverVars, down, plain, drops, crashes, unheard>>

\* A frame arrives while no 'message' listener is attached: nobody reads it.
LoseEarlyFrame(c) ==
  /\ status[c] = "connected" /\ c \notin clients
  /\ up[c] # <<>>
  /\ up' = [up EXCEPT ![c] = Tail(@)]
  /\ UNCHANGED <<deviceVars, serverVars, down, plain, drops, crashes, unheard>>

\* Mutant: a plaintext room is announced too, as epoch 0.
GreetingAlwaysEpoch == <<EpochFrame(currentKeyId), Step1(serverDoc), Step2(serverDoc, {})>>

\* Mutant: the joining client is never asked for its own state.
GreetingWithoutStep1 ==
  (IF currentKeyId > 0 THEN <<EpochFrame(currentKeyId)>> ELSE <<>>) \o <<Step2(serverDoc, {})>>

(***************************************************************************)
(* What a socket that joins is sent: the epoch of an encrypted room, the   *)
(* server's state vector (step1), and the full state (step2).              *)
(***************************************************************************)
Greeting ==
  (IF currentKeyId > 0 THEN <<EpochFrame(currentKeyId)>> ELSE <<>>)
    \o <<Step1(serverDoc), Step2(serverDoc, {})>>

\* The rest of handleConnection, synchronous; frames are handled from now on.
Join(c) ==
  /\ status[c] = "connected" /\ c \notin clients
  /\ clients' = clients \cup {c}
  /\ down' = [down EXCEPT ![c] = Greeting]
  /\ UNCHANGED <<deviceVars, serverDoc, currentKeyId, lastRejection, resyncTimer,
                 stored, persistDue, up, plain, drops, crashes, unheard>>

-----------------------------------------------------------------------------
(* The server: SyncGateway.handleMessage.                                   *)

\* checkEnvelopedUpdate: the messages that come with content, but no envelope.
Unenveloped(u) == u.full \cap plain

\* Mutant: only incremental updates are checked, a step2 is let through.
RefusedUpdateOnly(f) ==
  IF currentKeyId > 0 /\ f.type = "update" THEN Unenveloped(f.update) ELSE {}

\* plaintextIntoE2eeRoom: the messages this frame is refused for.
Refused(f) ==
  IF currentKeyId > 0 /\ CarriesUpdate(f) THEN Unenveloped(f.update) ELSE {}

Receives(c) ==
  /\ c \in clients
  /\ up[c] # <<>>
  /\ up' = [up EXCEPT ![c] = Tail(@)]

\* A state vector: answer with what it lacks.
AnswerStep1(c) ==
  LET f == Head(up[c]) IN
    /\ Receives(c)
    /\ f.type = "step1"
    /\ down' = [down EXCEPT ![c] = Append(@, Step2(serverDoc, f.sv))]
    /\ UNCHANGED <<deviceVars, serverVars, plain, drops, crashes, unheard>>

(***************************************************************************)
(* The room doc's 'update' event: the change, from the doc before to the   *)
(* doc after, goes to every other client of the room, and the persist      *)
(* timer is (re)armed.  No change, no event.                               *)
(***************************************************************************)
DocUpdated(c, before, after) ==
  IF NoChange(before, after)
  THEN UNCHANGED <<down, persistDue>>
  ELSE /\ persistDue' = TRUE
       /\ down' = [d \in Client |->
            IF d \in clients \ {c}
            THEN Append(down[d], UpdateFrame(Delta(before, after)))
            ELSE down[d]]

(***************************************************************************)
(* What the room's doc had parked and u, from device c, let it integrate:  *)
(* the event carries it, but c, where u came from, is not sent the event.  *)
(***************************************************************************)
Adopted(c, u, before, after) ==
  {i \in Integrated(after) \ (Integrated(before) \cup u.full \cup u.bare) : i.by # c}

\* An accepted update is applied to the room's doc.
AcceptUpdate(c) ==
  LET f == Head(up[c]) IN
    /\ Receives(c)
    /\ CarriesUpdate(f)
    /\ Refused(f) = {}
    /\ serverDoc' = ApplyUpdate(serverDoc, f.update)
    /\ DocUpdated(c, serverDoc, serverDoc')
    /\ unheard' = [unheard EXCEPT ![c] = @ \cup Adopted(c, f.update, serverDoc, serverDoc')]
    /\ UNCHANGED <<deviceVars, currentKeyId, clients, lastRejection, resyncTimer,
                   stored, plain, drops, crashes>>

\* askForResync: this very frame was the last one refused on this socket.
Repeated(c, f) == lastRejection[c] = {f}

\* Mutant: the client is told, but not asked for its state again.
RefusalWithoutStep1(c, f) ==
  [down EXCEPT ![c] = Append(@, RejectedFrame(currentKeyId, Refused(f)))]

\* Mutant: the refused update still goes out to the other clients.
RefusalWithFanout(c, f) ==
  [d \in Client |->
     IF d = c THEN down[c] \o <<RejectedFrame(currentKeyId, Refused(f)), Step1(serverDoc)>>
     ELSE IF d \in clients THEN Append(down[d], f) ELSE down[d]]

\* The client is told which messages were refused and asked for its state again.
Refusal(c, f) ==
  LET notice == Append(down[c], RejectedFrame(currentKeyId, Refused(f)))
  IN [down EXCEPT ![c] = IF Repeated(c, f) THEN notice ELSE Append(notice, Step1(serverDoc))]

(***************************************************************************)
(* A refused update: nothing is applied.  The step1 goes out at once, or,  *)
(* for a repeated frame, later (the delay doubles up to a maximum; what is *)
(* kept is that it is delayed and that the newest timer wins).             *)
(***************************************************************************)
RejectUpdate(c) ==
  LET f == Head(up[c]) IN
    /\ Receives(c)
    /\ Refused(f) # {}
    /\ down' = Refusal(c, f)
    /\ resyncTimer' = [resyncTimer EXCEPT ![c] = Repeated(c, f)]
    /\ lastRejection' = [lastRejection EXCEPT ![c] = {f}]
    /\ UNCHANGED <<deviceVars, serverDoc, currentKeyId, clients, stored, persistDue,
                   plain, drops, crashes, unheard>>

\* The delayed step1 of askForResync.
ResyncTimeout(c) ==
  /\ resyncTimer[c]
  /\ resyncTimer' = [resyncTimer EXCEPT ![c] = FALSE]
  /\ down' = [down EXCEPT ![c] = Append(@, Step1(serverDoc))]
  /\ UNCHANGED <<deviceVars, serverDoc, currentKeyId, clients, lastRejection, stored,
                 persistDue, up, plain, drops, crashes, unheard>>

\* raiseEpoch: an epoch claim committed; every client of the room is told.
RaiseEpoch ==
  /\ currentKeyId < MaxEpoch
  /\ currentKeyId' = currentKeyId + 1
  /\ down' = [d \in Client |-> IF d \in clients
                               THEN Append(down[d], EpochFrame(currentKeyId + 1))
                               ELSE down[d]]
  /\ UNCHANGED <<deviceVars, serverDoc, clients, lastRejection, resyncTimer, stored,
                 persistDue, up, plain, drops, crashes, unheard>>

\* The persist timer fires: the whole doc overwrites the stored snapshot.
Persist ==
  /\ persistDue
  /\ stored' = serverDoc
  /\ persistDue' = FALSE
  /\ UNCHANGED <<deviceVars, serverDoc, currentKeyId, clients, lastRejection,
                 resyncTimer, up, down, plain, drops, crashes, unheard>>

-----------------------------------------------------------------------------
(* The device: WebSocketProvider.handleServerMessage.                       *)

Delivers(c) ==
  /\ down[c] # <<>>
  /\ down' = [down EXCEPT ![c] = Tail(@)]

\* The server asks for this device's state; a refused device stays silent.
ClientStep1(c) ==
  LET f == Head(down[c]) IN
    /\ Delivers(c)
    /\ f.type = "step1"
    /\ up' = IF stateRefused[c] THEN up
             ELSE [up EXCEPT ![c] = Append(@, Step2(doc[c], f.sv))]
    /\ UNCHANGED <<deviceVars, serverVars, plain, drops, crashes, unheard>>

\* Remote changes are applied with the provider as origin: not sent back.
ClientUpdate(c) ==
  LET f == Head(down[c]) IN
    /\ Delivers(c)
    /\ CarriesUpdate(f)
    /\ doc' = [doc EXCEPT ![c] = ApplyUpdate(@, f.update)]
    /\ synced' = [synced EXCEPT ![c] = @ \/ f.type = "step2"]
    /\ UNCHANGED <<sent, hasCipher, epochSeen, status, pendingUpdates, retractedIds,
                   stateRefused, serverVars, up, plain, drops, crashes, unheard>>

\* Mutant: any named message is deleted, whoever wrote it.
RetractableByAnyone(c, ids) == ids \cap Live(doc[c])

\* The messages retractMessages deletes: named, visible here, and our own.
Retractable(c, ids) == {i \in ids \cap Live(doc[c]) : i.by = c}

\* Mutant: what this session already deleted is not remembered.
RepairedNowOnly(c, ids, retracted) == ids # {} /\ ids \subseteq retracted

\* Every refused message is gone from our state, deleted now or earlier.
Repaired(c, ids, retracted) == ids # {} /\ ids \subseteq retractedIds[c] \cup retracted

(***************************************************************************)
(* The server refused some messages.  Our own are deleted here, at once,   *)
(* and the deletion is sent; when a named message is neither deleted now   *)
(* nor was in this session, the provider gives up pushing its state.       *)
(***************************************************************************)
ClientRejected(c) ==
  LET f == Head(down[c]) IN
    /\ Delivers(c)
    /\ f.type = "rejected" /\ c \notin Stale
    /\ LET retracted == Retractable(c, f.ids)
           deletion  == [full |-> {}, bare |-> {}, del |-> retracted]
           repaired  == Repaired(c, f.ids, retracted)
       IN /\ doc' = [doc EXCEPT ![c] = ApplyUpdate(@, deletion)]
          /\ up' = IF retracted = {} THEN up ELSE SentNow(c, deletion)
          /\ retractedIds' = [retractedIds EXCEPT ![c] = @ \cup retracted]
          /\ epochSeen' = IF retracted # {} \/ ~repaired
                          THEN [epochSeen EXCEPT ![c] = Higher(@, f.keyId)]
                          ELSE epochSeen
          /\ stateRefused' = [stateRefused EXCEPT ![c] = @ \/ ~repaired]
          /\ pendingUpdates' = IF repaired THEN pendingUpdates
                               ELSE [pendingUpdates EXCEPT ![c] = <<>>]
    /\ UNCHANGED <<sent, hasCipher, status, synced, serverVars, plain, drops, crashes, unheard>>

\* The room is encrypted: the app gates the composer.
ClientEpoch(c) ==
  LET f == Head(down[c]) IN
    /\ Delivers(c)
    /\ f.type = "epoch" /\ c \notin Stale
    /\ epochSeen' = [epochSeen EXCEPT ![c] = Higher(@, f.keyId)]
    /\ UNCHANGED <<doc, sent, hasCipher, status, pendingUpdates, retractedIds,
                   stateRefused, synced, serverVars, up, plain, drops, crashes, unheard>>

\* A stale app's handleServerMessage knows neither frame type.
ClientIgnores(c) ==
  LET f == Head(down[c]) IN
    /\ Delivers(c)
    /\ f.type \in {"rejected", "epoch"} /\ c \in Stale
    /\ UNCHANGED <<deviceVars, serverVars, up, plain, drops, crashes, unheard>>

-----------------------------------------------------------------------------
(* Faults, and the rebuild of a device's engine.                            *)

\* What the server drops when the sockets of the devices in S close.
ForgetSockets(S) ==
  /\ clients' = clients \ S
  /\ lastRejection' = [c \in Client |-> IF c \in S THEN {} ELSE lastRejection[c]]
  /\ resyncTimer' = [c \in Client |-> resyncTimer[c] /\ c \notin S]
  /\ up' = [c \in Client |-> IF c \in S THEN <<>> ELSE up[c]]
  /\ down' = [c \in Client |-> IF c \in S THEN <<>> ELSE down[c]]
  /\ unheard' = [c \in Client |-> IF c \in S THEN {} ELSE unheard[c]]

(***************************************************************************)
(* A socket closes, for any reason.  Frames the server would still have    *)
(* read are read before this step; the rest are lost in both directions.   *)
(***************************************************************************)
Disconnect(c) ==
  /\ drops < MaxDrops
  /\ status[c] = "connected"
  /\ status' = [status EXCEPT ![c] = "disconnected"]
  /\ ForgetSockets({c})
  /\ drops' = drops + 1
  /\ UNCHANGED <<doc, sent, hasCipher, epochSeen, pendingUpdates, retractedIds,
                 stateRefused, synced, serverDoc, currentKeyId, stored, persistDue, plain, crashes>>

\* The server process dies; the room is loaded again from its snapshot.
Crash ==
  /\ crashes < MaxCrashes
  /\ crashes' = crashes + 1
  /\ serverDoc' = ApplyUpdate(EmptyDoc, EncodeState(stored))
  /\ persistDue' = FALSE
  /\ status' = [c \in Client |-> "disconnected"]
  /\ ForgetSockets(Client)
  /\ UNCHANGED <<doc, sent, hasCipher, epochSeen, pendingUpdates, retractedIds,
                 stateRefused, synced, currentKeyId, stored, plain, drops>>

(***************************************************************************)
(* The app obtained a room key (only an encrypted room has one): it builds *)
(* a new engine with the cipher, and a new provider, on the doc saved on   *)
(* the device.  The new Y.Doc draws a new Yjs clientID; continuing the old *)
(* clock stands for the left origin of its first message, which is at or   *)
(* after the device's last one.  A refused device goes another way (its    *)
(* doc is discarded); that is the room screen's business, not modelled     *)
(* here.                                                                   *)
(***************************************************************************)
Rebuild(c) ==
  /\ drops < MaxDrops
  /\ c \notin Stale /\ ~hasCipher[c] /\ currentKeyId > 0 /\ ~stateRefused[c]
  /\ hasCipher' = [hasCipher EXCEPT ![c] = TRUE]
  /\ epochSeen' = [epochSeen EXCEPT ![c] = currentKeyId]
  /\ status' = [status EXCEPT ![c] = "disconnected"]
  /\ pendingUpdates' = [pendingUpdates EXCEPT ![c] = <<>>]
  /\ retractedIds' = [retractedIds EXCEPT ![c] = {}]
  /\ synced' = [synced EXCEPT ![c] = FALSE]
  /\ ForgetSockets({c})
  /\ drops' = drops + 1
  /\ UNCHANGED <<doc, sent, stateRefused, serverDoc, currentKeyId, stored, persistDue,
                 plain, crashes>>

-----------------------------------------------------------------------------
ServerReceive(c) == AnswerStep1(c) \/ AcceptUpdate(c) \/ RejectUpdate(c)

ClientReceive(c) ==
  ClientStep1(c) \/ ClientUpdate(c) \/ ClientRejected(c) \/ ClientEpoch(c)
    \/ ClientIgnores(c)

Next ==
  \/ \E c \in Client :
       \/ SendMessage(c) \/ Open(c) \/ LoseEarlyFrame(c) \/ Join(c)
       \/ ServerReceive(c) \/ ResyncTimeout(c)
       \/ ClientReceive(c)
       \/ Disconnect(c) \/ Rebuild(c)
  \/ RaiseEpoch \/ Persist \/ Crash

Spec == Init /\ [][Next]_vars

(***************************************************************************)
(* Fairness: the provider always schedules a reconnect, an accepted socket *)
(* always finishes handleConnection, the event loops handle the frames     *)
(* that arrived, and a timer that is armed fires.  Nothing is assumed of   *)
(* users, faults, epoch claims or the persist timer.                       *)
(***************************************************************************)
Fairness ==
  \A c \in Client :
    /\ WF_vars(Open(c)) /\ WF_vars(Join(c))
    /\ WF_vars(ServerReceive(c)) /\ WF_vars(ClientReceive(c))
    /\ WF_vars(ResyncTimeout(c))

FairSpec == Spec /\ Fairness

-----------------------------------------------------------------------------
(* Properties.                                                              *)

\* Every variable holds the kind of value the code gives it.
TypeOK ==
  /\ doc \in [Client -> Doc]
  /\ sent \in [Client -> 0 .. MaxSend]
  /\ hasCipher \in [Client -> BOOLEAN]
  /\ epochSeen \in [Client -> 0 .. MaxEpoch]
  /\ status \in [Client -> {"disconnected", "connected"}]
  /\ pendingUpdates \in [Client -> Seq(Update)]
  /\ retractedIds \in [Client -> SUBSET Item]
  /\ stateRefused \in [Client -> BOOLEAN]
  /\ synced \in [Client -> BOOLEAN]
  /\ serverDoc \in Doc
  /\ currentKeyId \in 0 .. MaxEpoch
  /\ clients \subseteq Client
  /\ lastRejection \in [Client -> SUBSET SyncFrame]
  /\ resyncTimer \in [Client -> BOOLEAN]
  /\ stored \in Doc
  /\ persistDue \in BOOLEAN
  /\ up \in [Client -> Seq(SyncFrame)]
  /\ down \in [Client -> Seq(ServerFrame)]
  /\ plain \subseteq Item
  /\ drops \in 0 .. MaxDrops
  /\ crashes \in 0 .. MaxCrashes
  /\ unheard \in [Client -> SUBSET Item]

\* Nothing is under way between device c and the server.
Quiet(c) ==
  /\ c \in clients
  /\ up[c] = <<>> /\ down[c] = <<>>
  /\ ~resyncTimer[c]
  /\ ~stateRefused[c]

\* The messages device c was not sent, and those of their authors that wait for
\* them there.
Behind(c) == {i \in Item : ({i} \cup Earlier(i)) \cap unheard[c] # {}}

\* Device c and the server show the same messages and deletions.
Agrees(c) ==
  /\ Integrated(doc[c]) \subseteq Integrated(serverDoc)
  /\ Deleted(doc[c]) \subseteq Deleted(serverDoc)
  /\ Integrated(serverDoc) \subseteq Integrated(doc[c]) \cup Behind(c)
  /\ Deleted(serverDoc) \subseteq Deleted(doc[c]) \cup Behind(c)

(***************************************************************************)
(* No update is ever lost for good.  Whatever was queued, dropped with a   *)
(* socket, sent before the server listened, refused, or forgotten in a     *)
(* crash: once nothing is under way on a device's connection, the device   *)
(* and the server agree on every message and every deletion.  This is what *)
(* the step1/step2 exchange on join and the step1 after a refusal are for. *)
(* The one exception takes a crash: a message that came back before an     *)
(* earlier one of its author did is parked, and the device that brings the *)
(* earlier one back is not sent the event with both (EverybodyHears).      *)
(***************************************************************************)
QuietAgreement ==
  /\ \A c \in Client : Quiet(c) => Agrees(c)
  /\ crashes = 0 => \A c \in Client : unheard[c] = {}

\* The plaintext messages their own author's device has deleted.
Withdrawn == {i \in plain : i \in doc[i.by].del}

(***************************************************************************)
(* A deletion reaches a replica only if the message was plaintext and its  *)
(* author's device withdrew it first: a refusal that names other members'  *)
(* messages, or that bounced encrypted messages along with plaintext ones, *)
(* never takes those down (retractMessages is scoped to the own userId).   *)
(***************************************************************************)
OnlyAuthorsWithdraw ==
  /\ serverDoc.del \cup stored.del \subseteq Withdrawn
  /\ \A c \in Client : doc[c].del \subseteq Withdrawn

(***************************************************************************)
(* Before the server crashes, no device holds another device's message     *)
(* that the server does not hold: a device can then only be asked          *)
(* to repair messages it wrote itself, or parked plaintext (see            *)
(* RefusalWarranted).                                                      *)
(***************************************************************************)
ServerHoldsForeign ==
  crashes = 0 => \A c \in Client : {i \in doc[c].have : i.by # c} \subseteq serverDoc.have

(***************************************************************************)
(* Once the room is encrypted, no plaintext content enters the server's    *)
(* doc, by step2 or by update, from any device, however old its app; a     *)
(* crash can only bring back what the last snapshot held.                  *)
(***************************************************************************)
GateHolds ==
  [][currentKeyId > 0 =>
       Content(serverDoc') \cap plain' \subseteq Content(serverDoc) \cup Content(stored)]_vars

(***************************************************************************)
(* A device gives up pushing its state only over another member's message: *)
(* one whose refused messages are all its own always repairs itself, even  *)
(* when the same message bounces more than once (retractedIds).            *)
(***************************************************************************)
RefusedOnlyForOthers ==
  [][\A c \in Client : stateRefused'[c] /\ ~stateRefused[c] =>
       \E i \in Head(down[c]).ids : i.by # c]_vars

(***************************************************************************)
(* Once epochs, sends and faults have ceased, every current device ends    *)
(* either in agreement with the server or refused and silent: the          *)
(* reject/resync exchange ends, whatever plaintext was queued, and a stale *)
(* device that goes on being refused does not keep the others from it.     *)
(***************************************************************************)
Settles ==
  <>[](\A c \in Client \ Stale :
         \/ Quiet(c) /\ Agrees(c)
         \/ stateRefused[c] /\ up[c] = <<>> /\ down[c] = <<>>)

\* A doc as a copy of the shared room: an item is there unless it is deleted.
AsCopy(d) == [has |-> d.have \ d.del, gone |-> d.del]

Shared == INSTANCE SharedRoom WITH
  Devices <- Client, Messages <- Item, Author <- [i \in Item |-> i.by],
  device <- [c \in Client |-> AsCopy(doc[c])], room <- AsCopy(serverDoc), saved <- AsCopy(stored),
  written <- Created, encrypted <- currentKeyId > 0

(***************************************************************************)
(* All of the exchange implements SharedRoom.  What is queued, resent, in  *)
(* flight or refused never takes a copy beyond what sender and receiver    *)
(* can answer for when it arrives: frames keep true while they are under   *)
(* way, although the server restarts and messages are taken down meanwhile.*)
(***************************************************************************)
SharesARoom == Shared!Spec

-----------------------------------------------------------------------------
(* What comments and documents say of the program, and the program does     *)
(* not always do.                                                           *)

(***************************************************************************)
(* WebSocketProvider.ts:201: a refusal that is not repaired means "Our     *)
(* step2 would carry the same refused item again".                         *)
(***************************************************************************)
RefusalWarranted ==
  [][\A c \in Client : stateRefused'[c] /\ ~stateRefused[c] =>
       Content(doc'[c]) \cap plain # {}]_vars

(***************************************************************************)
(* sync.gateway.ts:484: "In all cases, fan the delta out to local clients  *)
(* except the originating one", which, it is supposed, has all of it.      *)
(***************************************************************************)
EverybodyHears == \A c \in Client : Quiet(c) => NoChange(doc[c], serverDoc)

(***************************************************************************)
(* ADR-010:157: "Mixed plaintext/ciphertext history within one array is an *)
(* acceptable permanent state": what the room's history holds stays there. *)
(***************************************************************************)
HistoryIsPermanent == [][Live(serverDoc) \subseteq Live(serverDoc')]_vars
=============================================================================

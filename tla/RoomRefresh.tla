----------------------------- MODULE RoomRefresh -----------------------------
(***************************************************************************)
(* How the mobile app decides whether a room is encrypted: the rooms store *)
(* (requestRooms, fetchRooms, noteRoomEpoch, rememberE2eeRooms), the room  *)
(* refresher with its retry timer, the request sequencing of               *)
(* createLatestWins, the persisted flag of E2eeStickyStore, and            *)
(* resolveRoomE2eeState, which gates the composer.                         *)
(*                                                                         *)
(* One device, signed in throughout, and one room it is a member of.       *)
(* GET /rooms requests overlap: the list's own, one at a time, and one for *)
(* each refresher entry, which leaving the room abandons without           *)
(* cancelling.  The server answers them in any order.  An answer is the    *)
(* room's currentKeyId as the server read it.  A list without the room     *)
(* counts as an HTTP error, and an unreadable flag as a set one.           *)
(***************************************************************************)
EXTENDS Integers

CONSTANTS
  MaxEpoch,     \* bound: epochs claimed
  MaxEntries,   \* bound: times the room screen is opened
  MaxFailures,  \* bound: requests and flag writes that fail
  MaxRestarts   \* bound: times the app is killed

ASSUME RefreshAssumption ==
  {MaxEpoch, MaxEntries, MaxFailures, MaxRestarts} \subseteq Nat

VARIABLES
  currentKeyId,  \* server: the room's epoch
  wsStatus,      \* wsStatusByRoom; "none" while there is no provider
  mounted,       \* the room screen is open
  rooms,         \* currentKeyId in the cached summary, or Unlisted
  refreshByRoom, \* outcome of the refresh of this visit
  everE2ee,      \* everE2eeByRoom
  isLoading,     \* the overlap guard of fetchRooms
  earlier, late, \* createLatestWins: the requests begun before each, and those too late
  entry,         \* the refresher's entry for the room, 0 is none
  retryTimer,    \* the entry's retry timer is armed
  request,       \* the state of each requester's GET /rooms
  sticky,        \* the persisted flag
  marking,       \* a write of the flag is under way
  \* history
  entries, failures, restarts,  \* bounded by the Max constants
  epochAtEntry   \* the room's epoch when the screen was last opened

serverVars == <<currentKeyId>>
storeVars  == <<rooms, refreshByRoom, everE2ee, isLoading, earlier, late>>
entryVars  == <<entry, retryTimer, entries>>
flagVars   == <<sticky, marking>>
screenVars == <<wsStatus, mounted, epochAtEntry>>
vars == <<serverVars, storeVars, entryVars, request, flagVars, screenVars, failures, restarts>>

Unlisted == -1
Cached   == {Unlisted} \cup 0 .. MaxEpoch

\* RoomRefreshState; "none" is undefined.
Refresh == [status : {"none", "pending", "offline", "error"}, keyId : {0}]
             \cup [status : {"ok"}, keyId : 0 .. MaxEpoch]
NotOk(status) == [status |-> status, keyId |-> 0]
Ok(k)         == [status |-> "ok", keyId |-> k]

\* The rooms screen's request is 0, that of a refresher entry is the entry's.
List      == 0
Requester == 0 .. MaxEntries
Request   == [at : {"idle", "flag", "sent", "served"}, keyId : 0 .. MaxEpoch]
Idle      == [at |-> "idle", keyId |-> 0]

\* Mutant: every frame raises the epoch.
OneHigher(a, b) == a + 1

Higher(a, b) == IF a > b THEN a ELSE b

(***************************************************************************)
(* resolveRoomE2eeState: any sighting of an epoch is final; otherwise the  *)
(* refresh decides, and only the server or being offline says plaintext.   *)
(***************************************************************************)
E2eeState ==
  CASE rooms > 0 \/ everE2ee -> "e2ee"
    [] ~(rooms > 0 \/ everE2ee) /\ refreshByRoom.status = "ok" ->
         IF refreshByRoom.keyId > 0 THEN "e2ee" ELSE "plaintext"
    [] ~(rooms > 0 \/ everE2ee) /\ refreshByRoom.status = "offline" -> "plaintext"
    [] OTHER -> "unknown"

Init ==
  /\ currentKeyId = 0
  /\ wsStatus = "none" /\ mounted = FALSE
  /\ rooms = Unlisted /\ refreshByRoom = NotOk("none") /\ everE2ee = FALSE
  /\ isLoading = FALSE /\ earlier = [q \in Requester |-> {}] /\ late = {}
  /\ entry = 0 /\ retryTimer = FALSE
  /\ request = [q \in Requester |-> Idle]
  /\ sticky = FALSE /\ marking = FALSE
  /\ entries = 0 /\ failures = 0 /\ restarts = 0 /\ epochAtEntry = 0

-----------------------------------------------------------------------------
(* The server, and the user.                                                *)

\* An admin enables encryption or rotates the key.
ClaimEpoch ==
  /\ currentKeyId < MaxEpoch
  /\ currentKeyId' = currentKeyId + 1
  /\ UNCHANGED <<storeVars, entryVars, request, flagVars, screenVars, failures, restarts>>

\* roomRefresher.refresh for entry e: deduped while one is in flight.
Refreshes(e) ==
  IF request[e].at # "idle"
  THEN UNCHANGED <<request, retryTimer, refreshByRoom>>
  ELSE /\ request' = [request EXCEPT ![e] = [Idle EXCEPT !.at = "flag"]]
       /\ retryTimer' = FALSE
       /\ refreshByRoom' = NotOk("pending")

\* The room screen opens: refreshRoom with a new entry.
Enter ==
  /\ ~mounted /\ entries < MaxEntries
  /\ mounted' = TRUE
  /\ entries' = entries + 1 /\ entry' = entries + 1
  /\ Refreshes(entries + 1)
  /\ epochAtEntry' = currentKeyId
  /\ UNCHANGED <<serverVars, rooms, everE2ee, isLoading, earlier, late, flagVars,
                 wsStatus, failures, restarts>>

\* It closes: stopRoomRefresh forgets the entry; its request goes on.
Leave ==
  /\ mounted
  /\ mounted' = FALSE /\ wsStatus' = "none"
  /\ entry' = 0 /\ retryTimer' = FALSE
  /\ refreshByRoom' = NotOk("none")
  /\ UNCHANGED <<serverVars, rooms, everE2ee, isLoading, earlier, late, entries,
                 request, flagVars, epochAtEntry, failures, restarts>>

-----------------------------------------------------------------------------
(* The room's socket (onStatusChange, onRoomEpoch, onE2eeRejected).         *)

SocketConnecting ==
  /\ mounted /\ wsStatus \in {"none", "disconnected"}
  /\ wsStatus' = "connecting"
  /\ UNCHANGED <<serverVars, storeVars, entryVars, request, flagVars, mounted,
                 epochAtEntry, failures, restarts>>

\* Every (re)connect refreshes the room again.
SocketConnected ==
  /\ wsStatus = "connecting"
  /\ wsStatus' = "connected"
  /\ Refreshes(entry)
  /\ UNCHANGED <<serverVars, rooms, everE2ee, isLoading, earlier, late, entry, entries,
                 flagVars, mounted, epochAtEntry, failures, restarts>>

SocketDown ==
  /\ wsStatus \in {"connecting", "connected"}
  /\ wsStatus' = "disconnected"
  /\ UNCHANGED <<serverVars, storeVars, entryVars, request, flagVars, mounted,
                 epochAtEntry, failures, restarts>>

\* The engine is rebuilt, with a new cipher or an emptied document: clearRoom
\* forgets the old provider's status.
EngineRebuilt ==
  /\ mounted /\ wsStatus # "none"
  /\ wsStatus' = "none"
  /\ UNCHANGED <<serverVars, storeVars, entryVars, request, flagVars, mounted,
                 epochAtEntry, failures, restarts>>

\* noteRoomEpoch.
NoteRoomEpoch(k) ==
  /\ rooms' = IF rooms = Unlisted THEN Unlisted ELSE Higher(rooms, k)
  /\ refreshByRoom' = Ok(Higher(refreshByRoom.keyId, k))
  /\ everE2ee' = TRUE
  /\ marking' = TRUE

\* A frame that names the room's epoch, on join or later.
EpochFrame ==
  /\ wsStatus = "connected"
  /\ \E k \in 1 .. currentKeyId : NoteRoomEpoch(k)
  /\ UNCHANGED <<serverVars, isLoading, earlier, late, entryVars, request, sticky,
                 screenVars, failures, restarts>>

-----------------------------------------------------------------------------
(* Requests.                                                                *)

UnderWay == {q \in Requester : request[q].at \in {"sent", "served"}}

\* Requester q's request is over.
Ends(q) ==
  /\ request' = [request EXCEPT ![q] = Idle]
  /\ earlier' = [p \in Requester |-> IF p = q THEN {} ELSE earlier[p] \ {q}]

\* requestRooms for requester q, up to the await of fetch.
Begin(q) ==
  /\ earlier' = [earlier EXCEPT ![q] = UnderWay]
  /\ request' = [request EXCEPT ![q] = [at |-> "sent", keyId |-> 0]]

\* The rooms screen, an envelope in a room listed as plaintext, or enabling.
FetchRooms ==
  /\ ~isLoading
  /\ isLoading' = TRUE
  /\ Begin(List)
  /\ UNCHANGED <<serverVars, rooms, refreshByRoom, everE2ee, late, entryVars, flagVars,
                 screenVars, failures, restarts>>

\* Mutant: the flag is not read before the request.
NoFlag == FALSE

\* What E2eeStickyStore.wasEverE2ee answers.
WasEverE2ee == sticky

\* The flag has been read: request the list.
ReadFlag(e) ==
  /\ request[e].at = "flag"
  /\ everE2ee' = (everE2ee \/ WasEverE2ee)
  /\ Begin(e)
  /\ UNCHANGED <<serverVars, rooms, refreshByRoom, isLoading, late, entryVars, flagVars,
                 screenVars, failures, restarts>>

\* The server reads the rooms of the user.
Served(q) ==
  /\ request[q].at = "sent"
  /\ request' = [request EXCEPT ![q].at = "served", ![q].keyId = currentKeyId]
  /\ UNCHANGED <<serverVars, storeVars, entryVars, flagVars, screenVars, failures, restarts>>

\* A request begun after q's has been applied.
TooLate(q) == q \in late

\* requestRooms with the list: applied unless a newer one was.
Apply(q) ==
  LET k == request[q].keyId IN
  IF TooLate(q)
  THEN /\ late' = late \ {q}
       /\ UNCHANGED <<rooms, everE2ee, marking>>
  ELSE /\ late' = (late \cup earlier[q]) \ {q}
       /\ rooms' = k
       /\ everE2ee' = (everE2ee \/ k > 0)
       /\ marking' = (marking \/ k > 0)

ListArrives ==
  /\ request[List].at = "served"
  /\ Apply(List)
  /\ isLoading' = FALSE
  /\ Ends(List)
  /\ UNCHANGED <<serverVars, refreshByRoom, entryVars, sticky, screenVars,
                 failures, restarts>>

\* Mutant: a result is taken whatever became of its entry.
AnyCurrent(e) == entry # 0

\* The entry has not been dropped since.
IsCurrent(e) == entry = e

\* The refresh has the list.
RefreshArrives(e) ==
  /\ request[e].at = "served"
  /\ Apply(e)
  /\ refreshByRoom' = IF IsCurrent(e) THEN Ok(request[e].keyId) ELSE refreshByRoom
  /\ Ends(e)
  /\ UNCHANGED <<serverVars, isLoading, entryVars, sticky, screenVars, failures,
                 restarts>>

\* The rooms screen's request fails: an error is shown.
ListFails ==
  /\ failures < MaxFailures
  /\ request[List].at \in {"sent", "served"}
  /\ failures' = failures + 1
  /\ isLoading' = FALSE
  /\ Ends(List) /\ late' = late \ {List}
  /\ UNCHANGED <<serverVars, rooms, refreshByRoom, everE2ee, entryVars, flagVars,
                 screenVars, restarts>>

\* The answer breaks off: res.json() throws, and nothing resets isLoading, so
\* the list is not requested again until the app is restarted.
ListBreaksOff ==
  /\ failures < MaxFailures
  /\ request[List].at = "served"
  /\ failures' = failures + 1
  /\ Ends(List) /\ late' = late \ {List}
  /\ UNCHANGED <<serverVars, rooms, refreshByRoom, everE2ee, isLoading, entryVars,
                 flagVars, screenVars, restarts>>

\* No response: offline only if the socket has failed too.
Offline == wsStatus = "disconnected"

\* Mutant: no retry is scheduled when offline.
RetriesErrors(status) == status = "error"

\* Keep trying while the room is open, offline too.
Retries(status) == TRUE

\* The refresh fails, without a response or with an error.
RefreshFails(e) ==
  /\ failures < MaxFailures
  /\ request[e].at \in {"sent", "served"}
  /\ failures' = failures + 1
  /\ Ends(e) /\ late' = late \ {e}
  /\ IF ~IsCurrent(e)
     THEN UNCHANGED <<refreshByRoom, retryTimer>>
     ELSE \E status \in IF Offline THEN {"offline", "error"} ELSE {"error"} :
            /\ refreshByRoom' = NotOk(status)
            /\ retryTimer' = Retries(status)
  /\ UNCHANGED <<serverVars, rooms, everE2ee, isLoading, entry, entries, flagVars,
                 screenVars, restarts>>

RetryTimeout ==
  /\ retryTimer
  /\ Refreshes(entry)
  /\ UNCHANGED <<serverVars, rooms, everE2ee, isLoading, earlier, late, entry, entries,
                 flagVars, screenVars, failures, restarts>>

-----------------------------------------------------------------------------
(* The persisted flag, and the end of the process.                          *)

MarkLands ==
  /\ marking
  /\ marking' = FALSE /\ sticky' = TRUE
  /\ UNCHANGED <<serverVars, storeVars, entryVars, request, screenVars, failures, restarts>>

\* markE2ee(...).catch(() => undefined).
MarkFails ==
  /\ marking /\ failures < MaxFailures
  /\ failures' = failures + 1
  /\ marking' = FALSE
  /\ UNCHANGED <<serverVars, storeVars, entryVars, request, sticky, screenVars, restarts>>

\* The app is killed and started again: only the flag is left.
Restart ==
  /\ restarts < MaxRestarts
  /\ restarts' = restarts + 1
  /\ wsStatus' = "none" /\ mounted' = FALSE
  /\ rooms' = Unlisted /\ refreshByRoom' = NotOk("none") /\ everE2ee' = FALSE
  /\ isLoading' = FALSE /\ earlier' = [q \in Requester |-> {}] /\ late' = {}
  /\ entry' = 0 /\ retryTimer' = FALSE
  /\ request' = [q \in Requester |-> Idle]
  /\ marking' = FALSE
  /\ UNCHANGED <<serverVars, entries, sticky, epochAtEntry, failures>>

-----------------------------------------------------------------------------
Next ==
  \/ ClaimEpoch \/ Enter \/ Leave
  \/ SocketConnecting \/ SocketConnected \/ SocketDown \/ EngineRebuilt
  \/ EpochFrame
  \/ FetchRooms \/ ListArrives \/ ListFails \/ ListBreaksOff
  \/ \E q \in Requester : Served(q)
  \/ \E e \in Requester \ {List} : ReadFlag(e) \/ RefreshArrives(e) \/ RefreshFails(e)
  \/ RetryTimeout \/ MarkLands \/ MarkFails \/ Restart

Spec == Init /\ [][Next]_vars

(***************************************************************************)
(* Fairness: the flag is read, requests reach the server and are answered, *)
(* timers fire, and the socket is tried again and again.                   *)
(***************************************************************************)
Fairness ==
  /\ \A q \in Requester : WF_vars(Served(q))
  /\ \A e \in Requester \ {List} : WF_vars(ReadFlag(e)) /\ WF_vars(RefreshArrives(e))
  /\ WF_vars(ListArrives) /\ WF_vars(RetryTimeout)
  /\ WF_vars(SocketConnecting) /\ WF_vars(SocketConnected)

FairSpec == Spec /\ Fairness

-----------------------------------------------------------------------------
(* Properties.                                                              *)

\* Every variable holds the kind of value the code gives it.
TypeOK ==
  /\ currentKeyId \in 0 .. MaxEpoch
  /\ wsStatus \in {"none", "connecting", "connected", "disconnected"}
  /\ mounted \in BOOLEAN
  /\ rooms \in Cached /\ refreshByRoom \in Refresh /\ everE2ee \in BOOLEAN
  /\ isLoading \in BOOLEAN
  /\ earlier \in [Requester -> SUBSET Requester] /\ late \subseteq Requester
  /\ entry \in Requester /\ (mounted <=> entry # 0)
  /\ retryTimer \in BOOLEAN
  /\ request \in [Requester -> Request]
  /\ sticky \in BOOLEAN /\ marking \in BOOLEAN
  /\ entries \in 0 .. MaxEntries /\ failures \in 0 .. MaxFailures
  /\ restarts \in 0 .. MaxRestarts /\ epochAtEntry \in 0 .. currentKeyId

(***************************************************************************)
(* A device that has saved that the room is encrypted never takes it for a *)
(* plaintext one again, whatever list is stale, request fails or socket is *)
(* down, and whether or not the app was restarted: the flag is always read *)
(* before anything that could say "plaintext".                             *)
(***************************************************************************)
SavedIsFinal == sticky => E2eeState # "plaintext"

(***************************************************************************)
(* A room that was encrypted before the user opened it never reads as      *)
(* plaintext on the server's word: not from a cached list, and not from    *)
(* the late answer to a request of an earlier visit.                       *)
(***************************************************************************)
EntryIsConfirmed ==
  mounted /\ epochAtEntry > 0 /\ refreshByRoom.status = "ok" => E2eeState = "e2ee"

(***************************************************************************)
(* An open room is decided on the server's word in the end.  It does not   *)
(* stay undecided, with its composer closed, and does not stay on the      *)
(* plaintext fallback of an offline device: the refresh is tried again,    *)
(* even if the socket never comes back.                                    *)
(***************************************************************************)
Confirmed == mounted ~> ~mounted \/ E2eeState = "e2ee" \/ refreshByRoom.status = "ok"

-----------------------------------------------------------------------------
(* What comments and documents say of the program, and the program does     *)
(* not always do.                                                           *)

(***************************************************************************)
(* roomE2eeState.ts:42: "Epochs only ever increase server-side, so any     *)
(* sighting of E2EE is final": a room the app has shown as encrypted does   *)
(* not go back to plaintext.                                               *)
(***************************************************************************)
SightingIsFinal == [](E2eeState = "e2ee" => [](E2eeState # "plaintext"))

(***************************************************************************)
(* rooms.store.ts:143: "Epochs only grow, so the frame is authoritative:   *)
(* bump the cached summary (useE2eeCipher builds the cipher from it)": an  *)
(* open room known to be encrypted gets a cipher in the end.               *)
(***************************************************************************)
CipherBuilt == mounted /\ everE2ee ~> ~mounted \/ rooms > 0
=============================================================================

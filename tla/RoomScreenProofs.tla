-------------------------- MODULE RoomScreenProofs --------------------------
(***************************************************************************)
(* Proofs about what the room's screen shows, for any bounds and heights.  *)
(*                                                                         *)
(* RoomRefresh, which gates the composer: its type invariant, that a saved *)
(* sighting is final, and that a visit is decided by an answer the server  *)
(* gave during that visit.                                                 *)
(*                                                                         *)
(* ChatView, the list above the composer: that the end is shown once       *)
(* nothing is under way, and that a reader who dragged the list away is    *)
(* left where they are.                                                    *)
(***************************************************************************)
EXTENDS RoomRefresh, ChatView, TLAPS

-----------------------------------------------------------------------------
(* RoomRefresh.                                                             *)

USE DEF List

\* The bounds are naturals.
LEMMA Bounds ==
  /\ MaxEpoch \in Nat /\ MaxEntries \in Nat
  /\ MaxFailures \in Nat /\ MaxRestarts \in Nat
  BY RefreshAssumption

\* Refreshing an entry keeps the types of what it changes.
LEMMA RefreshesType ==
  ASSUME TypeOK, NEW e \in Requester, Refreshes(e)
  PROVE  /\ request' \in [Requester -> Request]
         /\ retryTimer' \in BOOLEAN
         /\ refreshByRoom' \in Refresh
<1>1. [Idle EXCEPT !.at = "flag"] \in Request /\ NotOk("pending") \in Refresh
  BY Bounds DEF Request, Refresh, NotOk, Idle
<1>2. CASE request[e].at # "idle"
  BY <1>2 DEF TypeOK, Refreshes
<1>3. CASE request[e].at = "idle"
  BY <1>1, <1>3 DEF TypeOK, Refreshes
<1> QED
  BY <1>2, <1>3

\* Starting or ending a request keeps the types of what it changes.
LEMMA BeginType ==
  ASSUME TypeOK, NEW q \in Requester, Begin(q)
  PROVE  /\ request' \in [Requester -> Request]
         /\ earlier' \in [Requester -> SUBSET Requester]
<1>1. [at |-> "sent", keyId |-> 0] \in Request
  BY Bounds DEF Request
<1>2. UnderWay \in SUBSET Requester
  BY DEF UnderWay
<1> QED
  BY <1>1, <1>2 DEF TypeOK, Begin

LEMMA EndsType ==
  ASSUME TypeOK, NEW q \in Requester, Ends(q)
  PROVE  /\ request' \in [Requester -> Request]
         /\ earlier' \in [Requester -> SUBSET Requester]
<1>1. Idle \in Request
  BY Bounds DEF Request, Idle
<1>2. request' \in [Requester -> Request]
  BY <1>1 DEF TypeOK, Ends
<1>3. \A p \in Requester : (IF p = q THEN {} ELSE earlier[p] \ {q}) \in SUBSET Requester
  BY DEF TypeOK
<1> QED
  BY <1>2, <1>3 DEF Ends

\* Applying a list keeps the types of what it changes.
LEMMA ApplyType ==
  ASSUME TypeOK, NEW q \in Requester, Apply(q)
  PROVE  /\ rooms' \in Cached
         /\ everE2ee' \in BOOLEAN
         /\ marking' \in BOOLEAN
         /\ late' \subseteq Requester
<1>1. request[q].keyId \in 0 .. MaxEpoch
  BY DEF TypeOK, Request
<1>2. earlier[q] \subseteq Requester
  BY DEF TypeOK
<1>3. CASE TooLate(q)
  BY <1>3 DEF Apply, TypeOK
<1>4. CASE ~TooLate(q)
  <2>1. rooms' = request[q].keyId /\ late' = (late \cup earlier[q]) \ {q}
    BY <1>4 DEF Apply
  <2>2. everE2ee' \in BOOLEAN /\ marking' \in BOOLEAN
    BY <1>4 DEF Apply
  <2> QED
    BY <2>1, <2>2, <1>1, <1>2 DEF Cached, TypeOK
<1> QED
  BY <1>3, <1>4

(***************************************************************************)
(* TypeOK is inductive: it holds initially and every step preserves it.    *)
(***************************************************************************)
LEMMA TypeInit == Init => TypeOK
<1> SUFFICES ASSUME Init PROVE TypeOK
  OBVIOUS
<1>1. Idle \in Request
  BY Bounds DEF Request, Idle
<1>2. request \in [Requester -> Request] /\ earlier \in [Requester -> SUBSET Requester]
  BY <1>1 DEF Init
<1>3. refreshByRoom \in Refresh /\ rooms \in Cached
  BY DEF Init, Refresh, NotOk, Cached
<1>4. /\ currentKeyId \in 0 .. MaxEpoch /\ epochAtEntry \in 0 .. currentKeyId
      /\ entries \in 0 .. MaxEntries /\ failures \in 0 .. MaxFailures
      /\ restarts \in 0 .. MaxRestarts
  BY Bounds DEF Init
<1>5. entry \in Requester /\ late \subseteq Requester
  BY Bounds DEF Init, Requester
<1> QED
  BY <1>2, <1>3, <1>4, <1>5 DEF Init, TypeOK

LEMMA TypeStep == TypeOK /\ [Next]_vars => TypeOK'
<1> SUFFICES ASSUME TypeOK, [Next]_vars PROVE TypeOK'
  OBVIOUS
<1> USE DEF TypeOK, serverVars, storeVars, entryVars, flagVars, screenVars
<1>1. CASE UNCHANGED vars
  BY <1>1 DEF vars
<1>2. CASE ClaimEpoch
  BY <1>2, Bounds DEF ClaimEpoch
<1>3. CASE Enter
  <2>1. entries + 1 \in Requester /\ entries + 1 \in 0 .. MaxEntries /\ entries + 1 # 0
    BY <1>3, Bounds DEF Enter, Requester
  <2>2. /\ request' \in [Requester -> Request]
        /\ retryTimer' \in BOOLEAN
        /\ refreshByRoom' \in Refresh
    BY <1>3, <2>1, RefreshesType DEF Enter
  <2> QED
    BY <1>3, <2>1, <2>2, Bounds DEF Enter
<1>4. CASE Leave
  <2>1. NotOk("none") \in Refresh /\ 0 \in Requester
    BY Bounds DEF Refresh, NotOk, Requester
  <2> QED
    BY <1>4, <2>1 DEF Leave
<1>5. CASE SocketConnecting
  BY <1>5 DEF SocketConnecting
<1>6. CASE SocketConnected
  <2>1. /\ request' \in [Requester -> Request]
        /\ retryTimer' \in BOOLEAN
        /\ refreshByRoom' \in Refresh
    BY <1>6, RefreshesType DEF SocketConnected
  <2> QED
    BY <1>6, <2>1 DEF SocketConnected
<1>7. CASE SocketDown
  BY <1>7 DEF SocketDown
<1>8. CASE EngineRebuilt
  BY <1>8 DEF EngineRebuilt
<1>9. CASE EpochFrame
  <2>1. PICK k \in 1 .. currentKeyId : NoteRoomEpoch(k)
    BY <1>9 DEF EpochFrame
  <2>2. k \in 1 .. MaxEpoch
    BY Bounds
  <2>3. rooms' \in Cached
    <3>1. CASE rooms = Unlisted
      BY <2>1, <3>1 DEF NoteRoomEpoch, Cached
    <3>2. CASE rooms # Unlisted
      BY <2>1, <2>2, <3>2, Bounds DEF NoteRoomEpoch, Cached, Higher
    <3> QED
      BY <3>1, <3>2
  <2>4. refreshByRoom.keyId \in 0 .. MaxEpoch
    BY Bounds DEF Refresh
  <2>5. refreshByRoom' \in Refresh
    BY <2>1, <2>2, <2>4, Bounds DEF NoteRoomEpoch, Refresh, Ok, Higher
  <2> QED
    BY <1>9, <2>1, <2>3, <2>5 DEF EpochFrame, NoteRoomEpoch
<1>10. CASE FetchRooms
  <2>1. List \in Requester
    BY Bounds DEF Requester
  <2>2. /\ request' \in [Requester -> Request]
        /\ earlier' \in [Requester -> SUBSET Requester]
    BY <1>10, <2>1, BeginType DEF FetchRooms
  <2> QED
    BY <1>10, <2>2 DEF FetchRooms
<1>11. CASE ListArrives
  <2>1. List \in Requester
    BY Bounds DEF Requester
  <2>2. /\ rooms' \in Cached /\ everE2ee' \in BOOLEAN
        /\ marking' \in BOOLEAN /\ late' \subseteq Requester
    BY <1>11, <2>1, ApplyType DEF ListArrives
  <2>3. /\ request' \in [Requester -> Request]
        /\ earlier' \in [Requester -> SUBSET Requester]
    BY <1>11, <2>1, EndsType DEF ListArrives
  <2> QED
    BY <1>11, <2>2, <2>3 DEF ListArrives
<1>12. CASE ListFails
  <2>1. List \in Requester
    BY Bounds DEF Requester
  <2>2. /\ request' \in [Requester -> Request]
        /\ earlier' \in [Requester -> SUBSET Requester]
    BY <1>12, <2>1, EndsType DEF ListFails
  <2>3. failures' \in 0 .. MaxFailures
    BY <1>12, Bounds DEF ListFails
  <2> QED
    BY <1>12, <2>2, <2>3 DEF ListFails
<1>13. CASE ListBreaksOff
  <2>1. List \in Requester
    BY Bounds DEF Requester
  <2>2. /\ request' \in [Requester -> Request]
        /\ earlier' \in [Requester -> SUBSET Requester]
    BY <1>13, <2>1, EndsType DEF ListBreaksOff
  <2> QED
    BY <1>13, <2>2, Bounds DEF ListBreaksOff
<1>14. ASSUME NEW q \in Requester, Served(q) PROVE TypeOK'
  <2>1. [request[q] EXCEPT !.at = "served", !.keyId = currentKeyId] \in Request
    BY <1>14 DEF Request
  <2>2. request' \in [Requester -> Request]
    BY <1>14, <2>1 DEF Served, Request
  <2> QED
    BY <1>14, <2>2 DEF Served
<1>15. ASSUME NEW e \in Requester \ {List}, ReadFlag(e) PROVE TypeOK'
  <2>1. /\ request' \in [Requester -> Request]
        /\ earlier' \in [Requester -> SUBSET Requester]
    BY <1>15, BeginType DEF ReadFlag
  <2>2. everE2ee' \in BOOLEAN
    BY <1>15 DEF ReadFlag
  <2> QED
    BY <1>15, <2>1, <2>2 DEF ReadFlag
<1>16. ASSUME NEW e \in Requester \ {List}, RefreshArrives(e) PROVE TypeOK'
  <2>1. /\ rooms' \in Cached /\ everE2ee' \in BOOLEAN
        /\ marking' \in BOOLEAN /\ late' \subseteq Requester
    BY <1>16, ApplyType DEF RefreshArrives
  <2>2. /\ request' \in [Requester -> Request]
        /\ earlier' \in [Requester -> SUBSET Requester]
    BY <1>16, EndsType DEF RefreshArrives
  <2>3. request[e].keyId \in 0 .. MaxEpoch
    BY DEF Request
  <2>4. refreshByRoom' \in Refresh
    BY <1>16, <2>3 DEF RefreshArrives, Refresh, Ok
  <2> QED
    BY <1>16, <2>1, <2>2, <2>4 DEF RefreshArrives
<1>17. ASSUME NEW e \in Requester \ {List}, RefreshFails(e) PROVE TypeOK'
  <2>1. /\ request' \in [Requester -> Request]
        /\ earlier' \in [Requester -> SUBSET Requester]
    BY <1>17, EndsType DEF RefreshFails
  <2>2. refreshByRoom' \in Refresh /\ retryTimer' \in BOOLEAN
    <3>1. \A status \in {"none", "pending", "offline", "error"} : NotOk(status) \in Refresh
      BY DEF Refresh, NotOk
    <3>2. CASE ~IsCurrent(e)
      BY <1>17, <3>2 DEF RefreshFails
    <3>3. CASE IsCurrent(e)
      BY <1>17, <3>1, <3>3 DEF RefreshFails, Retries
    <3> QED
      BY <3>2, <3>3
  <2> QED
    BY <1>17, <2>1, <2>2, Bounds DEF RefreshFails
<1>18. CASE RetryTimeout
  <2>1. /\ request' \in [Requester -> Request]
        /\ retryTimer' \in BOOLEAN
        /\ refreshByRoom' \in Refresh
    BY <1>18, RefreshesType DEF RetryTimeout
  <2> QED
    BY <1>18, <2>1 DEF RetryTimeout
<1>19. CASE MarkLands
  BY <1>19 DEF MarkLands
<1>20. CASE MarkFails
  <2>1. failures' \in 0 .. MaxFailures
    BY <1>20, Bounds DEF MarkFails
  <2> QED
    BY <1>20, <2>1 DEF MarkFails
<1>21. CASE Restart
  <2>1. Idle \in Request /\ Unlisted \in Cached /\ NotOk("none") \in Refresh
    BY Bounds DEF Request, Idle, Cached, NotOk, Refresh
  <2>2. request' \in [Requester -> Request] /\ earlier' \in [Requester -> SUBSET Requester]
    BY <1>21, <2>1 DEF Restart
  <2>3. restarts' \in 0 .. MaxRestarts
    BY <1>21, Bounds DEF Restart
  <2>4. 0 \in Requester /\ {} \subseteq Requester
    BY Bounds DEF Requester
  <2> QED
    BY <1>21, <2>1, <2>2, <2>3, <2>4 DEF Restart
<1> QED
  BY <1>1, <1>2, <1>3, <1>4, <1>5, <1>6, <1>7, <1>8, <1>9, <1>10, <1>11, <1>12, <1>13,
     <1>14, <1>15, <1>16, <1>17, <1>18, <1>19, <1>20, <1>21 DEF Next

\* The variables of the client keep their types.
THEOREM TypeCorrect == Spec => []TypeOK
  BY TypeInit, TypeStep, PTL DEF Spec

-----------------------------------------------------------------------------
(***************************************************************************)
(* A saved flag that this run of the app has not seen yet: it is unseen    *)
(* only after a restart, until the first refresh reads it, and until then  *)
(* no request of a refresh is under way, so no refresh has an outcome.     *)
(***************************************************************************)
FlagInv ==
  /\ marking => everE2ee
  /\ sticky /\ ~everE2ee =>
       /\ refreshByRoom.status \in {"none", "pending"}
       /\ \A e \in Requester \ {List} : request[e].at \in {"idle", "flag"}

LEMMA FlagInit == Init => FlagInv
  BY DEF Init, FlagInv

\* A refresh that begins sends nothing before it has read the flag.
LEMMA FlagRefreshes ==
  ASSUME TypeOK, FlagInv, NEW e \in Requester, Refreshes(e),
         UNCHANGED <<sticky, everE2ee, marking>>
  PROVE  FlagInv'
<1>1. marking' => everE2ee'
  BY DEF FlagInv
<1>2. ASSUME sticky, ~everE2ee
      PROVE  /\ refreshByRoom'.status \in {"none", "pending"}
             /\ \A q \in Requester \ {List} : request'[q].at \in {"idle", "flag"}
  <2>1. CASE request[e].at # "idle"
    BY <1>2, <2>1 DEF Refreshes, FlagInv
  <2>2. CASE request[e].at = "idle"
    <3>1. refreshByRoom'.status = "pending"
      BY <2>2 DEF Refreshes, NotOk
    <3>2. [Idle EXCEPT !.at = "flag"].at = "flag"
      BY DEF Idle
    <3>3. \A q \in Requester \ {List} : request'[q].at \in {"idle", "flag"}
      BY <1>2, <2>2, <3>2 DEF Refreshes, FlagInv, TypeOK
    <3> QED
      BY <3>1, <3>3
  <2> QED
    BY <2>1, <2>2
<1> QED
  BY <1>1, <1>2 DEF FlagInv

\* A step that leaves everE2ee set, or sets it, keeps FlagInv.
LEMMA FlagSeen ==
  ASSUME everE2ee'
  PROVE  FlagInv'
  BY DEF FlagInv

\* A request that ends leaves the others as they were.
LEMMA EndsLeaves ==
  ASSUME TypeOK, NEW q \in Requester, Ends(q), NEW e \in Requester
  PROVE  request'[e] = IF e = q THEN Idle ELSE request[e]
  BY DEF TypeOK, Ends

\* Applying a list forgets nothing of everE2ee, and marks only what it sets.
LEMMA ApplyRemembers ==
  ASSUME TypeOK, FlagInv, NEW q \in Requester, Apply(q)
  PROVE  (everE2ee => everE2ee') /\ (marking' => everE2ee')
<1>1. CASE TooLate(q)
  BY <1>1 DEF Apply, FlagInv
<1>2. CASE ~TooLate(q)
  BY <1>2 DEF Apply, FlagInv
<1> QED
  BY <1>1, <1>2

LEMMA FlagStep == TypeOK /\ FlagInv /\ [Next]_vars => FlagInv'
<1> SUFFICES ASSUME TypeOK, FlagInv, [Next]_vars PROVE FlagInv'
  OBVIOUS
<1> USE DEF serverVars, storeVars, entryVars, flagVars, screenVars
<1>1. CASE UNCHANGED vars
  BY <1>1 DEF vars, FlagInv
<1>2. CASE ClaimEpoch
  BY <1>2 DEF ClaimEpoch, FlagInv
<1>3. CASE Enter
  <2>1. entries + 1 \in Requester
    BY <1>3, Bounds DEF Enter, Requester, TypeOK
  <2> QED
    BY <1>3, <2>1, FlagRefreshes DEF Enter
<1>4. CASE Leave
  BY <1>4 DEF Leave, FlagInv, NotOk
<1>5. CASE SocketConnecting
  BY <1>5 DEF SocketConnecting, FlagInv
<1>6. CASE SocketConnected
  BY <1>6, FlagRefreshes DEF SocketConnected, TypeOK
<1>7. CASE SocketDown
  BY <1>7 DEF SocketDown, FlagInv
<1>8. CASE EngineRebuilt
  BY <1>8 DEF EngineRebuilt, FlagInv
<1>9. CASE EpochFrame
  <2>1. everE2ee'
    BY <1>9 DEF EpochFrame, NoteRoomEpoch
  <2> QED
    BY <2>1, FlagSeen
<1>10. CASE FetchRooms
  <2>1. \A e \in Requester \ {List} : request'[e] = request[e]
    BY <1>10 DEF FetchRooms, Begin, TypeOK
  <2> QED
    BY <1>10, <2>1 DEF FetchRooms, FlagInv
<1>11. CASE ListArrives
  <2>1. List \in Requester
    BY Bounds DEF Requester
  <2>2. (everE2ee => everE2ee') /\ (marking' => everE2ee')
    BY <1>11, <2>1, ApplyRemembers DEF ListArrives
  <2>3. \A e \in Requester \ {List} : request'[e] = request[e]
    BY <1>11, <2>1, EndsLeaves DEF ListArrives
  <2>4. refreshByRoom' = refreshByRoom /\ sticky' = sticky
    BY <1>11 DEF ListArrives
  <2> QED
    BY <2>2, <2>3, <2>4 DEF FlagInv
<1>12. CASE ListFails
  <2>1. \A e \in Requester \ {List} : request'[e] = request[e]
    BY <1>12, Bounds, EndsLeaves DEF ListFails, Requester
  <2> QED
    BY <1>12, <2>1 DEF ListFails, FlagInv
<1>13. CASE ListBreaksOff
  <2>1. \A e \in Requester \ {List} : request'[e] = request[e]
    BY <1>13, Bounds, EndsLeaves DEF ListBreaksOff, Requester
  <2> QED
    BY <1>13, <2>1 DEF ListBreaksOff, FlagInv
<1>14. ASSUME NEW q \in Requester, Served(q) PROVE FlagInv'
  <2>1. \A e \in Requester \ {q} : request'[e] = request[e]
    BY <1>14 DEF Served, TypeOK
  <2>2. request[q].at = "sent"
    BY <1>14 DEF Served
  <2> QED
    BY <1>14, <2>1, <2>2 DEF Served, FlagInv
<1>15. ASSUME NEW e \in Requester \ {List}, ReadFlag(e) PROVE FlagInv'
  <2>1. everE2ee' = (everE2ee \/ sticky) /\ UNCHANGED <<sticky, marking>>
    BY <1>15 DEF ReadFlag, WasEverE2ee
  <2> QED
    BY <2>1 DEF FlagInv
<1>16. ASSUME NEW e \in Requester \ {List}, RefreshArrives(e) PROVE FlagInv'
  <2>1. (everE2ee => everE2ee') /\ (marking' => everE2ee')
    BY <1>16, ApplyRemembers DEF RefreshArrives
  <2>2. request[e].at = "served" /\ sticky' = sticky
    BY <1>16 DEF RefreshArrives
  <2>3. sticky => everE2ee
    BY <2>2 DEF FlagInv
  <2> QED
    BY <2>1, <2>2, <2>3 DEF FlagInv
<1>17. ASSUME NEW e \in Requester \ {List}, RefreshFails(e) PROVE FlagInv'
  <2>1. request[e].at \in {"sent", "served"} /\ UNCHANGED <<sticky, marking, everE2ee>>
    BY <1>17 DEF RefreshFails
  <2>2. sticky => everE2ee
    BY <2>1 DEF FlagInv
  <2> QED
    BY <2>1, <2>2 DEF FlagInv
<1>18. CASE RetryTimeout
  BY <1>18, FlagRefreshes DEF RetryTimeout, TypeOK
<1>19. CASE MarkLands
  BY <1>19 DEF MarkLands, FlagInv
<1>20. CASE MarkFails
  BY <1>20 DEF MarkFails, FlagInv
<1>21. CASE Restart
  BY <1>21 DEF Restart, FlagInv, NotOk, Idle
<1> QED
  BY <1>1, <1>2, <1>3, <1>4, <1>5, <1>6, <1>7, <1>8, <1>9, <1>10, <1>11, <1>12, <1>13,
     <1>14, <1>15, <1>16, <1>17, <1>18, <1>19, <1>20, <1>21 DEF Next

LEMMA FlagFinal == FlagInv => SavedIsFinal
  BY DEF FlagInv, SavedIsFinal, E2eeState

(***************************************************************************)
(* A device that has saved that the room is encrypted never takes it for a *)
(* plaintext one again: every request that could say so is sent only after *)
(* the flag has been read.                                                 *)
(***************************************************************************)
THEOREM SavedSightingIsFinal == Spec => []SavedIsFinal
  BY TypeInit, TypeStep, FlagInit, FlagStep, FlagFinal, PTL DEF Spec

-----------------------------------------------------------------------------
(***************************************************************************)
(* An entry's number is new when the screen opens, so its requests are all *)
(* of this visit, and the server answers them with an epoch at least that  *)
(* of the opening.  An outcome "ok" comes from such an answer or a frame.  *)
(***************************************************************************)
NewEntries == \A e \in Requester : e > entries => request[e].at = "idle"

AnswersOfVisit ==
  /\ entry \in {0, entries}
  /\ entry # 0 /\ request[entry].at = "served" => request[entry].keyId >= epochAtEntry

OutcomeOfVisit ==
  mounted /\ refreshByRoom.status = "ok" /\ epochAtEntry > 0
    => refreshByRoom.keyId > 0 \/ everE2ee

VisitInv == NewEntries /\ AnswersOfVisit /\ OutcomeOfVisit

LEMMA VisitInit == Init => VisitInv
  BY DEF Init, VisitInv, NewEntries, AnswersOfVisit, OutcomeOfVisit, Idle, NotOk

\* An outcome that is kept or cleared, with everE2ee kept, stays sound.
LEMMA OutcomeKept ==
  ASSUME OutcomeOfVisit, everE2ee => everE2ee', UNCHANGED epochAtEntry,
         UNCHANGED mounted, refreshByRoom' = refreshByRoom \/ refreshByRoom'.status # "ok"
  PROVE  OutcomeOfVisit'
  BY DEF OutcomeOfVisit

\* What a refresh does to the requests: at most entry e's leaves "idle", for "flag".
LEMMA RefreshesLeaves ==
  ASSUME TypeOK, NEW e \in Requester, Refreshes(e)
  PROVE  /\ \A q \in Requester \ {e} : request'[q] = request[q]
         /\ request'[e] = request[e] \/ request'[e].at = "flag"
         /\ refreshByRoom' = refreshByRoom \/ refreshByRoom'.status # "ok"
<1>1. CASE request[e].at # "idle"
  BY <1>1 DEF Refreshes
<1>2. CASE request[e].at = "idle"
  <2>1. [Idle EXCEPT !.at = "flag"].at = "flag" /\ NotOk("pending").status # "ok"
    BY DEF Idle, NotOk
  <2>2. request' = [request EXCEPT ![e] = [Idle EXCEPT !.at = "flag"]]
    BY <1>2 DEF Refreshes
  <2>3. refreshByRoom' = NotOk("pending")
    BY <1>2 DEF Refreshes
  <2> QED
    BY <2>1, <2>2, <2>3 DEF TypeOK
<1> QED
  BY <1>1, <1>2

\* The parts about requests survive a step that ends some of them or leaves them.
LEMMA RequestsFewer ==
  ASSUME VisitInv, UNCHANGED <<entry, entries, epochAtEntry>>, TypeOK,
         \A e \in Requester : request'[e] = request[e] \/ request'[e] = Idle
  PROVE  NewEntries' /\ AnswersOfVisit'
<1>1. Idle.at = "idle"
  BY DEF Idle
<1> QED
  BY <1>1 DEF VisitInv, NewEntries, AnswersOfVisit, TypeOK

LEMMA RequestsKept ==
  ASSUME VisitInv, UNCHANGED <<entry, entries, epochAtEntry, request>>
  PROVE  NewEntries' /\ AnswersOfVisit'
  BY DEF VisitInv, NewEntries, AnswersOfVisit

\* A refresh of the current entry, a retry or a reconnect.
LEMMA VisitRefreshes ==
  ASSUME TypeOK, VisitInv, Refreshes(entry), entry # 0,
         UNCHANGED <<entry, entries, epochAtEntry, everE2ee, mounted>>
  PROVE  VisitInv'
<1>1. /\ \A q \in Requester \ {entry} : request'[q] = request[q]
      /\ request'[entry] = request[entry] \/ request'[entry].at = "flag"
      /\ refreshByRoom' = refreshByRoom \/ refreshByRoom'.status # "ok"
  BY RefreshesLeaves DEF TypeOK
<1>2. NewEntries'
  <2>1. entry = entries
    BY DEF VisitInv, AnswersOfVisit
  <2>2. entries \in Nat
    BY Bounds DEF TypeOK
  <2> QED
    BY <1>1, <2>1, <2>2 DEF VisitInv, NewEntries, Requester
<1>3. AnswersOfVisit'
  BY <1>1 DEF VisitInv, AnswersOfVisit
<1>4. OutcomeOfVisit'
  BY <1>1, OutcomeKept DEF VisitInv
<1> QED
  BY <1>2, <1>3, <1>4 DEF VisitInv

LEMMA VisitStep == TypeOK /\ FlagInv /\ VisitInv /\ [Next]_vars => VisitInv'
<1> SUFFICES ASSUME TypeOK, FlagInv, VisitInv, [Next]_vars PROVE VisitInv'
  OBVIOUS
<1> USE DEF serverVars, storeVars, entryVars, flagVars, screenVars
<1>a. List \in Requester
  BY Bounds DEF Requester
<1>b. NewEntries /\ AnswersOfVisit /\ OutcomeOfVisit
  BY DEF VisitInv
<1>c. entries \in Nat /\ currentKeyId \in Nat /\ epochAtEntry \in Nat
      /\ epochAtEntry <= currentKeyId
  BY Bounds DEF TypeOK
<1>1. CASE UNCHANGED vars
  BY <1>1, <1>b, RequestsKept, OutcomeKept DEF vars, VisitInv
<1>2. CASE ClaimEpoch
  BY <1>2, <1>b, RequestsKept, OutcomeKept DEF ClaimEpoch, VisitInv
<1>3. CASE Enter
  <2>1. entries + 1 \in Requester /\ entries' = entries + 1 /\ entry' = entries + 1
    BY <1>3, Bounds DEF Enter, Requester, TypeOK
  <2>2. /\ \A q \in Requester \ {entries + 1} : request'[q] = request[q]
        /\ request'[entries + 1] = request[entries + 1]
             \/ request'[entries + 1].at = "flag"
    BY <1>3, <2>1, RefreshesLeaves DEF Enter
  <2>3. request[entries + 1].at = "idle"
    BY <2>1, <1>b, <1>c DEF NewEntries
  <2>4. NewEntries'
    <3> SUFFICES ASSUME NEW e \in Requester, e > entries + 1
                 PROVE  request'[e].at = "idle"
      BY <2>1 DEF NewEntries
    <3>1. e # entries + 1 /\ e > entries
      BY <1>c, Bounds DEF Requester
    <3> QED
      BY <3>1, <2>2, <1>b DEF NewEntries
  <2>5. AnswersOfVisit'
    BY <2>1, <2>2, <2>3 DEF AnswersOfVisit
  <2>6. refreshByRoom'.status = "pending"
    BY <1>3, <2>3 DEF Enter, Refreshes, NotOk
  <2> QED
    BY <2>4, <2>5, <2>6 DEF VisitInv, OutcomeOfVisit
<1>4. CASE Leave
  <2>1. mounted' = FALSE /\ entry' = 0 /\ entries' = entries /\ request' = request
    BY <1>4 DEF Leave
  <2> QED
    BY <2>1, <1>b DEF VisitInv, NewEntries, AnswersOfVisit, OutcomeOfVisit
<1>5. CASE SocketConnecting
  BY <1>5, <1>b, RequestsKept, OutcomeKept DEF SocketConnecting, VisitInv
<1>6. CASE SocketConnected
  <2>1. CASE entry = 0
    <3>1. 0 > entries <=> FALSE
      BY <1>c
    <3>2. ~mounted /\ ~mounted'
      BY <1>6, <2>1 DEF SocketConnected, TypeOK
    <3>3. \A q \in Requester \ {0} : request'[q] = request[q]
      BY <1>6, <2>1, <1>a, RefreshesLeaves DEF SocketConnected
    <3>4. NewEntries'
      BY <1>6, <3>1, <3>3, <1>b DEF SocketConnected, NewEntries
    <3>5. AnswersOfVisit'
      BY <1>6, <2>1, <1>b DEF SocketConnected, AnswersOfVisit
    <3> QED
      BY <3>2, <3>4, <3>5 DEF VisitInv, OutcomeOfVisit
  <2>2. CASE entry # 0
    BY <1>6, <2>2, VisitRefreshes DEF SocketConnected
  <2> QED
    BY <2>1, <2>2
<1>7. CASE SocketDown
  BY <1>7, <1>b, RequestsKept, OutcomeKept DEF SocketDown, VisitInv
<1>8. CASE EngineRebuilt
  BY <1>8, <1>b, RequestsKept, OutcomeKept DEF EngineRebuilt, VisitInv
<1>9. CASE EpochFrame
  <2>1. everE2ee' /\ UNCHANGED <<entry, entries, epochAtEntry, request>>
    BY <1>9 DEF EpochFrame, NoteRoomEpoch
  <2> QED
    BY <2>1, RequestsKept DEF VisitInv, OutcomeOfVisit
<1>10. CASE FetchRooms
  <2>1. \A e \in Requester \ {List} : request'[e] = request[e]
    BY <1>10 DEF FetchRooms, Begin, TypeOK
  <2>2. UNCHANGED <<entry, entries, epochAtEntry, everE2ee, mounted, refreshByRoom>>
    BY <1>10 DEF FetchRooms
  <2>3. NewEntries'
    BY <2>1, <2>2, <1>b, <1>c DEF NewEntries
  <2>4. AnswersOfVisit'
    BY <2>1, <2>2, <1>b DEF AnswersOfVisit, TypeOK
  <2> QED
    BY <2>2, <2>3, <2>4, <1>b, OutcomeKept DEF VisitInv
<1>11. CASE ListArrives
  <2>1. everE2ee => everE2ee'
    BY <1>11, <1>a, ApplyRemembers DEF ListArrives
  <2>2. \A e \in Requester : request'[e] = request[e] \/ request'[e] = Idle
    BY <1>11, <1>a, EndsLeaves DEF ListArrives
  <2>3. UNCHANGED <<entry, entries, epochAtEntry, mounted, refreshByRoom>>
    BY <1>11 DEF ListArrives
  <2> QED
    BY <2>1, <2>2, <2>3, <1>b, RequestsFewer, OutcomeKept DEF VisitInv
<1>12. CASE ListFails
  <2>1. \A e \in Requester : request'[e] = request[e] \/ request'[e] = Idle
    BY <1>12, <1>a, EndsLeaves DEF ListFails
  <2>2. UNCHANGED <<entry, entries, epochAtEntry, mounted, refreshByRoom, everE2ee>>
    BY <1>12 DEF ListFails
  <2> QED
    BY <2>1, <2>2, <1>b, RequestsFewer, OutcomeKept DEF VisitInv
<1>13. CASE ListBreaksOff
  <2>1. \A e \in Requester : request'[e] = request[e] \/ request'[e] = Idle
    BY <1>13, <1>a, EndsLeaves DEF ListBreaksOff
  <2>2. UNCHANGED <<entry, entries, epochAtEntry, mounted, refreshByRoom, everE2ee>>
    BY <1>13 DEF ListBreaksOff
  <2> QED
    BY <2>1, <2>2, <1>b, RequestsFewer, OutcomeKept DEF VisitInv
<1>14. ASSUME NEW q \in Requester, Served(q) PROVE VisitInv'
  <2>1. /\ \A e \in Requester \ {q} : request'[e] = request[e]
        /\ request[q].at = "sent" /\ request'[q].keyId = currentKeyId
    BY <1>14 DEF Served, TypeOK, Request
  <2>2. UNCHANGED <<entry, entries, epochAtEntry, mounted, refreshByRoom, everE2ee>>
    BY <1>14 DEF Served
  <2>3. NewEntries'
    BY <2>1, <2>2, <1>b DEF NewEntries
  <2>4. AnswersOfVisit'
    BY <2>1, <2>2, <1>b, <1>c DEF AnswersOfVisit, TypeOK
  <2> QED
    BY <2>2, <2>3, <2>4, <1>b, OutcomeKept DEF VisitInv
<1>15. ASSUME NEW e \in Requester \ {List}, ReadFlag(e) PROVE VisitInv'
  <2>1. /\ \A q \in Requester \ {e} : request'[q] = request[q]
        /\ request[e].at = "flag" /\ request'[e].at = "sent"
    BY <1>15 DEF ReadFlag, Begin, TypeOK
  <2>2. UNCHANGED <<entry, entries, epochAtEntry, mounted, refreshByRoom>>
        /\ (everE2ee => everE2ee')
    BY <1>15 DEF ReadFlag
  <2>3. NewEntries'
    BY <2>1, <2>2, <1>b DEF NewEntries
  <2>4. AnswersOfVisit'
    BY <2>1, <2>2, <1>b DEF AnswersOfVisit, TypeOK
  <2> QED
    BY <2>2, <2>3, <2>4, <1>b, OutcomeKept DEF VisitInv
<1>16. ASSUME NEW e \in Requester \ {List}, RefreshArrives(e) PROVE VisitInv'
  <2>1. everE2ee => everE2ee'
    BY <1>16, ApplyRemembers DEF RefreshArrives
  <2>2. \A q \in Requester : request'[q] = request[q] \/ request'[q] = Idle
    BY <1>16, EndsLeaves DEF RefreshArrives
  <2>3. UNCHANGED <<entry, entries, epochAtEntry, mounted>>
    BY <1>16 DEF RefreshArrives
  <2>4. NewEntries' /\ AnswersOfVisit'
    BY <2>2, <2>3, RequestsFewer
  <2>5. CASE IsCurrent(e)
    <3>1. refreshByRoom'.keyId = request[e].keyId /\ request[e].at = "served"
      BY <1>16, <2>5 DEF RefreshArrives, Ok
    <3>2. request[e].keyId >= epochAtEntry
      BY <3>1, <2>5, <1>b DEF IsCurrent, AnswersOfVisit
    <3>3. request[e].keyId \in Nat
      BY Bounds DEF TypeOK, Request
    <3>4. epochAtEntry' > 0 => refreshByRoom'.keyId > 0
      BY <3>1, <3>2, <3>3, <2>3, <1>c
    <3> QED
      BY <3>4, <2>4 DEF VisitInv, OutcomeOfVisit
  <2>6. CASE ~IsCurrent(e)
    <3>1. refreshByRoom' = refreshByRoom
      BY <1>16, <2>6 DEF RefreshArrives
    <3> QED
      BY <3>1, <2>1, <2>3, <2>4, <1>b, OutcomeKept DEF VisitInv
  <2> QED
    BY <2>5, <2>6
<1>17. ASSUME NEW e \in Requester \ {List}, RefreshFails(e) PROVE VisitInv'
  <2>1. \A q \in Requester : request'[q] = request[q] \/ request'[q] = Idle
    BY <1>17, EndsLeaves DEF RefreshFails
  <2>2. UNCHANGED <<entry, entries, epochAtEntry, mounted, everE2ee>>
    BY <1>17 DEF RefreshFails
  <2>3. refreshByRoom' = refreshByRoom \/ refreshByRoom'.status # "ok"
    BY <1>17 DEF RefreshFails, NotOk
  <2> QED
    BY <2>1, <2>2, <2>3, <1>b, RequestsFewer, OutcomeKept DEF VisitInv
<1>18. CASE RetryTimeout
  <2>1. CASE entry = 0
    <3>1. 0 > entries <=> FALSE
      BY <1>c
    <3>2. ~mounted /\ ~mounted'
      BY <1>18, <2>1 DEF RetryTimeout, TypeOK
    <3>3. \A q \in Requester \ {0} : request'[q] = request[q]
      BY <1>18, <2>1, <1>a, RefreshesLeaves DEF RetryTimeout
    <3>4. NewEntries'
      BY <1>18, <3>1, <3>3, <1>b DEF RetryTimeout, NewEntries
    <3>5. AnswersOfVisit'
      BY <1>18, <2>1, <1>b DEF RetryTimeout, AnswersOfVisit
    <3> QED
      BY <3>2, <3>4, <3>5 DEF VisitInv, OutcomeOfVisit
  <2>2. CASE entry # 0
    BY <1>18, <2>2, VisitRefreshes DEF RetryTimeout
  <2> QED
    BY <2>1, <2>2
<1>19. CASE MarkLands
  BY <1>19, <1>b, RequestsKept, OutcomeKept DEF MarkLands, VisitInv
<1>20. CASE MarkFails
  BY <1>20, <1>b, RequestsKept, OutcomeKept DEF MarkFails, VisitInv
<1>21. CASE Restart
  <2>1. /\ mounted' = FALSE /\ entry' = 0 /\ entries' = entries
        /\ \A e \in Requester : request'[e].at = "idle"
    BY <1>21 DEF Restart, Idle
  <2> QED
    BY <2>1 DEF VisitInv, NewEntries, AnswersOfVisit, OutcomeOfVisit
<1> QED
  BY <1>1, <1>2, <1>3, <1>4, <1>5, <1>6, <1>7, <1>8, <1>9, <1>10, <1>11, <1>12, <1>13,
     <1>14, <1>15, <1>16, <1>17, <1>18, <1>19, <1>20, <1>21 DEF Next

LEMMA VisitConfirms == VisitInv => EntryIsConfirmed
  BY DEF VisitInv, OutcomeOfVisit, EntryIsConfirmed, E2eeState

(***************************************************************************)
(* A room that was encrypted before the user opened it never reads as      *)
(* plaintext on the server's word: the answer that decides a visit is one  *)
(* the server gave during the visit.                                       *)
(***************************************************************************)
THEOREM VisitIsConfirmed == Spec => []EntryIsConfirmed
  BY TypeInit, TypeStep, FlagInit, FlagStep, VisitInit, VisitStep, VisitConfirms, PTL DEF Spec

-----------------------------------------------------------------------------
(* ChatView.                                                                *)

\* The scrolls there are.
How == {"jump", "animate"}

\* The types of what the screen and the list keep.
ViewTypes ==
  /\ keyboard \in BOOLEAN /\ kept \in Nat /\ above \in {"nothing", "gate", "row"}
  /\ prevCount \in Nat /\ rows \in Nat /\ padding \in Nat /\ lastComposerHeight \in Nat
  /\ offset \in Int /\ target \in Int
  /\ atEnd \in BOOLEAN /\ dragged \in BOOLEAN /\ unfollowed \in BOOLEAN /\ snapped \in BOOLEAN
  /\ scrolls \in SUBSET How /\ pendingEnd \in SUBSET How

\* A reader who dragged the list away is not taken to be at its end, and the
\* only scroll still pending is a jump that was asked for already.
Away == dragged => ~atEnd /\ pendingEnd \subseteq scrolls \cap {"jump"}

\* Rows that are still to be laid out have a scroll that waits for them, and
\* a padding that is still to be laid out is followed by one.
RowsCome    == ~unfollowed /\ rows < prevCount => scrolls # {}
PaddingComes == snapped /\ ~unfollowed /\ padding # lastComposerHeight => pendingEnd # {}

\* A screen that wrongly takes the reader to be at the end is about to scroll.
Shows == snapped /\ atEnd /\ ~unfollowed /\ ~AtEnd => scrolls # {} \/ target # NoTarget

\* The inductive invariant.
ViewInv == ViewTypes /\ Away /\ RowsCome /\ PaddingComes /\ Shows

\* Heights are whole points.
LEMMA Points ==
  /\ RowHeight \in Nat /\ ViewHeight \in Nat /\ KeyboardHeight \in Nat
  /\ PillHeight \in Nat /\ CardHeight \in Nat /\ BannerHeight \in Nat /\ RowAboveHeight \in Nat
  BY ChatViewAssumption

\* The composer stack has a height.
LEMMA StackIsHigh == above \in {"nothing", "gate", "row"} => StackHeight \in Nat
  BY Points DEF StackHeight

\* More rows are higher.
LEMMA RowsAreHigh ==
  ASSUME NEW n \in Nat
  PROVE  /\ n * RowHeight \in Nat
         /\ \A m \in Nat : m <= n => m * RowHeight <= n * RowHeight
<1>1. n * RowHeight \in Nat
  BY Points
<1>2. ASSUME NEW m \in Nat, m <= n
      PROVE  m * RowHeight <= n * RowHeight
  BY <1>2, Points
<1> QED BY <1>1, <1>2

\* Content with more rows is no shorter, and its end is not above its start.
LEMMA ContentGrows ==
  ASSUME NEW m \in Nat, NEW n \in Nat, NEW pad \in Nat
  PROVE  /\ ContentHeight(n, pad) \in Nat
         /\ ContentHeight(n, pad) >= ViewHeight
         /\ m <= n => ContentHeight(m, pad) <= ContentHeight(n, pad)
<1> DEFINE a == m * RowHeight
           b == n * RowHeight
<1>1. a \in Nat /\ b \in Nat /\ (m <= n => a <= b) /\ ViewHeight \in Nat
  BY RowsAreHigh, Points
<1>2. ContentHeight(n, pad) = Greatest(b, ViewHeight) + pad /\ ContentHeight(m, pad) = Greatest(a, ViewHeight) + pad
  BY DEF ContentHeight
<1> HIDE DEF a, b
<1> QED BY <1>1, <1>2 DEF Greatest

\* The keyboard takes no less than nothing.
LEMMA InsetNat == \A up : Inset(up) \in Nat
  BY Points DEF Inset

\* The end of the list is at its end.
LEMMA EndIsEnd ==
  ASSUME NEW n \in Nat, NEW pad \in Nat, NEW up
  PROVE  /\ EndOffset(n, pad, up) \in Nat
         /\ IsAtListEnd(EndOffset(n, pad, up), n, pad, up)
<1>1. ContentHeight(n, pad) \in Nat /\ ContentHeight(n, pad) >= ViewHeight /\ Inset(up) \in Nat /\ ViewHeight \in Nat
  BY ContentGrows, InsetNat, Points
<1> QED BY <1>1 DEF EndOffset, IsAtListEnd, AT_END_THRESHOLD

\* Fewer rows leave a reader at the end there.
LEMMA FewerRows ==
  ASSUME NEW m \in Nat, NEW n \in Nat, m <= n, NEW pad \in Nat, NEW up, NEW off \in Int,
         IsAtListEnd(off, n, pad, up)
  PROVE  IsAtListEnd(off, m, pad, up)
<1>1. /\ ContentHeight(n, pad) \in Nat /\ ContentHeight(m, pad) \in Nat
      /\ ContentHeight(m, pad) <= ContentHeight(n, pad) /\ Inset(up) \in Nat /\ ViewHeight \in Nat
  BY ContentGrows, InsetNat, Points
<1> QED BY <1>1 DEF IsAtListEnd, AT_END_THRESHOLD

\* The screen starts in the invariant, and every step keeps it.
LEMMA ViewStart == ViewInit => ViewInv
<1> SUFFICES ASSUME ViewInit PROVE ViewInv
  OBVIOUS
<1>1. kept \in Nat
  <2>1. MaxMessages \in Nat /\ kept \in 0 .. MaxMessages
    BY ChatViewAssumption DEF ViewInit
  <2> QED BY <2>1
<1>2. above \in {"nothing", "gate", "row"}
  BY DEF ViewInit
<1>3. target \in Int /\ scrolls \in SUBSET How /\ pendingEnd \in SUBSET How
  BY DEF ViewInit, NoTarget
<1>4. /\ keyboard = FALSE /\ prevCount = 0 /\ lastComposerHeight = 0 /\ snapped = FALSE /\ atEnd = FALSE
      /\ rows = 0 /\ padding = 0 /\ offset = 0 /\ dragged = FALSE /\ unfollowed = FALSE
  BY DEF ViewInit
<1>5. /\ keyboard \in BOOLEAN /\ snapped \in BOOLEAN /\ atEnd \in BOOLEAN
      /\ dragged \in BOOLEAN /\ unfollowed \in BOOLEAN
  BY <1>4
<1>6. prevCount \in Nat /\ lastComposerHeight \in Nat /\ rows \in Nat /\ padding \in Nat /\ offset \in Int
  BY <1>4
<1>7. ViewTypes
  BY <1>1, <1>2, <1>3, <1>5, <1>6 DEF ViewTypes
<1> QED BY <1>4, <1>7 DEF ViewInv, Away, RowsCome, PaddingComes, Shows

\* A step of the composer or of the store, which the list has not heard of.
LEMMA Unheard ==
  ASSUME ViewInv, Focus \/ Edit \/ Around \/ Load \/ Rebuild \/ Arrive \/ Withdraw \/ Send
  PROVE  ViewInv'
<1>1. /\ UNCHANGED <<keyboard, prevCount, rows, padding, lastComposerHeight, offset, target, atEnd, unfollowed,
                     snapped, scrolls, pendingEnd>>
      /\ dragged' = dragged \/ dragged' = FALSE
  BY DEF Focus, Edit, Around, Load, Rebuild, Arrive, Withdraw, Send, stackVars, roomVars, refVars, nativeVars,
         boundVars, historyVars
<1>2. kept' \in Nat
  BY DEF ViewInv, ViewTypes, Focus, Edit, Around, Load, Rebuild, Arrive, Withdraw, Send, roomVars
<1>3. above' \in {"nothing", "gate", "row"}
  BY DEF ViewInv, ViewTypes, Focus, Edit, Around, Load, Rebuild, Arrive, Withdraw, Send, stackVars
<1>4. AtEnd' = AtEnd
  BY <1>1 DEF AtEnd
<1>5. ViewTypes'
  BY <1>1, <1>2, <1>3 DEF ViewInv, ViewTypes
<1> QED BY <1>1, <1>4, <1>5 DEF ViewInv, Away, RowsCome, PaddingComes, Shows

\* The list's own events: the screen hears at once where the reader is.
LEMMA Heard ==
  ASSUME ViewInv, Hear(offset', rows, padding, keyboard'), offset' \in Int, target' \in Int,
         keyboard' \in BOOLEAN,
         dragged' => pendingEnd \subseteq scrolls' \cap {"jump"},
         scrolls' \in SUBSET How, scrolls # {} => scrolls' # {} \/ rows = prevCount,
         UNCHANGED <<kept, above, prevCount, rows, padding, lastComposerHeight, unfollowed, snapped, pendingEnd>>
  PROVE  ViewInv'
<1>1. atEnd' = AtEnd'
  BY DEF Hear, AtEnd
<1>2. atEnd' \in BOOLEAN /\ dragged' \in BOOLEAN
  BY DEF Hear, IsAtListEnd, ViewInv, ViewTypes
<1>3. ViewTypes'
  BY <1>2 DEF ViewInv, ViewTypes
<1>4. Away'
  BY <1>2 DEF Hear, Away
<1>5. RowsCome' /\ PaddingComes'
  BY DEF ViewInv, ViewTypes, RowsCome, PaddingComes
<1>6. Shows'
  BY <1>1 DEF Shows
<1> QED BY <1>3, <1>4, <1>5, <1>6 DEF ViewInv

\* The keyboard lifts what is shown, or lets it down.
LEMMA LiftStep ==
  ASSUME ViewInv, KeyboardShows \/ KeyboardHides
  PROVE  ViewInv'
<1>1. /\ UNCHANGED <<kept, above, prevCount, rows, padding, lastComposerHeight, unfollowed, snapped, pendingEnd, scrolls>>
      /\ keyboard' \in BOOLEAN /\ target' = NoTarget /\ Hear(offset', rows, padding, keyboard')
      /\ offset' \in {offset + KeyboardHeight, Greatest(0, offset - KeyboardHeight)}
  BY DEF KeyboardShows, KeyboardHides, Lift, roomVars
<1>2. offset' \in Int /\ target' \in Int
  BY <1>1, Points DEF ViewInv, ViewTypes, Greatest, NoTarget
<1>3. dragged' => dragged
  BY <1>1 DEF Hear
<1> QED BY <1>1, <1>2, <1>3, Heard DEF ViewInv, ViewTypes, Away

\* Someone who has been sent to the end is heard to be there.
LEMMA AnimateStep ==
  ASSUME ViewInv, Animate
  PROVE  ViewInv'
<1>1. /\ UNCHANGED <<keyboard, kept, above, prevCount, rows, padding, lastComposerHeight, unfollowed, snapped,
                     pendingEnd, scrolls>>
      /\ Hear(offset', rows, padding, keyboard')
      /\ offset' \in {target, offset} /\ target' \in {target, NoTarget}
  BY DEF Animate, ScrollsTo, stackVars, roomVars
<1>2. offset' \in Int /\ target' \in Int /\ keyboard' \in BOOLEAN
  BY <1>1 DEF ViewInv, ViewTypes, NoTarget
<1>3. dragged' => dragged
  BY <1>1 DEF Hear
<1> QED BY <1>1, <1>2, <1>3, Heard DEF ViewInv, ViewTypes, Away

\* A drag drops the pending scroll and is heard of.
LEMMA DragStep ==
  ASSUME ViewInv, Drag
  PROVE  ViewInv'
<1>1. PICK off \in {Greatest(0, EndOffset(rows, padding, keyboard) - AT_END_THRESHOLD - 1),
                    EndOffset(rows, padding, keyboard)} :
        /\ offset' = off /\ atEnd' = IsAtListEnd(off, rows, padding, keyboard) /\ dragged' = ~atEnd'
  BY DEF Drag
<1>2. /\ UNCHANGED <<keyboard, kept, above, prevCount, rows, padding, lastComposerHeight, snapped, scrolls>>
      /\ pendingEnd' = {} /\ target' = NoTarget
      /\ unfollowed' = (unfollowed \/ (pendingEnd # {} /\ padding # lastComposerHeight))
  BY DEF Drag, AfterDrag, stackVars, roomVars
<1>3. offset' \in Int /\ target' \in Int
  BY <1>1, <1>2, EndIsEnd DEF ViewInv, ViewTypes, Greatest, NoTarget, AT_END_THRESHOLD
<1>4. atEnd' = AtEnd' /\ atEnd' \in BOOLEAN /\ dragged' \in BOOLEAN /\ unfollowed' \in BOOLEAN
  BY <1>1, <1>2 DEF AtEnd, IsAtListEnd
<1>5. ViewTypes'
  BY <1>2, <1>3, <1>4 DEF ViewInv, ViewTypes
<1>6. Away'
  BY <1>1, <1>2 DEF Away
<1>7. RowsCome' /\ PaddingComes'
  BY <1>2 DEF ViewInv, RowsCome, PaddingComes
<1>8. Shows'
  BY <1>4 DEF Shows
<1> QED BY <1>5, <1>6, <1>7, <1>8 DEF ViewInv

\* The list has loaded: it is sent to its end.
LEMMA ListLoadStep ==
  ASSUME ViewInv, ListLoad
  PROVE  ViewInv'
<1>1. /\ UNCHANGED <<keyboard, kept, above, prevCount, rows, padding, lastComposerHeight, offset, target, atEnd,
                     dragged, unfollowed, snapped, pendingEnd>>
      /\ scrolls' = scrolls \cup {"jump"}
  BY DEF ListLoad, stackVars, roomVars, historyVars
<1>2. ViewTypes'
  BY <1>1 DEF ViewInv, ViewTypes, How
<1> QED BY <1>1, <1>2 DEF ViewInv, Away, RowsCome, PaddingComes, Shows

\* A scroll runs once the rows it was asked for are laid out.
LEMMA RunScrollStep ==
  ASSUME ViewInv, NEW how \in How, RunScroll(how)
  PROVE  ViewInv'
<1> DEFINE end == EndOffset(rows, padding, keyboard)
<1>1. /\ UNCHANGED <<keyboard, kept, above, prevCount, rows, padding, lastComposerHeight, unfollowed, snapped, pendingEnd>>
      /\ rows = prevCount /\ scrolls' = scrolls \ {how}
  BY DEF RunScroll, stackVars, roomVars
<1>2. end \in Nat /\ IsAtListEnd(end, rows, padding, keyboard)
  BY EndIsEnd DEF ViewInv, ViewTypes
<1>3. keyboard' \in BOOLEAN /\ scrolls' \in SUBSET How
  BY <1>1 DEF ViewInv, ViewTypes
<1> HIDE DEF end
<1>4. CASE how = "jump"
  <2>1. offset' = end /\ target' = NoTarget /\ Hear(end, rows, padding, keyboard)
    BY <1>4 DEF RunScroll, ScrollsTo, end
  <2>2. ~dragged'
    BY <2>1, <1>2 DEF Hear
  <2> QED BY <1>1, <1>2, <1>3, <2>1, <2>2, Heard DEF NoTarget
<1>5. CASE how = "animate"
  <2>1. target' = end /\ UNCHANGED <<offset, atEnd, dragged>>
    BY <1>5 DEF RunScroll, end
  <2>2. ViewTypes'
    BY <1>1, <1>2, <1>3, <2>1 DEF ViewInv, ViewTypes
  <2>3. Away'
    BY <1>1, <1>5, <2>1 DEF ViewInv, Away
  <2>4. target' # NoTarget
    BY <1>2, <2>1 DEF NoTarget
  <2> QED BY <1>1, <2>1, <2>2, <2>3, <2>4 DEF ViewInv, ViewTypes, RowsCome, PaddingComes, Shows
<1> QED BY <1>4, <1>5 DEF How

\* The stack's new height: judged while the reader is at the end or not.
LEMMA LaidOutStep ==
  ASSUME ViewInv, NEW height \in Nat, height # lastComposerHeight, LaidOut(height)
  PROVE  ViewInv'
<1> DEFINE action == ComposerResizeScroll(lastComposerHeight, height)
           how    == IF action = "animate" THEN {"animate"} ELSE {"jump"}
<1>1. /\ UNCHANGED <<keyboard, kept, above, prevCount, rows, padding, offset, target, atEnd, dragged>>
      /\ lastComposerHeight' = height
      /\ snapped' = (snapped \/ action = "snap")
      /\ unfollowed' = (unfollowed \/ (action = "none" /\ snapped))
      /\ IF action = "none" THEN UNCHANGED <<pendingEnd, scrolls>>
                            ELSE pendingEnd' = how /\ scrolls' = scrolls \cup how
  BY DEF LaidOut, stackVars, roomVars, nativeVars
<1>2. /\ action \in {"none", "snap", "animate"}
      /\ action = "snap" => ~snapped
      /\ action = "animate" => snapped /\ atEnd
  BY DEF ComposerResizeScroll
<1>3. how \in SUBSET How /\ how # {}
  BY DEF How
<1>4. AtEnd' = AtEnd
  BY <1>1 DEF AtEnd
<1> HIDE DEF action
<1>5. CASE action = "none"
  BY <1>1, <1>4, <1>5 DEF ViewInv, ViewTypes, Away, RowsCome, PaddingComes, Shows
<1>6. CASE action # "none"
  <2>1. pendingEnd' = how /\ scrolls' = scrolls \cup how
    BY <1>1, <1>6
  <2>2. ViewTypes'
    BY <1>1, <1>3, <2>1 DEF ViewInv, ViewTypes
  <2>3. Away'
    BY <1>1, <1>2, <1>6, <2>1 DEF ViewInv, Away
  <2> HIDE DEF how
  <2> QED BY <1>1, <1>3, <2>1, <2>2, <2>3 DEF ViewInv, RowsCome, PaddingComes, Shows
<1> QED BY <1>5, <1>6

\* The stack is laid out at its height, or at less while it settles.
LEMMA ComposerLayoutStep ==
  ASSUME ViewInv, ComposerLayout
  PROVE  ViewInv'
<1>1. StackHeight \in Nat
  BY StackIsHigh DEF ViewInv, ViewTypes
<1>2. CASE lastComposerHeight # StackHeight /\ LaidOut(StackHeight)
  BY <1>1, <1>2, LaidOutStep
<1>3. CASE lastComposerHeight = 0 /\ LaidOut(UnsettledHeight)
  BY <1>3, LaidOutStep DEF UnsettledHeight
<1> QED BY <1>2, <1>3 DEF ComposerLayout

\* A message that comes or goes: a scroll is asked for, or it is unfollowed.
LEMMA RenderedStep ==
  ASSUME ViewInv, Rendered
  PROVE  ViewInv'
<1>1. /\ UNCHANGED <<keyboard, kept, above, rows, padding, lastComposerHeight, offset, target, atEnd, dragged,
                     snapped, pendingEnd>>
      /\ prevCount' = Count
      /\ \/ scrolls' = scrolls \cup {"animate"} /\ unfollowed' = unfollowed
         \/ unfollowed' = (unfollowed \/ Count > prevCount) /\ scrolls' = scrolls
  BY DEF Rendered, stackVars, roomVars, nativeVars
<1>2. Count \in Nat
  BY DEF Count, ViewInv, ViewTypes
<1>3. AtEnd' = AtEnd
  BY <1>1 DEF AtEnd
<1>4. ViewTypes'
  BY <1>1, <1>2 DEF ViewInv, ViewTypes, How
<1>5. Away' /\ PaddingComes' /\ Shows'
  BY <1>1, <1>3 DEF ViewInv, ViewTypes, Away, PaddingComes, Shows
<1>6. RowsCome'
  <2> SUFFICES ASSUME ~unfollowed', rows' < prevCount'
               PROVE  scrolls' # {}
    BY DEF RowsCome
  <2>1. CASE scrolls' = scrolls \cup {"animate"}
    BY <2>1
  <2>2. CASE unfollowed' = (unfollowed \/ Count > prevCount) /\ scrolls' = scrolls
    <3>1. ~unfollowed /\ ~(Count > prevCount)
      BY <2>2
    <3>2. rows < Count /\ rows \in Nat /\ prevCount \in Nat
      BY <1>1 DEF ViewInv, ViewTypes
    <3>3. rows < prevCount
      BY <1>2, <3>1, <3>2
    <3> QED BY <2>2, <3>1, <3>3 DEF ViewInv, RowsCome
  <2> QED BY <1>1, <2>1, <2>2
<1> QED BY <1>4, <1>5, <1>6 DEF ViewInv

\* Rows and padding are laid out: a scroll is under way, or nothing moved the
\* end away from the reader.
LEMMA LayOutStep ==
  ASSUME ViewInv, LayOut
  PROVE  ViewInv'
<1> DEFINE same == ContentHeight(rows', padding') = ContentHeight(rows, padding)
           end  == EndOffset(rows', padding', keyboard)
           pulled == offset' = end /\ Hear(end, rows', padding', keyboard)
<1>1. /\ UNCHANGED <<keyboard, kept, above, prevCount, lastComposerHeight, target, snapped>>
      /\ rows' = prevCount /\ padding' = lastComposerHeight
      /\ unfollowed' = (unfollowed /\ atEnd')
  BY DEF LayOut, stackVars, roomVars
<1>2. \/ same /\ UNCHANGED <<offset, atEnd, pendingEnd, scrolls, dragged>>
      \/ /\ scrolls' = scrolls \cup pendingEnd /\ pendingEnd' = {}
         /\ UNCHANGED <<offset, atEnd, dragged>> \/ pulled
  BY DEF LayOut, Repeated
<1>3. rows' \in Nat /\ padding' \in Nat /\ end \in Int
  BY <1>1, EndIsEnd DEF ViewInv, ViewTypes
<1>4. pulled => atEnd' = AtEnd'
  BY <1>1 DEF Hear, AtEnd
<1>5. ViewTypes'
  <2>1. offset' \in Int /\ atEnd' \in BOOLEAN /\ dragged' \in BOOLEAN
    <3>1. CASE pulled
      BY <1>3, <3>1 DEF Hear, IsAtListEnd
    <3>2. CASE UNCHANGED <<offset, atEnd, dragged>>
      BY <3>2 DEF ViewInv, ViewTypes
    <3> QED BY <1>2, <3>1, <3>2
  <2>2. scrolls' \in SUBSET How /\ pendingEnd' \in SUBSET How
    BY <1>2 DEF ViewInv, ViewTypes
  <2>3. unfollowed' \in BOOLEAN
    BY <1>1, <2>1 DEF ViewInv, ViewTypes
  <2> QED BY <1>1, <1>3, <2>1, <2>2, <2>3 DEF ViewInv, ViewTypes
<1>6. Away'
  <2>1. dragged' => dragged /\ ~atEnd'
    BY <1>2 DEF ViewInv, Away, Hear
  <2> QED BY <1>2, <2>1 DEF ViewInv, Away
<1>7. RowsCome' /\ PaddingComes'
  BY <1>1, <1>3 DEF RowsCome, PaddingComes
<1>8. Shows'
  <2> SUFFICES ASSUME snapped', atEnd', ~unfollowed', ~AtEnd', scrolls' = {}
               PROVE  target' # NoTarget
    BY DEF Shows
  <2>1. snapped /\ ~unfollowed /\ UNCHANGED <<offset, atEnd>> /\ atEnd /\ scrolls = {}
    BY <1>1, <1>2, <1>4
  <2>2. AtEnd => AtEnd'
    <3>1. CASE same
      BY <1>1, <2>1, <3>1 DEF AtEnd, IsAtListEnd
    <3>2. CASE pendingEnd = {}
      <4>1. padding = lastComposerHeight /\ ~(rows < prevCount)
        BY <2>1, <3>2 DEF ViewInv, PaddingComes, RowsCome
      <4>2. padding' = padding /\ rows' <= rows /\ rows \in Nat /\ padding \in Nat /\ offset \in Int
        BY <1>1, <1>3, <4>1 DEF ViewInv, ViewTypes
      <4> QED BY <1>1, <1>3, <2>1, <4>2, FewerRows DEF AtEnd
    <3> QED BY <1>2, <2>1, <3>1, <3>2
  <2> QED BY <1>1, <2>1, <2>2 DEF ViewInv, Shows
<1> QED BY <1>5, <1>6, <1>7, <1>8 DEF ViewInv

\* Every step of the screen keeps the invariant.
LEMMA ViewStep == ViewInv /\ [ViewNext]_viewVars => ViewInv'
<1> SUFFICES ASSUME ViewInv, [ViewNext]_viewVars
             PROVE  ViewInv'
  OBVIOUS
<1>1. CASE Focus \/ Edit \/ Around \/ Load \/ Rebuild \/ Arrive \/ Withdraw \/ Send
  BY <1>1, Unheard
<1>2. CASE KeyboardShows \/ KeyboardHides
  BY <1>2, LiftStep
<1>3. CASE ComposerLayout
  BY <1>3, ComposerLayoutStep
<1>4. CASE Rendered
  BY <1>4, RenderedStep
<1>5. CASE LayOut
  BY <1>5, LayOutStep
<1>6. CASE ListLoad
  BY <1>6, ListLoadStep
<1>7. CASE \E how \in {"jump", "animate"} : RunScroll(how)
  BY <1>7, RunScrollStep DEF How
<1>8. CASE Animate
  BY <1>8, AnimateStep
<1>9. CASE Drag
  BY <1>9, DragStep
<1>10. CASE UNCHANGED viewVars
  BY <1>10 DEF viewVars, stackVars, roomVars, refVars, nativeVars, historyVars, boundVars, ViewInv, ViewTypes,
       Away, RowsCome, PaddingComes, Shows, AtEnd
<1> QED BY <1>1, <1>2, <1>3, <1>4, <1>5, <1>6, <1>7, <1>8, <1>9, <1>10 DEF ViewNext

LEMMA ViewHolds == ViewSpec => []ViewInv
  BY ViewStart, ViewStep, PTL DEF ViewSpec

\* Once nothing is under way, a screen that takes the reader to be at the end
\* shows the end, whatever the heights and however often resizes, messages,
\* the keyboard, drags and rebuilds interleave ([roomId].tsx:163-300).
THEOREM EndShows == ViewSpec => []EndIsShown
<1>1. ViewInv => EndIsShown
  BY DEF ViewInv, Shows, EndIsShown, Quiet
<1> QED BY <1>1, ViewHolds, PTL

\* One step of it asks for no new scroll of a reader who is away.
LEMMA DraggedStays ==
  ASSUME ViewInv, [ViewNext]_viewVars
  PROVE  dragged /\ dragged' /\ ~AtEnd /\ ~sentByMe /\ snapped /\ listLoaded => scrolls' \subseteq scrolls
<1> SUFFICES ASSUME dragged, ~sentByMe, snapped, listLoaded
             PROVE  scrolls' \subseteq scrolls
  OBVIOUS
<1>1. ~atEnd /\ pendingEnd \subseteq scrolls
  BY DEF ViewInv, Away
<1>2. CASE ComposerLayout
  <2>1. PICK height \in {StackHeight, UnsettledHeight} : LaidOut(height)
    BY <1>2 DEF ComposerLayout
  <2>2. ComposerResizeScroll(lastComposerHeight, height) = "none"
    BY <1>1 DEF ComposerResizeScroll
  <2> QED BY <2>1, <2>2 DEF LaidOut
<1>3. CASE Rendered
  BY <1>1, <1>3 DEF Rendered, ShouldFollowNewMessages
<1>4. CASE LayOut
  BY <1>1, <1>4 DEF LayOut, Repeated
<1>5. CASE ListLoad
  BY <1>5 DEF ListLoad
<1>6. CASE \E how \in {"jump", "animate"} : RunScroll(how)
  BY <1>6 DEF RunScroll
<1>7. CASE Focus \/ Edit \/ Around \/ KeyboardShows \/ KeyboardHides
  BY <1>7 DEF Focus, Edit, Around, KeyboardShows, KeyboardHides, refVars
<1>8. CASE Load \/ Rebuild \/ Arrive \/ Withdraw \/ Send \/ Animate \/ Drag
  BY <1>8 DEF Load, Rebuild, Arrive, Withdraw, Send, Animate, Drag, refVars
<1>9. CASE UNCHANGED viewVars
  BY <1>9 DEF viewVars, refVars
<1> QED BY <1>2, <1>3, <1>4, <1>5, <1>6, <1>7, <1>8, <1>9 DEF ViewNext

\* A reader who dragged the list away from its end, and sent nothing since, is
\* not sent back to it by messages, resizes or layouts ([roomId].tsx:174-281).
THEOREM ReaderNotYanked == ViewSpec => NeverYanked
<1>1. ViewInv /\ ViewInv' /\ [ViewNext]_viewVars
      => [dragged /\ dragged' /\ ~AtEnd /\ ~sentByMe /\ snapped /\ listLoaded => scrolls' \subseteq scrolls]_viewVars
  BY DraggedStays
<1> QED BY <1>1, ViewHolds, PTL DEF ViewSpec, NeverYanked
=============================================================================

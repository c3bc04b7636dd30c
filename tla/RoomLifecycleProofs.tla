------------------------ MODULE RoomLifecycleProofs -------------------------
(***************************************************************************)
(* What holds of RoomLifecycle for every number of connections, copies,    *)
(* updates, epochs and failures.                                           *)
(***************************************************************************)
EXTENDS RoomLifecycle, TLAPS, SequenceTheorems, FiniteSetTheorems

LEMMA JoinAllType ==
  ASSUME TypeOK, NEW S \in SUBSET Socket, NEW r \in Copy, JoinAll(S, r)
  PROVE  /\ phase' \in [Socket -> {"new", "checking", "waiting", "joined", "refused"}]
         /\ joined' \in [Socket -> Copy \cup {0}]
         /\ \A s \in Socket : phase'[s] \in {"waiting", "joined"} => joined'[s] # 0
         /\ clientRoom' \subseteq Socket
         /\ clients' \in [Copy -> SUBSET Socket]
         /\ wsConnections' \in Int
<1>1. Cardinality(S) \in Int
  BY LifecycleAssumption, FS_Subset, FS_CardinalityType
<1>2. r # 0
  BY DEF Copy
<1>3. clients' \in [Copy -> SUBSET Socket]
  BY DEF TypeOK, JoinAll
<1>4. phase' \in [Socket -> {"new", "checking", "waiting", "joined", "refused"}]
  BY DEF TypeOK, JoinAll
<1>5. joined' \in [Socket -> Copy \cup {0}] /\ \A s \in Socket : joined'[s] # joined[s] => joined'[s] = r
  BY DEF TypeOK, JoinAll
<1>6. \A s \in Socket : phase'[s] \in {"waiting", "joined"} => joined'[s] # 0
  BY <1>2 DEF TypeOK, JoinAll
<1> QED BY <1>1, <1>3, <1>4, <1>5, <1>6 DEF TypeOK, JoinAll

LEMMA TypeInit == Init => TypeOK
<1> SUFFICES ASSUME Init PROVE TypeOK
  OBVIOUS
<1>1. 0 \in 0 .. MaxEpoch /\ 0 \in 0 .. MaxFailures /\ 0 \in 0 .. 0
  BY LifecycleAssumption
<1>2. <<>> \in Seq(SUBSET Msg)
  OBVIOUS
<1>3. open \in [Socket -> BOOLEAN]
  BY Zenon DEF Init
<1>4. row \in [Copy -> [state : SUBSET Msg, keyId : 0 .. MaxEpoch]]
  BY <1>1 DEF Init
<1>5. gcTimer \in [Socket -> Copy \cup {0}] /\ joined \in [Socket -> Copy \cup {0}]
  BY DEF Init
<1>6. /\ phase \in [Socket -> {"new", "checking", "waiting", "joined", "refused"}]
      /\ load \in [Copy -> {"none", "reading", "read", "loaded"}]
      /\ \A s \in Socket : phase[s] \notin {"waiting", "joined"}
  BY DEF Init
<1>7. /\ doc \in [Copy -> SUBSET Msg]
      /\ clients \in [Copy -> SUBSET Socket]
      /\ currentKeyId \in [Copy -> 0 .. MaxEpoch]
  BY <1>1 DEF Init
<1>8. /\ rooms \in Copy \cup {0} /\ roomInitMap \in Copy \cup {0}
      /\ persistTimer \in Copy \cup {0} /\ clientRoom \subseteq Socket
      /\ yjsState \subseteq Msg /\ accepted \subseteq Msg
      /\ dbKeyId \in 0 .. MaxEpoch /\ epochByDbId \in 0 .. dbKeyId
      /\ failures \in 0 .. MaxFailures
      /\ wsConnections \in Int /\ roomsLoaded \in Int
  BY <1>1 DEF Init
<1>9. lastFailed \in BOOLEAN /\ writes \in Seq(SUBSET Msg)
  BY <1>2 DEF Init
<1> QED BY <1>3, <1>4, <1>5, <1>6, <1>7, <1>8, <1>9 DEF TypeOK

LEMMA TypeStep == TypeOK /\ [Next]_vars => TypeOK'
<1> SUFFICES ASSUME TypeOK, [Next]_vars PROVE TypeOK'
  OBVIOUS
<1> USE LifecycleAssumption DEF socketVars, copyVars, timerVars, dbVars
<1>1. ASSUME NEW s \in Socket, Connect(s) PROVE TypeOK'
  BY <1>1 DEF Connect, TypeOK
<1>2. ASSUME NEW s \in Socket, Forbid(s) PROVE TypeOK'
  BY <1>2 DEF Forbid, TypeOK
<1>3. ASSUME NEW s \in Socket, AdmitToLoaded(s) PROVE TypeOK'
  <2>1. roomInitMap \in Copy
    BY <1>3 DEF AdmitToLoaded, TypeOK
  <2> QED BY <1>3, <2>1, JoinAllType DEF AdmitToLoaded, TypeOK
<1>4. ASSUME NEW s \in Socket, AdmitToLoading(s) PROVE TypeOK'
  BY <1>4 DEF AdmitToLoading, TypeOK
<1>5. ASSUME NEW s \in Socket, AdmitFirst(s) PROVE TypeOK'
  BY <1>5 DEF AdmitFirst, TypeOK, Copy
<1>6. ASSUME NEW r \in Copy, ReadRow(r) PROVE TypeOK'
  BY <1>6 DEF ReadRow, TypeOK
<1>7. ASSUME NEW r \in Copy, Loaded(r) PROVE TypeOK'
  <2>1. LoadedEpoch(r) \in 0 .. MaxEpoch
    BY DEF LoadedEpoch, Higher, TypeOK
  <2> DEFINE S == {s \in Socket : phase[s] = "waiting" /\ joined[s] = r}
  <2>2. JoinAll(S, r) /\ S \in SUBSET Socket
    BY <1>7 DEF Loaded
  <2> HIDE DEF S
  <2>3. roomsLoaded' \in Int /\ currentKeyId' \in [Copy -> 0 .. MaxEpoch]
    BY <1>7, <2>1 DEF Loaded, TypeOK
  <2>4. load' \in [Copy -> {"none", "reading", "read", "loaded"}]
    BY <1>7 DEF Loaded, TypeOK
  <2>5. doc' \in [Copy -> SUBSET Msg]
    BY <1>7 DEF Loaded, TypeOK
  <2> QED BY <1>7, <2>2, <2>3, <2>4, <2>5, JoinAllType DEF Loaded, TypeOK
<1>8. ASSUME NEW s \in Socket, Receive(s) PROVE TypeOK'
  <2>1. joined[s] \in Copy
    BY <1>8 DEF Receive, TypeOK
  <2> QED BY <1>8, <2>1 DEF Receive, TypeOK
<1>9. CASE PersistTimeout
  <2>1. Snapshot(persistTimer) \in SUBSET Msg
    BY <1>9 DEF PersistTimeout, Snapshot, TypeOK
  <2>2. writes' \in Seq(SUBSET Msg)
    BY <1>9, <2>1, AppendProperties DEF PersistTimeout, TypeOK
  <2> QED BY <1>9, <2>2 DEF PersistTimeout, TypeOK
<1>10. CASE WriteDone
  <2>1. Head(writes) \in SUBSET Msg /\ Tail(writes) \in Seq(SUBSET Msg)
    BY <1>10, HeadTailProperties DEF WriteDone, TypeOK
  <2> QED BY <1>10, <2>1 DEF WriteDone, TypeOK
<1>11. CASE WriteFails
  <2>1. Tail(writes) \in Seq(SUBSET Msg)
    BY <1>11, HeadTailProperties DEF WriteFails, TypeOK
  <2>2. failures' \in 0 .. MaxFailures
    BY <1>11 DEF WriteFails, TypeOK
  <2> QED BY <1>11, <2>1, <2>2 DEF WriteFails, TypeOK
<1>12. ASSUME NEW s \in Socket, CloseEarly(s) PROVE TypeOK'
  BY <1>12 DEF CloseEarly, TypeOK
<1>13. ASSUME NEW s \in Socket, Close(s) PROVE TypeOK'
  <2>1. open' \in [Socket -> BOOLEAN]
    BY <1>13 DEF Close, TypeOK
  <2>2. clients' \in [Copy -> SUBSET Socket]
    <3>1. rooms # 0 => rooms \in Copy /\ clients[rooms] \ {s} \in SUBSET Socket
      BY DEF TypeOK
    <3>2. \/ clients' = clients
          \/ rooms \in Copy /\ clients' = [clients EXCEPT ![rooms] = @ \ {s}]
      BY <1>13, <3>1 DEF Close
    <3>3. clients \in [Copy -> SUBSET Socket]
      BY DEF TypeOK
    <3> QED BY <3>2, <3>3
  <2>3. gcTimer' \in [Socket -> Copy \cup {0}]
    BY <1>13 DEF Close, LeftEmpty, TypeOK
  <2>4. clientRoom' \subseteq Socket /\ wsConnections' \in Int
    BY <1>13 DEF Close, TypeOK
  <2> QED BY <1>13, <2>1, <2>2, <2>3, <2>4 DEF Close, TypeOK
<1>14. ASSUME NEW s \in Socket, GcSpares(s) PROVE TypeOK'
  BY <1>14 DEF GcSpares, TypeOK
<1>15. ASSUME NEW s \in Socket, GcUnloads(s) PROVE TypeOK'
  <2>1. Snapshot(gcTimer[s]) \in SUBSET Msg
    BY <1>15 DEF GcUnloads, Snapshot, TypeOK
  <2>2. writes' \in Seq(SUBSET Msg)
    BY <1>15, <2>1, AppendProperties DEF GcUnloads, Flush, TypeOK
  <2>3. gcTimer' \in [Socket -> Copy \cup {0}] /\ roomsLoaded' \in Int
    BY <1>15 DEF GcUnloads, TypeOK
  <2>4. /\ persistTimer' = 0 /\ rooms' = 0 /\ roomInitMap' = 0
        /\ UNCHANGED <<socketVars, load, row, doc, currentKeyId, clients, yjsState, dbKeyId,
                       lastFailed, failures, epochByDbId, wsConnections, accepted>>
    BY <1>15 DEF GcUnloads
  <2> QED BY <2>2, <2>3, <2>4 DEF TypeOK
<1>16. CASE ClaimEpoch
  BY <1>16 DEF ClaimEpoch, TypeOK
<1>17. CASE RaiseEpoch
  BY <1>17 DEF RaiseEpoch, TypeOK, Higher
<1>18. CASE UNCHANGED vars
  BY <1>18 DEF vars, TypeOK
<1> QED
  BY <1>1, <1>2, <1>3, <1>4, <1>5, <1>6, <1>7, <1>8, <1>9, <1>10, <1>11, <1>12, <1>13,
     <1>14, <1>15, <1>16, <1>17, <1>18 DEF Next, Gc

\* Every variable keeps the kind of value the code gives it; an instance
\* never believes in an epoch the database does not have.
THEOREM TypeCorrect == Spec => []TypeOK
BY TypeInit, TypeStep, PTL DEF Spec

-----------------------------------------------------------------------------
LEMMA EpochStep == TypeOK /\ EpochNotLost /\ [Next]_vars => EpochNotLost'
<1> SUFFICES ASSUME TypeOK, EpochNotLost, [Next]_vars PROVE EpochNotLost'
  OBVIOUS
<1> USE LifecycleAssumption DEF socketVars, copyVars, timerVars, dbVars
<1>1. ASSUME NEW s \in Socket, AdmitFirst(s) PROVE EpochNotLost'
  BY <1>1 DEF AdmitFirst, TypeOK, EpochNotLost
<1>2. ASSUME NEW r \in Copy, ReadRow(r) PROVE EpochNotLost'
  BY <1>2 DEF ReadRow, TypeOK, EpochNotLost
<1>3. ASSUME NEW r \in Copy, Loaded(r) PROVE EpochNotLost'
  <2>1. LoadedEpoch(r) >= epochByDbId
    BY DEF LoadedEpoch, Higher, TypeOK
  <2> QED BY <1>3, <2>1 DEF Loaded, TypeOK, EpochNotLost
<1>4. CASE RaiseEpoch
  BY <1>4 DEF RaiseEpoch, TypeOK, EpochNotLost, Higher
<1>5. ASSUME NEW s \in Socket, GcUnloads(s) PROVE EpochNotLost'
  BY <1>5 DEF GcUnloads, EpochNotLost
<1>6. CASE UNCHANGED <<rooms, load, currentKeyId, epochByDbId>>
  BY <1>6 DEF EpochNotLost
<1> QED
  BY <1>1, <1>2, <1>3, <1>4, <1>5, <1>6
     DEF Next, Gc, Connect, Forbid, AdmitToLoaded, AdmitToLoading, Receive,
         PersistTimeout, WriteDone, WriteFails, CloseEarly, Close, GcSpares,
         ClaimEpoch, vars

\* However reads, claims, events, loads and unloads interleave, a loaded room
\* in the map never misses an epoch event this instance has handled.
THEOREM EpochNeverLost == Spec => []EpochNotLost
<1>1. Init => EpochNotLost
  BY DEF Init, EpochNotLost
<1> QED BY <1>1, TypeCorrect, EpochStep, PTL DEF Spec

-----------------------------------------------------------------------------
(* A connected device is in the client set of the copy it sends to.         *)

Connected(s) == phase[s] = "joined" /\ open[s]

MembersInv ==
  \A s \in Socket : Connected(s) => s \in clients[joined[s]] /\ s \in clientRoom

LEMMA MembersStep == TypeOK /\ MembersInv /\ [Next]_vars => MembersInv'
<1> SUFFICES ASSUME TypeOK, MembersInv, [Next]_vars PROVE MembersInv'
  OBVIOUS
<1> USE LifecycleAssumption DEF socketVars, copyVars, timerVars, dbVars, Connected
<1>1. ASSUME NEW s \in Socket, Connect(s) PROVE MembersInv'
  BY <1>1 DEF Connect, TypeOK, MembersInv
<1>2. ASSUME NEW s \in Socket, Forbid(s) PROVE MembersInv'
  BY <1>2 DEF Forbid, TypeOK, MembersInv
<1>3. ASSUME NEW S \in SUBSET Socket, NEW r \in Copy, JoinAll(S, r), open' = open
      PROVE MembersInv'
  BY <1>3 DEF JoinAll, TypeOK, MembersInv
<1>4. ASSUME NEW s \in Socket, AdmitToLoaded(s) PROVE MembersInv'
  BY <1>3, <1>4 DEF AdmitToLoaded, TypeOK
<1>5. ASSUME NEW s \in Socket, AdmitToLoading(s) PROVE MembersInv'
  BY <1>5 DEF AdmitToLoading, TypeOK, MembersInv
<1>6. ASSUME NEW s \in Socket, AdmitFirst(s) PROVE MembersInv'
  BY <1>6 DEF AdmitFirst, TypeOK, MembersInv
<1>7. ASSUME NEW r \in Copy, Loaded(r) PROVE MembersInv'
  <2> DEFINE S == {s \in Socket : phase[s] = "waiting" /\ joined[s] = r}
  <2>1. JoinAll(S, r) /\ S \in SUBSET Socket /\ open' = open
    BY <1>7 DEF Loaded
  <2> HIDE DEF S
  <2> QED BY <1>3, <2>1
<1>8. ASSUME NEW s \in Socket, CloseEarly(s) PROVE MembersInv'
  BY <1>8 DEF CloseEarly, TypeOK, MembersInv
<1>9. ASSUME NEW s \in Socket, Close(s) PROVE MembersInv'
  <2>1. UNCHANGED <<phase, joined>> /\ clientRoom' = clientRoom \ {s}
    BY <1>9 DEF Close
  <2>2. open' = [open EXCEPT ![s] = FALSE]
    BY <1>9 DEF Close
  <2>3. \A r \in Copy : clients[r] \ {s} \subseteq clients'[r]
    BY <1>9 DEF Close, TypeOK
  <2>4. ASSUME NEW t \in Socket, Connected(t)'
        PROVE  t # s /\ Connected(t) /\ joined[t] \in Copy
    BY <2>1, <2>2, <2>4 DEF TypeOK
  <2> QED BY <2>1, <2>3, <2>4 DEF MembersInv
<1>10. CASE UNCHANGED <<phase, open, joined, clients, clientRoom>>
  BY <1>10 DEF MembersInv
<1> QED
  BY <1>1, <1>2, <1>4, <1>5, <1>6, <1>7, <1>8, <1>9, <1>10
     DEF Next, Gc, ReadRow, Receive, PersistTimeout, WriteDone, WriteFails, GcSpares,
         GcUnloads, ClaimEpoch, RaiseEpoch, vars

LEMMA OwnTimerStep ==
  ASSUME TypeOK, MembersInv, [Next]_vars, NEW s \in Socket,
         gcTimer[s] # 0, gcTimer'[s] = 0, gcTimer[s] \in InUse, gcTimer[s] = rooms
  PROVE  rooms' = rooms
<1> USE DEF socketVars, copyVars, timerVars, dbVars
<1>1. clients[gcTimer[s]] # {}
  BY DEF InUse, MembersInv, Connected
<1>2. ASSUME NEW t \in Socket, GcUnloads(t) PROVE FALSE
  <2>1. t = s
    BY <1>2 DEF GcUnloads, TypeOK
  <2> QED BY <1>1, <1>2, <2>1 DEF GcUnloads, StillUsed
<1>3. ASSUME NEW t \in Socket, AdmitFirst(t) PROVE FALSE
  BY <1>3 DEF AdmitFirst
<1> QED
  BY <1>2, <1>3
     DEF Next, Gc, Connect, Forbid, AdmitToLoaded, AdmitToLoading, ReadRow, Loaded,
         Receive, PersistTimeout, WriteDone, WriteFails, CloseEarly, Close, GcSpares,
         ClaimEpoch, RaiseEpoch, vars

\* A GC timer never unloads the copy it was armed for while a device that
\* joined since is connected to it.
THEOREM OwnTimerNeverUnloadsUsers == Spec => OwnTimerSparesUsers
<1>1. Init => MembersInv
  BY DEF Init, MembersInv, Connected
<1>2. TypeOK /\ MembersInv /\ [Next]_vars =>
        [\A s \in Socket :
           /\ gcTimer[s] # 0 /\ gcTimer'[s] = 0
           /\ gcTimer[s] \in InUse /\ gcTimer[s] = rooms
           => rooms' = rooms]_vars
  BY OwnTimerStep
<1> QED BY <1>1, <1>2, TypeCorrect, MembersStep, PTL DEF Spec, OwnTimerSparesUsers

-----------------------------------------------------------------------------
(* The tail.  Until a second copy is created everything refers to the first, *)
(* and the last write issued decides: it carries every update accepted,      *)
(* unless the timer is armed again.                                          *)

CreatedInv ==
  /\ \A s \in Socket : joined[s] # 0 => load[joined[s]] # "none"
  /\ \A s \in Socket : gcTimer[s] # 0 => load[gcTimer[s]] # "none"
  /\ persistTimer # 0 => load[persistTimer] # "none"
  /\ rooms # 0 => load[rooms] # "none"
  /\ roomInitMap # 0 => load[roomInitMap] # "none"

LastWriteCovers ==
  IF writes = <<>> THEN lastFailed \/ accepted \subseteq yjsState
                   ELSE accepted \subseteq writes[Len(writes)]

TailInv ==
  LoadedOnce =>
    /\ \A r \in Copy : r = 1 => accepted \subseteq doc[r]
    /\ persistTimer # 0 \/ LastWriteCovers

LEMMA CreatedStep ==
  ASSUME TypeOK, CreatedInv, [Next]_vars
  PROVE  /\ CreatedInv'
         /\ LoadedOnce' => LoadedOnce
<1> USE DEF socketVars, copyVars, timerVars, dbVars
<1>1. ASSUME NEW s \in Socket, AdmitFirst(s)
      PROVE  CreatedInv' /\ (LoadedOnce' => LoadedOnce)
  <2>1. PICK r \in Copy :
          /\ load[r] = "none" /\ rooms' = r /\ roomInitMap' = r
          /\ load' = [load EXCEPT ![r] = "reading"]
          /\ joined' = [joined EXCEPT ![s] = r]
    BY <1>1 DEF AdmitFirst
  <2>2. \A q \in Copy : load'[q] = "none" => load[q] = "none"
    BY <2>1 DEF TypeOK
  <2>3. load'[r] # "none"
    BY <2>1 DEF TypeOK
  <2>4. \A t \in Socket : joined'[t] # 0 => load'[joined'[t]] # "none"
    BY <2>1, <2>2, <2>3 DEF TypeOK, CreatedInv
  <2>5. /\ \A t \in Socket : gcTimer'[t] # 0 => load'[gcTimer'[t]] # "none"
        /\ persistTimer' # 0 => load'[persistTimer'] # "none"
    BY <1>1, <2>2 DEF AdmitFirst, TypeOK, CreatedInv
  <2> QED BY <2>1, <2>2, <2>3, <2>4, <2>5 DEF CreatedInv, LoadedOnce
<1>2. ASSUME NEW r \in Copy, ReadRow(r)
      PROVE  CreatedInv' /\ (LoadedOnce' => LoadedOnce)
  BY <1>2 DEF ReadRow, TypeOK, CreatedInv, LoadedOnce
<1>3. ASSUME NEW r \in Copy, Loaded(r)
      PROVE  CreatedInv' /\ (LoadedOnce' => LoadedOnce)
  BY <1>3 DEF Loaded, JoinAll, TypeOK, CreatedInv, LoadedOnce
<1>4. ASSUME NEW s \in Socket, AdmitToLoaded(s)
      PROVE  CreatedInv' /\ (LoadedOnce' => LoadedOnce)
  BY <1>4 DEF AdmitToLoaded, JoinAll, TypeOK, CreatedInv, LoadedOnce
<1>5. ASSUME NEW s \in Socket, AdmitToLoading(s) \/ Receive(s) \/ Close(s) \/ Gc(s)
      PROVE  CreatedInv' /\ (LoadedOnce' => LoadedOnce)
  BY <1>5 DEF AdmitToLoading, Receive, Close, Gc, GcSpares, GcUnloads, TypeOK, CreatedInv,
              LoadedOnce
<1> QED
  BY <1>1, <1>2, <1>3, <1>4, <1>5
     DEF Next, Connect, Forbid, CloseEarly, PersistTimeout, WriteDone, WriteFails,
         ClaimEpoch, RaiseEpoch, CreatedInv, LoadedOnce, vars

LEMMA AppendCovers ==
  ASSUME TypeOK, NEW d \in SUBSET Msg, writes' = Append(writes, d), accepted' \subseteq d
  PROVE  LastWriteCovers'
<1>1. writes' # <<>> /\ Len(writes') = Len(writes) + 1 /\ writes'[Len(writes) + 1] = d
  BY AppendProperties DEF TypeOK
<1> QED BY <1>1 DEF LastWriteCovers

LEMMA TailStep ==
  ASSUME TypeOK, TypeOK', CreatedInv, TailInv, [Next]_vars
  PROVE  TailInv'
<1> SUFFICES ASSUME LoadedOnce' PROVE TailInv'
  BY DEF TailInv
<1> USE LifecycleAssumption DEF socketVars, copyVars, timerVars, dbVars
<1>a. LoadedOnce
  BY CreatedStep
<1>b. /\ \A s \in Socket : joined[s] # 0 => joined[s] = 1
      /\ \A s \in Socket : gcTimer[s] # 0 => gcTimer[s] = 1
      /\ persistTimer # 0 => persistTimer = 1
  <2>1. \A r \in Copy : load[r] # "none" => r = 1
    BY <1>a DEF LoadedOnce
  <2>2. /\ \A s \in Socket : joined[s] # 0 => joined[s] \in Copy
        /\ \A s \in Socket : gcTimer[s] # 0 => gcTimer[s] \in Copy
        /\ persistTimer # 0 => persistTimer \in Copy
    BY DEF TypeOK
  <2> QED BY <2>1, <2>2 DEF CreatedInv
<1>1. ASSUME NEW s \in Socket, Receive(s) PROVE TailInv'
  <2>1. joined[s] = 1 /\ joined[s] \in Copy
    BY <1>1, <1>b DEF Receive, TypeOK
  <2>2. \A r \in Copy : r = 1 => accepted' \subseteq doc'[r]
    BY <1>1, <1>a, <2>1 DEF Receive, TypeOK, TailInv
  <2> QED BY <1>1, <2>1, <2>2 DEF Receive, TailInv
<1>2. ASSUME NEW r \in Copy, Loaded(r) PROVE TailInv'
  BY <1>2, <1>a DEF Loaded, TypeOK, TailInv, LastWriteCovers
<1>3. CASE PersistTimeout
  <2>1. accepted' \subseteq Snapshot(persistTimer) /\ Snapshot(persistTimer) \in SUBSET Msg
    BY <1>3, <1>a, <1>b DEF PersistTimeout, Snapshot, TypeOK, TailInv
  <2>2. LastWriteCovers'
    BY <1>3, <2>1, AppendCovers DEF PersistTimeout
  <2> QED BY <1>3, <1>a, <2>2 DEF PersistTimeout, TailInv
<1>4. CASE WriteDone \/ WriteFails
  <2>1. writes # <<>> /\ writes' = Tail(writes) /\ UNCHANGED <<accepted, doc, persistTimer>>
    BY <1>4 DEF WriteDone, WriteFails
  <2>2. /\ Len(writes) \in Nat \ {0}
        /\ Len(writes') = Len(writes) - 1
        /\ \A i \in 1 .. Len(writes') : writes'[i] = writes[i + 1]
    BY <2>1, HeadTailProperties, EmptySeq DEF TypeOK
  <2>3. CASE writes' = <<>>
    <3>1. Len(writes) = 1
      BY <2>2, <2>3, EmptySeq
    <3>2. Head(writes) = writes[Len(writes)]
      BY <3>1 DEF TypeOK
    <3> QED BY <1>4, <1>a, <2>1, <2>3, <3>2 DEF WriteDone, WriteFails, TailInv, LastWriteCovers
  <2>4. CASE writes' # <<>>
    <3>1. Len(writes') \in Nat \ {0}
      BY <2>4, EmptySeq DEF TypeOK
    <3>2. writes'[Len(writes')] = writes[Len(writes)]
      BY <2>2, <3>1
    <3> QED BY <1>a, <2>1, <2>4, <3>2 DEF TailInv, LastWriteCovers
  <2> QED BY <2>3, <2>4
<1>5. ASSUME NEW s \in Socket, GcUnloads(s) PROVE TailInv'
  <2>1. accepted' \subseteq Snapshot(gcTimer[s]) /\ Snapshot(gcTimer[s]) \in SUBSET Msg
    BY <1>5, <1>a, <1>b DEF GcUnloads, Snapshot, TypeOK, TailInv
  <2>2. CASE persistTimer # 0
    <3>1. LastWriteCovers'
      BY <1>5, <2>1, <2>2, AppendCovers DEF GcUnloads, Flush
    <3> QED BY <1>5, <1>a, <3>1 DEF GcUnloads, TailInv
  <2>3. CASE persistTimer = 0
    BY <1>5, <1>a, <2>3 DEF GcUnloads, Flush, TailInv, LastWriteCovers
  <2> QED BY <2>2, <2>3
<1>6. CASE UNCHANGED <<doc, accepted, persistTimer, writes, yjsState, lastFailed>>
  BY <1>6, <1>a DEF TailInv, LastWriteCovers
<1> QED
  BY <1>1, <1>2, <1>3, <1>4, <1>5, <1>6
     DEF Next, Gc, Connect, Forbid, AdmitToLoaded, AdmitToLoading, AdmitFirst, ReadRow,
         CloseEarly, Close, GcSpares, ClaimEpoch, RaiseEpoch, vars

(***************************************************************************)
(* Until a room is loaded a second time, the debounce never drops the      *)
(* tail, whatever sockets, timers and failed writes do.                    *)
(***************************************************************************)
THEOREM TailAlwaysSaved == Spec => []FirstTailSaved
<1>1. Init => CreatedInv /\ TailInv
  BY DEF Init, CreatedInv, TailInv, LastWriteCovers
<1>2. TypeOK /\ TypeOK' /\ CreatedInv /\ TailInv /\ [Next]_vars => CreatedInv' /\ TailInv'
  BY CreatedStep, TailStep
<1>3. TailInv => FirstTailSaved
  BY DEF TailInv, FirstTailSaved, Settled, LastWriteCovers
<1> QED BY <1>1, <1>2, <1>3, TypeCorrect, PTL DEF Spec
=============================================================================

--------------------------- MODULE RoomSyncProofs ---------------------------
(***************************************************************************)
(* What holds of RoomSync for every set of devices and every bound: its    *)
(* types, who withdraws what, the gate, what the server holds, and that    *)
(* nothing is lost between a device and the server; and of the document    *)
(* operators of YDoc: their types, and the merge laws the sync protocol    *)
(* relies on.  None needs Client to be finite.                             *)
(***************************************************************************)
EXTENDS RoomSync, SequenceTheorems, TLAPS

-----------------------------------------------------------------------------
(* Types.                                                                   *)

LEMMA EmptyDocType == EmptyDoc \in Doc
BY DEF EmptyDoc, Doc

LEMMA ApplyUpdateType ==
  ASSUME NEW d \in Doc, NEW u \in Update
  PROVE  ApplyUpdate(d, u) \in Doc
BY DEF ApplyUpdate, Doc, Update, Contiguous, Item

LEMMA EncodeDiffType ==
  ASSUME NEW d \in Doc, NEW sv \in SUBSET Item
  PROVE  EncodeDiff(d, sv) \in Update
BY DEF EncodeDiff, Doc, Update, Content, Deleted

LEMMA EncodeStateType ==
  ASSUME NEW d \in Doc
  PROVE  EncodeState(d) \in Update
BY EncodeDiffType DEF EncodeState

LEMMA DeltaType ==
  ASSUME NEW d \in Doc, NEW e \in Doc
  PROVE  Delta(d, e) \in Update
BY DEF Delta, Doc, Update, Live, Deleted, Integrated, Contiguous

LEMMA StateVectorType ==
  ASSUME NEW d \in Doc
  PROVE  StateVector(d) \in SUBSET Item
BY DEF StateVector, Doc, Integrated, Contiguous

-----------------------------------------------------------------------------
(* What an update adds.                                                     *)

LEMMA ContiguousMonotone ==
  ASSUME NEW S \in SUBSET Item, NEW T \in SUBSET Item, S \subseteq T
  PROVE  Contiguous(S) \subseteq Contiguous(T)
BY DEF Contiguous

\* A doc never forgets an item it received, nor a deletion.
LEMMA ApplyUpdateGrows ==
  ASSUME NEW d \in Doc, NEW u \in Update
  PROVE  /\ d.have \subseteq ApplyUpdate(d, u).have
         /\ d.del \subseteq ApplyUpdate(d, u).del
         /\ Integrated(d) \subseteq Integrated(ApplyUpdate(d, u))
         /\ Deleted(d) \subseteq Deleted(ApplyUpdate(d, u))
BY DEF ApplyUpdate, Doc, Update, Integrated, Deleted, Contiguous

\* Content that was not there before came with the update, in full.
LEMMA ContentFromUpdate ==
  ASSUME NEW d \in Doc, NEW u \in Update
  PROVE  Content(ApplyUpdate(d, u)) \subseteq Content(d) \cup u.full
BY DEF ApplyUpdate, Doc, Update, Content, Deleted, Integrated, Contiguous

-----------------------------------------------------------------------------
(* The merge laws.                                                          *)

(***************************************************************************)
(* Two replicas that start alike and receive the same two updates, in      *)
(* different orders, show the same messages and the same deletions: an     *)
(* item that arrived early waits, it is never lost.                        *)
(***************************************************************************)
THEOREM MergeCommutes ==
  ASSUME NEW d \in Doc, NEW u \in Update, NEW v \in Update
  PROVE  NoChange(ApplyUpdate(ApplyUpdate(d, u), v), ApplyUpdate(ApplyUpdate(d, v), u))
BY DEF ApplyUpdate, Doc, Update, NoChange, Integrated, Deleted, Contiguous

\* Receiving an update a second time changes nothing that can be seen.
THEOREM MergeIdempotent ==
  ASSUME NEW d \in Doc, NEW u \in Update
  PROVE  NoChange(ApplyUpdate(ApplyUpdate(d, u), u), ApplyUpdate(d, u))
BY DEF ApplyUpdate, Doc, Update, NoChange, Integrated, Deleted, Contiguous

(***************************************************************************)
(* The handshake: when each of two replicas answers the other's state      *)
(* vector with what it lacks, they agree on every message and deletion,    *)
(* pending items included.                                                 *)
(***************************************************************************)
THEOREM HandshakeAgrees ==
  ASSUME NEW d \in Doc, NEW e \in Doc
  PROVE  NoChange(ApplyUpdate(d, EncodeDiff(e, StateVector(d))),
                  ApplyUpdate(e, EncodeDiff(d, StateVector(e))))
<1> DEFINE d1 == ApplyUpdate(d, EncodeDiff(e, StateVector(d)))
           e1 == ApplyUpdate(e, EncodeDiff(d, StateVector(e)))
<1>1. d1.have = d.have \cup e.have /\ e1.have = d.have \cup e.have
  BY DEF ApplyUpdate, EncodeDiff, StateVector, Integrated, Contiguous, Content,
         Deleted, Doc
<1>2. Deleted(d1) = Deleted(e1)
  BY <1>1 DEF ApplyUpdate, EncodeDiff, StateVector, Integrated, Contiguous, Content,
              Deleted, Doc
<1> QED BY <1>1, <1>2 DEF NoChange, Integrated

-----------------------------------------------------------------------------
(* Channels and frames.                                                     *)

\* The elements a received sequence starts with and is left with.
LEMMA HeadTail ==
  ASSUME NEW S, NEW s \in Seq(S), s # <<>>
  PROVE  Head(s) \in S /\ Tail(s) \in Seq(S)
BY HeadTailProperties

LEMMA AppendType ==
  ASSUME NEW S, NEW s \in Seq(S), NEW e \in S
  PROVE  Append(s, e) \in Seq(S)
BY AppendProperties

LEMMA SyncFrameFields ==
  ASSUME NEW f \in SyncFrame
  PROVE  /\ f.type = "step1" => f.sv \in SUBSET Item
         /\ CarriesUpdate(f) => f.update \in Update
BY DEF SyncFrame, CarriesUpdate

LEMMA ServerFrameFields ==
  ASSUME NEW f \in ServerFrame
  PROVE  /\ f.type = "step1" => f.sv \in SUBSET Item
         /\ CarriesUpdate(f) => f.update \in Update
         /\ f.type \in {"epoch", "rejected"} => f.keyId \in 1 .. MaxEpoch
         /\ f.type = "rejected" => f.ids \in SUBSET Item
BY DEF ServerFrame, SyncFrame, CarriesUpdate

LEMMA FrameTypes ==
  /\ \A d \in Doc : Step1(d) \in SyncFrame \cap ServerFrame
  /\ \A d \in Doc, sv \in SUBSET Item : Step2(d, sv) \in SyncFrame \cap ServerFrame
  /\ \A u \in Update : UpdateFrame(u) \in SyncFrame \cap ServerFrame
  /\ \A k \in 1 .. MaxEpoch : EpochFrame(k) \in ServerFrame
  /\ \A k \in 1 .. MaxEpoch, ids \in SUBSET Item : RejectedFrame(k, ids) \in ServerFrame
BY StateVectorType, EncodeDiffType
   DEF Step1, Step2, UpdateFrame, EpochFrame, RejectedFrame, SyncFrame, ServerFrame

-----------------------------------------------------------------------------
(* Type correctness.                                                        *)

LEMMA FlushType ==
  ASSUME TypeOK, NEW c \in Client
  PROVE  Flush(c) \in Seq(SyncFrame)
<1> DEFINE q == pendingUpdates[c]
<1>1. q \in Seq(Update)
  BY DEF TypeOK
<1>2. Len(q) \in Nat /\ \A k \in 1 .. Len(q) : q[k] \in Update
  BY <1>1, LenProperties, ElementOfSeq
<1>3. \A k \in 1 .. Len(q) : UpdateFrame(q[k]) \in SyncFrame
  BY <1>2, FrameTypes
<1>4. Flush(c) \in [1 .. Len(q) -> SyncFrame]
  BY <1>3 DEF Flush
<1> QED BY <1>2, <1>4, SeqDef

LEMMA GreetingType ==
  ASSUME TypeOK
  PROVE  Greeting \in Seq(ServerFrame)
<1>1. Step1(serverDoc) \in ServerFrame /\ Step2(serverDoc, {}) \in ServerFrame
  BY FrameTypes DEF TypeOK
<1>2. <<Step1(serverDoc), Step2(serverDoc, {})>> \in Seq(ServerFrame)
  BY <1>1
<1>3. currentKeyId > 0 => <<EpochFrame(currentKeyId)>> \in Seq(ServerFrame)
  <2>1. currentKeyId > 0 => EpochFrame(currentKeyId) \in ServerFrame
    BY FrameTypes, BoundsAssumption DEF TypeOK
  <2> QED BY <2>1
<1>4. (IF currentKeyId > 0 THEN <<EpochFrame(currentKeyId)>> ELSE <<>>) \in Seq(ServerFrame)
  BY <1>3
<1> QED BY <1>2, <1>4, ConcatProperties DEF Greeting

\* A change made on a device keeps its queue and its socket well typed.
LEMMA LocalUpdateType ==
  ASSUME TypeOK, NEW c \in Client, NEW u \in Update
  PROVE  /\ ApplyUpdate(doc[c], u) \in Doc
         /\ SentNow(c, u) \in [Client -> Seq(SyncFrame)]
         /\ QueuedNow(c, u) \in [Client -> Seq(Update)]
<1>1. UpdateFrame(u) \in SyncFrame
  BY FrameTypes
<1>2. Append(up[c], UpdateFrame(u)) \in Seq(SyncFrame)
  BY <1>1, AppendType DEF TypeOK
<1>3. Append(pendingUpdates[c], u) \in Seq(Update)
  BY AppendType DEF TypeOK
<1> QED BY <1>2, <1>3, ApplyUpdateType DEF TypeOK, SentNow, QueuedNow

LEMMA ReceivesType ==
  ASSUME TypeOK, NEW c \in Client, Receives(c)
  PROVE  Head(up[c]) \in SyncFrame /\ up' \in [Client -> Seq(SyncFrame)]
BY HeadTail DEF TypeOK, Receives

LEMMA DeliversType ==
  ASSUME TypeOK, NEW c \in Client, Delivers(c)
  PROVE  Head(down[c]) \in ServerFrame /\ down' \in [Client -> Seq(ServerFrame)]
BY HeadTail DEF TypeOK, Delivers

LEMMA ForgetSocketsType ==
  ASSUME TypeOK, NEW S \in SUBSET Client, ForgetSockets(S)
  PROVE  /\ clients' \subseteq Client
         /\ lastRejection' \in [Client -> SUBSET SyncFrame]
         /\ resyncTimer' \in [Client -> BOOLEAN]
         /\ up' \in [Client -> Seq(SyncFrame)]
         /\ down' \in [Client -> Seq(ServerFrame)]
         /\ unheard' \in [Client -> SUBSET Item]
<1>1. <<>> \in Seq(SyncFrame) /\ <<>> \in Seq(ServerFrame)
  OBVIOUS
<1>2. resyncTimer' \in [Client -> BOOLEAN]
  BY Zenon DEF TypeOK, ForgetSockets
<1>3. lastRejection' \in [Client -> SUBSET SyncFrame]
  BY DEF TypeOK, ForgetSockets
<1> QED BY <1>1, <1>2, <1>3 DEF TypeOK, ForgetSockets

\* The server's answers keep every direction of every socket well typed.
LEMMA RefusalType ==
  ASSUME TypeOK, NEW c \in Client, NEW f \in SyncFrame, Refused(f) # {}
  PROVE  Refusal(c, f) \in [Client -> Seq(ServerFrame)]
<1> DEFINE notice == Append(down[c], RejectedFrame(currentKeyId, Refused(f)))
<1>1. currentKeyId \in 1 .. MaxEpoch
  BY BoundsAssumption DEF TypeOK, Refused
<1>2. Refused(f) \in SUBSET Item
  BY SyncFrameFields DEF TypeOK, Refused, Unenveloped
<1>3. RejectedFrame(currentKeyId, Refused(f)) \in ServerFrame
  BY <1>1, <1>2, FrameTypes
<1>4. notice \in Seq(ServerFrame)
  BY <1>3, AppendType DEF TypeOK
<1>5. Append(notice, Step1(serverDoc)) \in Seq(ServerFrame)
  BY <1>4, AppendType, FrameTypes DEF TypeOK
<1> QED BY <1>4, <1>5 DEF TypeOK, Refusal

LEMMA DocUpdatedType ==
  ASSUME TypeOK, NEW c \in Client, NEW before \in Doc, NEW after \in Doc,
         DocUpdated(c, before, after)
  PROVE  /\ down' \in [Client -> Seq(ServerFrame)]
         /\ persistDue' \in BOOLEAN
<1>1. CASE NoChange(before, after)
  BY <1>1 DEF TypeOK, DocUpdated
<1>2. CASE ~NoChange(before, after)
  <2>1. UpdateFrame(Delta(before, after)) \in ServerFrame
    BY DeltaType, FrameTypes
  <2>2. \A d \in Client :
          Append(down[d], UpdateFrame(Delta(before, after))) \in Seq(ServerFrame)
    BY <2>1, AppendType DEF TypeOK
  <2> QED BY <1>2, <2>2 DEF TypeOK, DocUpdated
<1> QED BY <1>1, <1>2

LEMMA TypeInit == Init => TypeOK
<1> SUFFICES ASSUME Init PROVE TypeOK
  OBVIOUS
<1>1. EmptyDoc \in Doc
  BY EmptyDocType
<1>2. <<>> \in Seq(Update) /\ <<>> \in Seq(SyncFrame) /\ <<>> \in Seq(ServerFrame)
  OBVIOUS
<1>3. {0 .. MaxSend, 0 .. MaxEpoch, 0 .. MaxDrops, 0 .. MaxCrashes} \subseteq SUBSET Nat
  BY MaxSendAssumption, BoundsAssumption
<1>4. 0 \in 0 .. MaxSend /\ 0 \in 0 .. MaxEpoch /\ 0 \in 0 .. MaxDrops /\ 0 \in 0 .. MaxCrashes
  BY MaxSendAssumption, BoundsAssumption
<1> QED BY <1>1, <1>2, <1>4 DEF Init, TypeOK

LEMMA TypeStep == TypeOK /\ [Next]_vars => TypeOK'
<1> SUFFICES ASSUME TypeOK, [Next]_vars PROVE TypeOK'
  OBVIOUS
<1> USE DEF deviceVars, serverVars
<1>1. ASSUME NEW c \in Client, SendMessage(c) PROVE TypeOK'
  <2> DEFINE item == [by |-> c, clock |-> sent[c] + 1]
             update == [full |-> {item}, bare |-> {}, del |-> {}]
  <2>1. item \in Item /\ sent[c] + 1 \in 0 .. MaxSend
    BY <1>1, MaxSendAssumption DEF SendMessage, TypeOK, Item
  <2>2. update \in Update
    BY <2>1 DEF Update
  <2>3. /\ doc' \in [Client -> Doc]
        /\ up' \in [Client -> Seq(SyncFrame)]
        /\ pendingUpdates' \in [Client -> Seq(Update)]
    BY <1>1, <2>2, LocalUpdateType DEF SendMessage, TypeOK
  <2>4. sent' \in [Client -> 0 .. MaxSend]
    BY <1>1, <2>1 DEF SendMessage, TypeOK
  <2>5. plain' \subseteq Item
    BY <1>1, <2>1 DEF SendMessage, TypeOK
  <2> QED BY <1>1, <2>3, <2>4, <2>5 DEF SendMessage, TypeOK
<1>2. ASSUME NEW c \in Client, Open(c) PROVE TypeOK'
  <2>1. <<Step1(doc[c])>> \o Flush(c) \in Seq(SyncFrame)
    <3>1. Step1(doc[c]) \in SyncFrame
      BY FrameTypes DEF TypeOK
    <3> QED BY <3>1, FlushType, ConcatProperties
  <2>2. <<>> \in Seq(Update)
    OBVIOUS
  <2> QED BY <1>2, <2>1, <2>2 DEF Open, TypeOK
<1>3. ASSUME NEW c \in Client, LoseEarlyFrame(c) PROVE TypeOK'
  <2>1. Tail(up[c]) \in Seq(SyncFrame)
    BY <1>3, HeadTail DEF LoseEarlyFrame, TypeOK
  <2> QED BY <1>3, <2>1 DEF LoseEarlyFrame, TypeOK
<1>4. ASSUME NEW c \in Client, Join(c) PROVE TypeOK'
  BY <1>4, GreetingType DEF Join, TypeOK
<1>5. ASSUME NEW c \in Client, AnswerStep1(c) PROVE TypeOK'
  <2> DEFINE f == Head(up[c])
  <2>1. f \in SyncFrame /\ up' \in [Client -> Seq(SyncFrame)]
    BY <1>5, ReceivesType DEF AnswerStep1
  <2>2. Step2(serverDoc, f.sv) \in ServerFrame
    BY <1>5, <2>1, SyncFrameFields, FrameTypes DEF AnswerStep1, TypeOK
  <2>3. Append(down[c], Step2(serverDoc, f.sv)) \in Seq(ServerFrame)
    BY <2>2, AppendType DEF TypeOK
  <2> QED BY <1>5, <2>1, <2>3 DEF AnswerStep1, TypeOK
<1>6. ASSUME NEW c \in Client, AcceptUpdate(c) PROVE TypeOK'
  <2> DEFINE f == Head(up[c])
  <2>1. f \in SyncFrame /\ up' \in [Client -> Seq(SyncFrame)]
    BY <1>6, ReceivesType DEF AcceptUpdate
  <2>2. serverDoc' \in Doc
    BY <1>6, <2>1, SyncFrameFields, ApplyUpdateType DEF AcceptUpdate, TypeOK
  <2>3. down' \in [Client -> Seq(ServerFrame)] /\ persistDue' \in BOOLEAN
    BY <1>6, <2>2, DocUpdatedType DEF AcceptUpdate, TypeOK
  <2>4. Adopted(c, f.update, serverDoc, serverDoc') \subseteq Item
    BY <2>2 DEF Adopted, Integrated, Contiguous, Doc
  <2>5. unheard' \in [Client -> SUBSET Item]
    BY <1>6, <2>4 DEF AcceptUpdate, TypeOK
  <2> QED BY <1>6, <2>1, <2>2, <2>3, <2>5 DEF AcceptUpdate, TypeOK
<1>7. ASSUME NEW c \in Client, RejectUpdate(c) PROVE TypeOK'
  <2> DEFINE f == Head(up[c])
  <2>1. f \in SyncFrame /\ up' \in [Client -> Seq(SyncFrame)]
    BY <1>7, ReceivesType DEF RejectUpdate
  <2>2. down' \in [Client -> Seq(ServerFrame)]
    BY <1>7, <2>1, RefusalType DEF RejectUpdate
  <2>3. resyncTimer' \in [Client -> BOOLEAN]
    <3>1. Repeated(c, f) \in BOOLEAN
      BY DEF Repeated
    <3> QED BY <1>7, <3>1, Zenon DEF RejectUpdate, TypeOK
  <2>4. lastRejection' \in [Client -> SUBSET SyncFrame]
    BY <1>7, <2>1 DEF RejectUpdate, TypeOK
  <2> QED BY <1>7, <2>1, <2>2, <2>3, <2>4 DEF RejectUpdate, TypeOK
<1>8. ASSUME NEW c \in Client, ResyncTimeout(c) PROVE TypeOK'
  <2>1. Append(down[c], Step1(serverDoc)) \in Seq(ServerFrame)
    BY FrameTypes, AppendType DEF TypeOK
  <2> QED BY <1>8, <2>1 DEF ResyncTimeout, TypeOK
<1>9. ASSUME NEW c \in Client, ClientStep1(c) PROVE TypeOK'
  <2> DEFINE f == Head(down[c])
  <2>1. f \in ServerFrame /\ down' \in [Client -> Seq(ServerFrame)]
    BY <1>9, DeliversType DEF ClientStep1
  <2>2. Step2(doc[c], f.sv) \in SyncFrame
    BY <1>9, <2>1, ServerFrameFields, FrameTypes DEF ClientStep1, TypeOK
  <2>3. Append(up[c], Step2(doc[c], f.sv)) \in Seq(SyncFrame)
    BY <2>2, AppendType DEF TypeOK
  <2> QED BY <1>9, <2>1, <2>3 DEF ClientStep1, TypeOK
<1>10. ASSUME NEW c \in Client, ClientUpdate(c) PROVE TypeOK'
  <2> DEFINE f == Head(down[c])
  <2>1. f \in ServerFrame /\ down' \in [Client -> Seq(ServerFrame)]
    BY <1>10, DeliversType DEF ClientUpdate
  <2>2. ApplyUpdate(doc[c], f.update) \in Doc
    BY <1>10, <2>1, ServerFrameFields, ApplyUpdateType DEF ClientUpdate, TypeOK
  <2>3. synced' \in [Client -> BOOLEAN]
    BY <1>10, Zenon DEF ClientUpdate, TypeOK
  <2> QED BY <1>10, <2>1, <2>2, <2>3 DEF ClientUpdate, TypeOK
<1>11. ASSUME NEW c \in Client, ClientRejected(c) PROVE TypeOK'
  <2> DEFINE f == Head(down[c])
             retracted == Retractable(c, f.ids)
             deletion == [full |-> {}, bare |-> {}, del |-> retracted]
  <2>1. f \in ServerFrame /\ down' \in [Client -> Seq(ServerFrame)]
    BY <1>11, DeliversType DEF ClientRejected
  <2>2. f.ids \in SUBSET Item /\ f.keyId \in 0 .. MaxEpoch
    BY <1>11, <2>1, ServerFrameFields, BoundsAssumption DEF ClientRejected
  <2>3. retracted \in SUBSET Item /\ deletion \in Update
    BY <2>2 DEF Retractable, Update
  <2>4. doc' \in [Client -> Doc] /\ up' \in [Client -> Seq(SyncFrame)]
    BY <1>11, <2>3, LocalUpdateType DEF ClientRejected, TypeOK
  <2>5. retractedIds' \in [Client -> SUBSET Item]
    BY <1>11, <2>3 DEF ClientRejected, TypeOK
  <2>6. epochSeen' \in [Client -> 0 .. MaxEpoch]
    BY <1>11, <2>2 DEF ClientRejected, TypeOK, Higher
  <2>7. stateRefused' \in [Client -> BOOLEAN]
    <3>1. (stateRefused[c] \/ ~Repaired(c, f.ids, retracted)) \in BOOLEAN
      OBVIOUS
    <3> QED BY <1>11, <3>1, Zenon DEF ClientRejected, TypeOK
  <2>8. pendingUpdates' \in [Client -> Seq(Update)]
    <3>1. <<>> \in Seq(Update)
      OBVIOUS
    <3> QED BY <1>11, <3>1 DEF ClientRejected, TypeOK
  <2> QED BY <1>11, <2>1, <2>4, <2>5, <2>6, <2>7, <2>8 DEF ClientRejected, TypeOK
<1>12. ASSUME NEW c \in Client, ClientEpoch(c) PROVE TypeOK'
  <2> DEFINE f == Head(down[c])
  <2>1. f \in ServerFrame /\ down' \in [Client -> Seq(ServerFrame)]
    BY <1>12, DeliversType DEF ClientEpoch
  <2>2. f.keyId \in 0 .. MaxEpoch
    BY <1>12, <2>1, ServerFrameFields, BoundsAssumption DEF ClientEpoch
  <2> QED BY <1>12, <2>1, <2>2 DEF ClientEpoch, TypeOK, Higher
<1>13. ASSUME NEW c \in Client, ClientIgnores(c) PROVE TypeOK'
  BY <1>13, DeliversType DEF ClientIgnores, TypeOK
<1>14. ASSUME NEW c \in Client, Disconnect(c) PROVE TypeOK'
  <2>1. drops' \in 0 .. MaxDrops
    BY <1>14, BoundsAssumption DEF Disconnect, TypeOK
  <2> QED BY <1>14, <2>1, ForgetSocketsType DEF Disconnect, TypeOK
<1>15. ASSUME NEW c \in Client, Rebuild(c) PROVE TypeOK'
  <2>1. drops' \in 0 .. MaxDrops
    BY <1>15, BoundsAssumption DEF Rebuild, TypeOK
  <2>2. pendingUpdates' \in [Client -> Seq(Update)]
    <3>1. <<>> \in Seq(Update)
      OBVIOUS
    <3> QED BY <1>15, <3>1 DEF Rebuild, TypeOK
  <2>3. hasCipher' \in [Client -> BOOLEAN] /\ synced' \in [Client -> BOOLEAN]
    BY <1>15, Zenon DEF Rebuild, TypeOK
  <2>4. ForgetSockets({c})
    BY <1>15 DEF Rebuild
  <2>5. /\ epochSeen' = [epochSeen EXCEPT ![c] = currentKeyId]
        /\ status' = [status EXCEPT ![c] = "disconnected"]
        /\ retractedIds' = [retractedIds EXCEPT ![c] = {}]
        /\ UNCHANGED <<doc, sent, stateRefused, serverDoc, currentKeyId, stored, persistDue,
                       plain, crashes>>
    BY <1>15 DEF Rebuild
  <2> QED BY <2>1, <2>2, <2>3, <2>4, <2>5, ForgetSocketsType DEF TypeOK
<1>16. CASE RaiseEpoch
  <2>1. currentKeyId + 1 \in 1 .. MaxEpoch
    BY <1>16, BoundsAssumption DEF RaiseEpoch, TypeOK
  <2>2. \A d \in Client : Append(down[d], EpochFrame(currentKeyId + 1)) \in Seq(ServerFrame)
    BY <2>1, FrameTypes, AppendType DEF TypeOK
  <2> QED BY <1>16, <2>1, <2>2 DEF RaiseEpoch, TypeOK
<1>17. CASE Persist
  BY <1>17 DEF Persist, TypeOK
<1>18. CASE Crash
  <2>1. serverDoc' \in Doc
    BY <1>18, EmptyDocType, EncodeStateType, ApplyUpdateType DEF Crash, TypeOK
  <2>2. crashes' \in 0 .. MaxCrashes
    BY <1>18, BoundsAssumption DEF Crash, TypeOK
  <2> QED BY <1>18, <2>1, <2>2, ForgetSocketsType DEF Crash, TypeOK
<1>19. CASE UNCHANGED vars
  BY <1>19 DEF vars, TypeOK
<1> QED
  BY <1>1, <1>2, <1>3, <1>4, <1>5, <1>6, <1>7, <1>8, <1>9, <1>10, <1>11, <1>12,
     <1>13, <1>14, <1>15, <1>16, <1>17, <1>18, <1>19
     DEF Next, ServerReceive, ClientReceive

(***************************************************************************)
(* Every variable keeps the kind of value the code gives it; in particular *)
(* no epoch or refusal frame ever carries epoch 0, the plaintext room.     *)
(***************************************************************************)
THEOREM TypeCorrect == Spec => []TypeOK
BY TypeInit, TypeStep, PTL DEF Spec

-----------------------------------------------------------------------------
(* What a step leaves alone: each variable has a few actions that touch it. *)

Touched ==
  /\ UNCHANGED <<sent, plain>> \/ \E c \in Client : SendMessage(c)
  /\ doc' = doc \/ \E c \in Client : SendMessage(c) \/ ClientUpdate(c) \/ ClientRejected(c)
  /\ serverDoc' = serverDoc \/ Crash \/ \E c \in Client : AcceptUpdate(c)
  /\ stored' = stored \/ Persist
  /\ crashes' = crashes \/ Crash
  /\ currentKeyId' = currentKeyId \/ RaiseEpoch
  /\ status' = status \/ Crash \/ \E c \in Client : Open(c) \/ Disconnect(c) \/ Rebuild(c)
  /\ clients' = clients \/ Crash \/ \E c \in Client : Join(c) \/ Disconnect(c) \/ Rebuild(c)
  /\ unheard' = unheard \/ Crash
       \/ \E c \in Client : AcceptUpdate(c) \/ Disconnect(c) \/ Rebuild(c)

LEMMA NextTouches ==
  ASSUME [Next]_vars
  PROVE  Touched
<1> USE DEF deviceVars, serverVars
<1>1. CASE UNCHANGED vars
  BY <1>1 DEF vars, Touched
<1>2. ASSUME NEW c \in Client, SendMessage(c) PROVE Touched
  <2>1. UNCHANGED <<serverDoc, stored, crashes, currentKeyId, status, clients, unheard>>
    BY <1>2 DEF SendMessage
  <2> QED BY <1>2, <2>1 DEF Touched
<1>3. ASSUME NEW c \in Client, Open(c) PROVE Touched
  <2>1. UNCHANGED <<sent, plain, doc, serverDoc, stored, crashes, currentKeyId, clients, unheard>>
    BY <1>3 DEF Open
  <2> QED BY <1>3, <2>1 DEF Touched
<1>4. ASSUME NEW c \in Client, Join(c) PROVE Touched
  <2>1. UNCHANGED <<sent, plain, doc, serverDoc, stored, crashes, currentKeyId, status, unheard>>
    BY <1>4 DEF Join
  <2> QED BY <1>4, <2>1 DEF Touched
<1>5. ASSUME NEW c \in Client, AcceptUpdate(c) PROVE Touched
  <2>1. UNCHANGED <<sent, plain, doc, stored, crashes, currentKeyId, status, clients>>
    BY <1>5 DEF AcceptUpdate
  <2> QED BY <1>5, <2>1 DEF Touched
<1>6. ASSUME NEW c \in Client, ClientUpdate(c) \/ ClientRejected(c) PROVE Touched
  <2>1. UNCHANGED <<sent, plain, serverDoc, stored, crashes, currentKeyId, status, clients, unheard>>
    BY <1>6 DEF ClientUpdate, ClientRejected
  <2> QED BY <1>6, <2>1 DEF Touched
<1>7. ASSUME NEW c \in Client, Disconnect(c) \/ Rebuild(c) PROVE Touched
  <2>1. UNCHANGED <<sent, plain, doc, serverDoc, stored, crashes, currentKeyId>>
    BY <1>7 DEF Disconnect, Rebuild
  <2> QED BY <1>7, <2>1 DEF Touched
<1>8. CASE RaiseEpoch
  <2>1. UNCHANGED <<sent, plain, doc, serverDoc, stored, crashes, status, clients, unheard>>
    BY <1>8 DEF RaiseEpoch
  <2> QED BY <1>8, <2>1 DEF Touched
<1>9. CASE Persist
  <2>1. UNCHANGED <<sent, plain, doc, serverDoc, crashes, currentKeyId, status, clients, unheard>>
    BY <1>9 DEF Persist
  <2> QED BY <1>9, <2>1 DEF Touched
<1>10. CASE Crash
  <2>1. UNCHANGED <<sent, plain, doc, stored, currentKeyId>>
    BY <1>10 DEF Crash
  <2> QED BY <1>10, <2>1 DEF Touched
<1>11. ASSUME NEW c \in Client,
              \/ LoseEarlyFrame(c) \/ AnswerStep1(c) \/ RejectUpdate(c) \/ ResyncTimeout(c)
              \/ ClientStep1(c) \/ ClientEpoch(c) \/ ClientIgnores(c)
       PROVE  Touched
  <2>1. CASE LoseEarlyFrame(c) \/ AnswerStep1(c)
    BY <2>1 DEF LoseEarlyFrame, AnswerStep1, Touched
  <2>2. CASE RejectUpdate(c) \/ ResyncTimeout(c)
    BY <2>2 DEF RejectUpdate, ResyncTimeout, Touched
  <2>3. CASE ClientStep1(c) \/ ClientEpoch(c) \/ ClientIgnores(c)
    BY <2>3 DEF ClientStep1, ClientEpoch, ClientIgnores, Touched
  <2> QED BY <1>11, <2>1, <2>2, <2>3
<1> QED
  BY <1>1, <1>2, <1>3, <1>4, <1>5, <1>6, <1>7, <1>8, <1>9, <1>10, <1>11
     DEF Next, ServerReceive, ClientReceive

\* The item that SendMessage(c) inserts.
New(c) == [by |-> c, clock |-> sent[c] + 1]

LEMMA MessageSent ==
  ASSUME TypeOK, NEW c \in Client, SendMessage(c)
  PROVE  /\ New(c) \in Item /\ New(c) \notin Created
         /\ Created' = Created \cup {New(c)}
         /\ doc'[c].have = doc[c].have \cup {New(c)} /\ doc'[c].del = doc[c].del
         /\ \A x \in Client \ {c} : doc'[x] = doc[x]
         /\ plain' \subseteq plain \cup {New(c)}
<1>1. New(c) \in Item
  BY MaxSendAssumption DEF SendMessage, TypeOK, Item, New
<1>2. sent' = [sent EXCEPT ![c] = sent[c] + 1] /\ sent[c] \in Nat
  BY MaxSendAssumption DEF SendMessage, TypeOK
<1>3. ASSUME NEW i \in Item PROVE i \in Created' <=> i \in Created \/ i = New(c)
  <2>1. i.by \in Client /\ i.clock \in Nat /\ i = [by |-> i.by, clock |-> i.clock]
    BY DEF Item
  <2>2. CASE i.by = c
    <3>1. sent'[i.by] = sent[c] + 1
      BY <1>2, <2>2 DEF TypeOK
    <3>2. i = New(c) <=> i.clock = sent[c] + 1
      BY <2>1, <2>2 DEF New
    <3> QED BY <1>2, <2>1, <2>2, <3>1, <3>2 DEF Created
  <2>3. CASE i.by # c
    <3>1. sent'[i.by] = sent[i.by]
      BY <1>2, <2>1, <2>3 DEF TypeOK
    <3> QED BY <2>3, <3>1 DEF Created, New
  <2> QED BY <2>2, <2>3
<1>4. New(c) \notin Created
  BY <1>2 DEF New, Created
<1>5. Created' = Created \cup {New(c)}
  BY <1>1, <1>3 DEF Created
<1> QED BY <1>1, <1>4, <1>5 DEF SendMessage, New, TypeOK, ApplyUpdate

-----------------------------------------------------------------------------
(* Only authors withdraw messages.                                          *)
(*                                                                          *)
(* The property speaks of docs; a deletion also travels in queues and       *)
(* frames, and a refusal's list becomes deletions.  The invariant says of   *)
(* all of them what the property says of the docs, with P the plaintext     *)
(* items and W the withdrawn ones, both of which only grow.                 *)

SafeUpdate(W) == {u \in Update : u.bare \cup u.del \subseteq W}

SafeSync(W) == {f \in SyncFrame : CarriesUpdate(f) => f.update \in SafeUpdate(W)}

SafeServer(P, W) ==
  {f \in ServerFrame : /\ CarriesUpdate(f) => f.update \in SafeUpdate(W)
                       /\ f.type = "rejected" => f.ids \subseteq P}

SafeDocs(W) ==
  /\ serverDoc.del \subseteq W /\ stored.del \subseteq W
  /\ \A c \in Client : doc[c].del \subseteq W

SafeChannels(P, W) ==
  /\ pendingUpdates \in [Client -> Seq(SafeUpdate(W))]
  /\ up \in [Client -> Seq(SafeSync(W))]
  /\ down \in [Client -> Seq(SafeServer(P, W))]

WithdrawInv == SafeDocs(Withdrawn) /\ SafeChannels(plain, Withdrawn)

LEMMA SafeChannelsMonotone ==
  ASSUME NEW P, NEW W, NEW Q, NEW V, P \subseteq Q, W \subseteq V, SafeChannels(P, W)
  PROVE  SafeChannels(Q, V)
<1>1. /\ SafeUpdate(W) \subseteq SafeUpdate(V)
      /\ SafeSync(W) \subseteq SafeSync(V)
      /\ SafeServer(P, W) \subseteq SafeServer(Q, V)
  BY DEF SafeUpdate, SafeSync, SafeServer
<1>2. \A c \in Client : /\ pendingUpdates[c] \in Seq(SafeUpdate(V))
                        /\ up[c] \in Seq(SafeSync(V))
                        /\ down[c] \in Seq(SafeServer(Q, V))
  BY <1>1, SeqMonotonic DEF SafeChannels
<1> QED BY <1>2 DEF SafeChannels

\* What a replica sends deletes no more than the replica did.
LEMMA EncodeDiffSafe ==
  ASSUME NEW W, NEW d \in Doc, d.del \subseteq W, NEW sv \in SUBSET Item
  PROVE  EncodeDiff(d, sv) \in SafeUpdate(W)
BY EncodeDiffType DEF EncodeDiff, SafeUpdate, Content, Deleted, Doc

LEMMA DeltaSafe ==
  ASSUME NEW W, NEW d \in Doc, NEW e \in Doc, e.del \subseteq W
  PROVE  Delta(d, e) \in SafeUpdate(W)
BY DeltaType DEF Delta, SafeUpdate, Deleted

LEMMA ApplySafe ==
  ASSUME NEW W, NEW d \in Doc, d.del \subseteq W, NEW u \in SafeUpdate(W)
  PROVE  ApplyUpdate(d, u).del \subseteq W
BY DEF ApplyUpdate, SafeUpdate

LEMMA FrameSafe ==
  ASSUME NEW P, NEW W
  PROVE  /\ \A d \in Doc : Step1(d) \in SafeSync(W) \cap SafeServer(P, W)
         /\ \A d \in Doc, sv \in SUBSET Item : d.del \subseteq W =>
              Step2(d, sv) \in SafeSync(W) \cap SafeServer(P, W)
         /\ \A u \in SafeUpdate(W) : UpdateFrame(u) \in SafeSync(W) \cap SafeServer(P, W)
         /\ \A k \in 1 .. MaxEpoch : EpochFrame(k) \in SafeServer(P, W)
         /\ \A k \in 1 .. MaxEpoch, ids \in SUBSET Item : ids \subseteq P =>
              RejectedFrame(k, ids) \in SafeServer(P, W)
<1>1. \A u \in SafeUpdate(W) : u \in Update
  BY DEF SafeUpdate
<1>2. \A d \in Doc, sv \in SUBSET Item : d.del \subseteq W => EncodeDiff(d, sv) \in SafeUpdate(W)
  BY EncodeDiffSafe
<1> QED
  BY <1>1, <1>2, FrameTypes
     DEF Step1, Step2, UpdateFrame, EpochFrame, RejectedFrame, SafeSync, SafeServer,
         CarriesUpdate

LEMMA FlushSafe ==
  ASSUME NEW P, NEW W, SafeChannels(P, W), NEW c \in Client
  PROVE  Flush(c) \in Seq(SafeSync(W))
<1> DEFINE q == pendingUpdates[c]
<1>1. q \in Seq(SafeUpdate(W))
  BY DEF SafeChannels
<1>2. Len(q) \in Nat /\ \A k \in 1 .. Len(q) : q[k] \in SafeUpdate(W)
  BY <1>1, LenProperties, ElementOfSeq
<1>3. \A k \in 1 .. Len(q) : UpdateFrame(q[k]) \in SafeSync(W)
  BY <1>2, FrameSafe
<1>4. Flush(c) \in [1 .. Len(q) -> SafeSync(W)]
  BY <1>3 DEF Flush
<1> QED BY <1>2, <1>4, SeqDef

LEMMA GreetingSafe ==
  ASSUME TypeOK, NEW P, NEW W, SafeDocs(W)
  PROVE  Greeting \in Seq(SafeServer(P, W))
<1>1. Step1(serverDoc) \in SafeServer(P, W) /\ Step2(serverDoc, {}) \in SafeServer(P, W)
  BY FrameSafe DEF TypeOK, SafeDocs
<1>2. <<Step1(serverDoc), Step2(serverDoc, {})>> \in Seq(SafeServer(P, W))
  BY <1>1
<1>3. currentKeyId > 0 => EpochFrame(currentKeyId) \in SafeServer(P, W)
  BY FrameSafe, BoundsAssumption DEF TypeOK
<1>4. (IF currentKeyId > 0 THEN <<EpochFrame(currentKeyId)>> ELSE <<>>)
        \in Seq(SafeServer(P, W))
  BY <1>3
<1> QED BY <1>2, <1>4, ConcatProperties DEF Greeting

LEMMA LocalUpdateSafe ==
  ASSUME NEW P, NEW W, SafeChannels(P, W), NEW c \in Client, NEW u \in SafeUpdate(W)
  PROVE  /\ SentNow(c, u) \in [Client -> Seq(SafeSync(W))]
         /\ QueuedNow(c, u) \in [Client -> Seq(SafeUpdate(W))]
<1>1. Append(up[c], UpdateFrame(u)) \in Seq(SafeSync(W))
  BY FrameSafe, AppendType DEF SafeChannels
<1>2. Append(pendingUpdates[c], u) \in Seq(SafeUpdate(W))
  BY AppendType DEF SafeChannels
<1> QED BY <1>1, <1>2 DEF SafeChannels, SentNow, QueuedNow

LEMMA ReceivesSafe ==
  ASSUME NEW P, NEW W, SafeChannels(P, W), NEW c \in Client, Receives(c)
  PROVE  Head(up[c]) \in SafeSync(W) /\ up' \in [Client -> Seq(SafeSync(W))]
BY HeadTail DEF SafeChannels, Receives

LEMMA DeliversSafe ==
  ASSUME NEW P, NEW W, SafeChannels(P, W), NEW c \in Client, Delivers(c)
  PROVE  /\ Head(down[c]) \in SafeServer(P, W)
         /\ down' \in [Client -> Seq(SafeServer(P, W))]
BY HeadTail DEF SafeChannels, Delivers

LEMMA ForgetSocketsSafe ==
  ASSUME NEW P, NEW W, SafeChannels(P, W), NEW S \in SUBSET Client, ForgetSockets(S)
  PROVE  /\ up' \in [Client -> Seq(SafeSync(W))]
         /\ down' \in [Client -> Seq(SafeServer(P, W))]
<1>1. <<>> \in Seq(SafeSync(W)) /\ <<>> \in Seq(SafeServer(P, W))
  OBVIOUS
<1> QED BY <1>1 DEF SafeChannels, ForgetSockets

\* A refusal names plaintext items only.
LEMMA RefusalSafe ==
  ASSUME TypeOK, NEW P, NEW W, SafeChannels(P, W), plain \subseteq P,
         NEW c \in Client, NEW f \in SyncFrame, Refused(f) # {}
  PROVE  Refusal(c, f) \in [Client -> Seq(SafeServer(P, W))]
<1> DEFINE notice == Append(down[c], RejectedFrame(currentKeyId, Refused(f)))
<1>1. currentKeyId \in 1 .. MaxEpoch
  BY BoundsAssumption DEF TypeOK, Refused
<1>2. Refused(f) \in SUBSET Item /\ Refused(f) \subseteq P
  BY SyncFrameFields DEF TypeOK, Refused, Unenveloped
<1>3. RejectedFrame(currentKeyId, Refused(f)) \in SafeServer(P, W)
  BY <1>1, <1>2, FrameSafe
<1>4. notice \in Seq(SafeServer(P, W))
  BY <1>3, AppendType DEF SafeChannels
<1>5. Append(notice, Step1(serverDoc)) \in Seq(SafeServer(P, W))
  <2>1. Step1(serverDoc) \in SafeServer(P, W)
    BY FrameSafe DEF TypeOK
  <2> QED BY <1>4, <2>1, AppendType
<1> QED BY <1>4, <1>5 DEF SafeChannels, Refusal

LEMMA DocUpdatedSafe ==
  ASSUME NEW P, NEW W, SafeChannels(P, W), NEW c \in Client,
         NEW before \in Doc, NEW after \in Doc, after.del \subseteq W,
         DocUpdated(c, before, after)
  PROVE  down' \in [Client -> Seq(SafeServer(P, W))]
<1>1. CASE NoChange(before, after)
  BY <1>1 DEF SafeChannels, DocUpdated
<1>2. CASE ~NoChange(before, after)
  <2>1. UpdateFrame(Delta(before, after)) \in SafeServer(P, W)
    BY DeltaSafe, FrameSafe
  <2>2. \A d \in Client :
          Append(down[d], UpdateFrame(Delta(before, after))) \in Seq(SafeServer(P, W))
    BY <2>1, AppendType DEF SafeChannels
  <2> QED BY <1>2, <2>2 DEF SafeChannels, DocUpdated
<1> QED BY <1>1, <1>2

LEMMA WithdrawInit == Init => WithdrawInv
<1> SUFFICES ASSUME Init PROVE WithdrawInv
  OBVIOUS
<1>1. SafeDocs(Withdrawn)
  BY DEF Init, SafeDocs, EmptyDoc
<1>2. /\ <<>> \in Seq(SafeUpdate(Withdrawn)) /\ <<>> \in Seq(SafeSync(Withdrawn))
      /\ <<>> \in Seq(SafeServer(plain, Withdrawn))
  OBVIOUS
<1>3. SafeChannels(plain, Withdrawn)
  BY <1>2 DEF Init, SafeChannels
<1> QED BY <1>1, <1>3 DEF WithdrawInv

\* Plaintext stays plaintext, and what an author withdrew stays withdrawn.
LEMMA WithdrawnGrows ==
  ASSUME TypeOK, [Next]_vars
  PROVE  plain \subseteq plain' /\ Withdrawn \subseteq Withdrawn'
<1> USE DEF deviceVars, serverVars
<1>1. \A c \in Client, u \in Update : doc[c].del \subseteq ApplyUpdate(doc[c], u).del
  BY ApplyUpdateGrows DEF TypeOK
<1>2. ASSUME NEW c \in Client, SendMessage(c)
      PROVE  plain \subseteq plain' /\ \A d \in Client : doc[d].del \subseteq doc'[d].del
  BY <1>2 DEF SendMessage, TypeOK, ApplyUpdate
<1>3. ASSUME NEW c \in Client, ClientUpdate(c)
      PROVE  plain \subseteq plain' /\ \A d \in Client : doc[d].del \subseteq doc'[d].del
  BY <1>3 DEF ClientUpdate, TypeOK, ApplyUpdate
<1>4. ASSUME NEW c \in Client, ClientRejected(c)
      PROVE  plain \subseteq plain' /\ \A d \in Client : doc[d].del \subseteq doc'[d].del
  BY <1>4 DEF ClientRejected, TypeOK, ApplyUpdate
<1>5. plain \subseteq plain' /\ \A d \in Client : doc[d].del \subseteq doc'[d].del
  BY <1>2, <1>3, <1>4, NextTouches DEF Touched
<1> QED BY <1>5 DEF Withdrawn, TypeOK, Item

LEMMA WithdrawStep == TypeOK /\ TypeOK' /\ WithdrawInv /\ [Next]_vars => WithdrawInv'
<1> SUFFICES ASSUME TypeOK, TypeOK', WithdrawInv, [Next]_vars PROVE WithdrawInv'
  OBVIOUS
<1> DEFINE P == plain'
           W == Withdrawn'
           SafeDocsNext == /\ serverDoc'.del \subseteq W /\ stored'.del \subseteq W
                           /\ \A c \in Client : doc'[c].del \subseteq W
           SafeChannelsNext == /\ pendingUpdates' \in [Client -> Seq(SafeUpdate(W))]
                               /\ up' \in [Client -> Seq(SafeSync(W))]
                               /\ down' \in [Client -> Seq(SafeServer(P, W))]
<1>a. plain \subseteq P /\ Withdrawn \subseteq W
  BY WithdrawnGrows
<1>b. SafeDocs(W)
  BY <1>a DEF WithdrawInv, SafeDocs
<1>c. SafeChannels(P, W)
  BY <1>a, SafeChannelsMonotone DEF WithdrawInv
<1>d. SUFFICES SafeDocsNext /\ SafeChannelsNext
  BY DEF WithdrawInv, SafeDocs, SafeChannels
<1> HIDE DEF P, W
<1> USE DEF deviceVars, serverVars
<1>1. ASSUME NEW c \in Client, SendMessage(c) PROVE SafeDocsNext /\ SafeChannelsNext
  <2> DEFINE item == [by |-> c, clock |-> sent[c] + 1]
             update == [full |-> {item}, bare |-> {}, del |-> {}]
  <2>1. update \in SafeUpdate(W)
    BY <1>1, MaxSendAssumption DEF SendMessage, TypeOK, Item, Update, SafeUpdate
  <2>2. SafeChannelsNext
    BY <1>1, <1>c, <2>1, LocalUpdateSafe DEF SendMessage, SafeChannels
  <2>3. SafeDocsNext
    BY <1>1, <1>b, <2>1, ApplySafe DEF SendMessage, SafeDocs, TypeOK
  <2> QED BY <2>2, <2>3
<1>2. ASSUME NEW c \in Client, Open(c) PROVE SafeDocsNext /\ SafeChannelsNext
  <2>1. <<Step1(doc[c])>> \o Flush(c) \in Seq(SafeSync(W))
    <3>1. Step1(doc[c]) \in SafeSync(W)
      BY FrameSafe DEF TypeOK
    <3> QED BY <1>c, <3>1, FlushSafe, ConcatProperties
  <2>2. <<>> \in Seq(SafeUpdate(W))
    OBVIOUS
  <2> QED BY <1>2, <1>b, <1>c, <2>1, <2>2 DEF Open, SafeDocs, SafeChannels
<1>3. ASSUME NEW c \in Client, LoseEarlyFrame(c) PROVE SafeDocsNext /\ SafeChannelsNext
  <2>1. Tail(up[c]) \in Seq(SafeSync(W))
    BY <1>3, <1>c, HeadTail DEF LoseEarlyFrame, SafeChannels
  <2> QED BY <1>3, <1>b, <1>c, <2>1 DEF LoseEarlyFrame, SafeDocs, SafeChannels
<1>4. ASSUME NEW c \in Client, Join(c) PROVE SafeDocsNext /\ SafeChannelsNext
  <2>1. Greeting \in Seq(SafeServer(P, W))
    BY <1>b, GreetingSafe
  <2> QED BY <1>4, <1>b, <1>c, <2>1 DEF Join, SafeDocs, SafeChannels
<1>5. ASSUME NEW c \in Client, AnswerStep1(c) PROVE SafeDocsNext /\ SafeChannelsNext
  <2> DEFINE f == Head(up[c])
  <2>1. f \in SafeSync(W) /\ up' \in [Client -> Seq(SafeSync(W))]
    BY <1>5, <1>c, ReceivesSafe DEF AnswerStep1
  <2>2. f.sv \in SUBSET Item
    BY <1>5, <2>1, SyncFrameFields DEF AnswerStep1, SafeSync
  <2>3. Step2(serverDoc, f.sv) \in SafeServer(P, W)
    BY <1>b, <2>2, FrameSafe DEF TypeOK, SafeDocs
  <2>4. Append(down[c], Step2(serverDoc, f.sv)) \in Seq(SafeServer(P, W))
    BY <1>c, <2>3, AppendType DEF SafeChannels
  <2> QED BY <1>5, <1>b, <1>c, <2>1, <2>4 DEF AnswerStep1, SafeDocs, SafeChannels
<1>6. ASSUME NEW c \in Client, AcceptUpdate(c) PROVE SafeDocsNext /\ SafeChannelsNext
  <2> DEFINE f == Head(up[c])
  <2>1. f \in SafeSync(W) /\ up' \in [Client -> Seq(SafeSync(W))]
    BY <1>6, <1>c, ReceivesSafe DEF AcceptUpdate
  <2>2. serverDoc'.del \subseteq W
    <3>1. f.update \in SafeUpdate(W)
      BY <1>6, <2>1 DEF AcceptUpdate, SafeSync
    <3> QED BY <1>6, <1>b, <3>1, ApplySafe DEF AcceptUpdate, TypeOK, SafeDocs
  <2>3. down' \in [Client -> Seq(SafeServer(P, W))]
    BY <1>6, <1>c, <2>2, DocUpdatedSafe DEF AcceptUpdate, TypeOK
  <2> QED BY <1>6, <1>b, <1>c, <2>1, <2>2, <2>3 DEF AcceptUpdate, SafeDocs, SafeChannels
<1>7. ASSUME NEW c \in Client, RejectUpdate(c) PROVE SafeDocsNext /\ SafeChannelsNext
  <2> DEFINE f == Head(up[c])
  <2>1. f \in SyncFrame /\ up' \in [Client -> Seq(SafeSync(W))]
    BY <1>7, <1>c, ReceivesSafe DEF RejectUpdate, SafeSync
  <2>2. down' \in [Client -> Seq(SafeServer(P, W))]
    BY <1>7, <1>a, <1>c, <2>1, RefusalSafe DEF RejectUpdate
  <2> QED BY <1>7, <1>b, <1>c, <2>1, <2>2 DEF RejectUpdate, SafeDocs, SafeChannels
<1>8. ASSUME NEW c \in Client, ResyncTimeout(c) PROVE SafeDocsNext /\ SafeChannelsNext
  <2>1. Step1(serverDoc) \in SafeServer(P, W)
    BY FrameSafe DEF TypeOK
  <2>2. Append(down[c], Step1(serverDoc)) \in Seq(SafeServer(P, W))
    BY <1>c, <2>1, AppendType DEF SafeChannels
  <2> QED BY <1>8, <1>b, <1>c, <2>2 DEF ResyncTimeout, SafeDocs, SafeChannels
<1>9. ASSUME NEW c \in Client, ClientStep1(c) PROVE SafeDocsNext /\ SafeChannelsNext
  <2> DEFINE f == Head(down[c])
  <2>1. f \in SafeServer(P, W) /\ down' \in [Client -> Seq(SafeServer(P, W))]
    BY <1>9, <1>c, DeliversSafe DEF ClientStep1
  <2>2. f.sv \in SUBSET Item
    BY <1>9, <2>1, ServerFrameFields DEF ClientStep1, SafeServer
  <2>3. Step2(doc[c], f.sv) \in SafeSync(W)
    BY <1>b, <2>2, FrameSafe DEF TypeOK, SafeDocs
  <2>4. Append(up[c], Step2(doc[c], f.sv)) \in Seq(SafeSync(W))
    BY <1>c, <2>3, AppendType DEF SafeChannels
  <2> QED BY <1>9, <1>b, <1>c, <2>1, <2>4 DEF ClientStep1, SafeDocs, SafeChannels
<1>10. ASSUME NEW c \in Client, ClientUpdate(c) PROVE SafeDocsNext /\ SafeChannelsNext
  <2> DEFINE f == Head(down[c])
  <2>1. f \in SafeServer(P, W) /\ down' \in [Client -> Seq(SafeServer(P, W))]
    BY <1>10, <1>c, DeliversSafe DEF ClientUpdate
  <2>2. f.update \in SafeUpdate(W)
    BY <1>10, <2>1 DEF ClientUpdate, SafeServer
  <2>3. ApplyUpdate(doc[c], f.update).del \subseteq W
    BY <1>b, <2>2, ApplySafe DEF TypeOK, SafeDocs
  <2> QED BY <1>10, <1>b, <1>c, <2>1, <2>3 DEF ClientUpdate, SafeDocs, SafeChannels, TypeOK
<1>11. ASSUME NEW c \in Client, ClientRejected(c) PROVE SafeDocsNext /\ SafeChannelsNext
  <2> DEFINE f == Head(down[c])
             retracted == Retractable(c, f.ids)
             deletion == [full |-> {}, bare |-> {}, del |-> retracted]
  <2>1. f \in SafeServer(P, W) /\ down' \in [Client -> Seq(SafeServer(P, W))]
    BY <1>11, <1>c, DeliversSafe DEF ClientRejected
  <2>2. f.ids \in SUBSET Item /\ f.ids \subseteq P
    BY <1>11, <2>1, ServerFrameFields DEF ClientRejected, SafeServer
  <2>3. doc'[c] = ApplyUpdate(doc[c], deletion) /\ \A d \in Client \ {c} : doc'[d] = doc[d]
    BY <1>11 DEF ClientRejected, TypeOK
  <2>4. retracted \subseteq W
    <3>1. \A i \in retracted : i \in P /\ i.by = c /\ i \in doc'[i.by].del
      BY <2>2, <2>3 DEF Retractable, ApplyUpdate
    <3> QED BY <3>1 DEF P, W, Withdrawn
  <2>5. deletion \in SafeUpdate(W)
    BY <2>2, <2>4 DEF SafeUpdate, Update, Retractable
  <2>6. SafeDocsNext
    <3>1. doc'[c].del \subseteq W
      BY <1>b, <2>3, <2>5, ApplySafe DEF TypeOK, SafeDocs
    <3> QED BY <1>11, <1>b, <2>3, <3>1 DEF ClientRejected, SafeDocs
  <2>7. pendingUpdates' \in [Client -> Seq(SafeUpdate(W))]
    <3>1. <<>> \in Seq(SafeUpdate(W))
      OBVIOUS
    <3> QED BY <1>11, <1>c, <3>1 DEF ClientRejected, SafeChannels
  <2>8. up' \in [Client -> Seq(SafeSync(W))]
    BY <1>11, <1>c, <2>5, LocalUpdateSafe DEF ClientRejected, SafeChannels
  <2> QED BY <2>1, <2>6, <2>7, <2>8
<1>12. ASSUME NEW c \in Client, ClientEpoch(c) PROVE SafeDocsNext /\ SafeChannelsNext
  BY <1>12, <1>b, <1>c, DeliversSafe DEF ClientEpoch, SafeDocs, SafeChannels
<1>13. ASSUME NEW c \in Client, ClientIgnores(c) PROVE SafeDocsNext /\ SafeChannelsNext
  BY <1>13, <1>b, <1>c, DeliversSafe DEF ClientIgnores, SafeDocs, SafeChannels
<1>14. ASSUME NEW c \in Client, Disconnect(c) PROVE SafeDocsNext /\ SafeChannelsNext
  BY <1>14, <1>b, <1>c, ForgetSocketsSafe DEF Disconnect, SafeDocs, SafeChannels
<1>15. ASSUME NEW c \in Client, Rebuild(c) PROVE SafeDocsNext /\ SafeChannelsNext
  <2>1. pendingUpdates' \in [Client -> Seq(SafeUpdate(W))]
    <3>1. <<>> \in Seq(SafeUpdate(W))
      OBVIOUS
    <3> QED BY <1>15, <1>c, <3>1 DEF Rebuild, SafeChannels
  <2> QED BY <1>15, <1>b, <1>c, <2>1, ForgetSocketsSafe DEF Rebuild, SafeDocs, SafeChannels
<1>16. CASE RaiseEpoch
  <2>1. currentKeyId + 1 \in 1 .. MaxEpoch
    BY <1>16, BoundsAssumption DEF RaiseEpoch, TypeOK
  <2>2. EpochFrame(currentKeyId + 1) \in SafeServer(P, W)
    BY <2>1, FrameSafe
  <2>3. \A d \in Client :
          Append(down[d], EpochFrame(currentKeyId + 1)) \in Seq(SafeServer(P, W))
    BY <1>c, <2>2, AppendType DEF SafeChannels
  <2> QED BY <1>16, <1>b, <1>c, <2>3 DEF RaiseEpoch, SafeDocs, SafeChannels
<1>17. CASE Persist
  BY <1>17, <1>b, <1>c DEF Persist, SafeDocs, SafeChannels
<1>18. CASE Crash
  <2>1. EncodeState(stored) \in SafeUpdate(W)
    BY <1>b, EncodeDiffSafe DEF SafeDocs, TypeOK, EncodeState
  <2>2. EmptyDoc.del \subseteq W
    BY DEF EmptyDoc
  <2>3. serverDoc'.del \subseteq W
    BY <1>18, <2>1, <2>2, EmptyDocType, ApplySafe DEF Crash
  <2> QED BY <1>18, <1>b, <1>c, <2>3, ForgetSocketsSafe DEF Crash, SafeDocs, SafeChannels
<1>19. CASE UNCHANGED vars
  BY <1>19, <1>b, <1>c DEF vars, SafeDocs, SafeChannels
<1> QED
  BY <1>1, <1>2, <1>3, <1>4, <1>5, <1>6, <1>7, <1>8, <1>9, <1>10, <1>11, <1>12,
     <1>13, <1>14, <1>15, <1>16, <1>17, <1>18, <1>19
     DEF Next, ServerReceive, ClientReceive

(***************************************************************************)
(* A message disappears only because its author's own device withdrew it,  *)
(* and only if it was written in plaintext: whatever is refused, resent,   *)
(* reordered by a reconnect or brought back by a crash.                    *)
(***************************************************************************)
THEOREM WithdrawalsAreAuthors == Spec => []OnlyAuthorsWithdraw
<1>1. WithdrawInv => OnlyAuthorsWithdraw
  BY DEF WithdrawInv, SafeDocs, OnlyAuthorsWithdraw
<1> QED BY <1>1, TypeCorrect, WithdrawInit, WithdrawStep, PTL DEF Spec

-----------------------------------------------------------------------------
(* The gate.                                                                *)

LEMMA GateStep ==
  ASSUME TypeOK, [Next]_vars, currentKeyId > 0
  PROVE  Content(serverDoc') \cap plain' \subseteq Content(serverDoc) \cup Content(stored)
<1> DEFINE Kept == Content(serverDoc') \cap plain' \subseteq Content(serverDoc) \cup Content(stored)
<1> USE DEF deviceVars, serverVars
<1>1. ASSUME NEW c \in Client, AcceptUpdate(c) PROVE Kept
  <2> DEFINE u == Head(up[c]).update
  <2>1. u \in Update
    BY <1>1, ReceivesType, SyncFrameFields DEF AcceptUpdate
  <2>2. Content(serverDoc') \subseteq Content(serverDoc) \cup u.full
    BY <1>1, <2>1, ContentFromUpdate DEF AcceptUpdate, TypeOK
  <2>3. u.full \cap plain = {}
    BY <1>1 DEF AcceptUpdate, Refused, Unenveloped
  <2> QED BY <1>1, <2>2, <2>3 DEF AcceptUpdate
<1>2. ASSUME Crash PROVE Kept
  <2>1. Content(serverDoc') \subseteq Content(EmptyDoc) \cup EncodeState(stored).full
    BY <1>2, EmptyDocType, EncodeStateType, ContentFromUpdate DEF Crash, TypeOK
  <2>2. Content(EmptyDoc) = {} /\ EncodeState(stored).full = Content(stored)
    BY DEF Content, EmptyDoc, EncodeState, EncodeDiff
  <2> QED BY <2>1, <2>2
<1>3. ASSUME serverDoc' = serverDoc PROVE Kept
  BY <1>3
<1> QED
  <2> HIDE DEF Kept
  <2>1. Kept
    BY <1>1, <1>2, <1>3, NextTouches DEF Touched
  <2> QED BY <2>1 DEF Kept

(***************************************************************************)
(* Once the room is encrypted no device, by any frame, brings plaintext    *)
(* content into the server's doc that was not there or in the snapshot.    *)
(***************************************************************************)
THEOREM GateAlwaysHolds == Spec => GateHolds
<1>1. TypeOK /\ [Next]_vars =>
        [currentKeyId > 0 =>
           Content(serverDoc') \cap plain' \subseteq Content(serverDoc) \cup Content(stored)]_vars
  BY GateStep
<1> QED BY <1>1, TypeCorrect, PTL DEF Spec, GateHolds

-----------------------------------------------------------------------------
(* The server holds whatever is on its way to a device, and before a crash  *)
(* whatever it ever sent.  H and D are what its doc has and has deleted.    *)

HeldServer(H, D) ==
  {f \in ServerFrame : /\ CarriesUpdate(f) => /\ f.update.full \cup f.update.bare \subseteq H
                                             /\ f.update.del \cup f.update.bare \subseteq D
                       /\ f.type = "step1" => f.sv \subseteq H}

HeldInv ==
  /\ ServerHoldsForeign
  /\ down \in [Client -> Seq(HeldServer(serverDoc.have, serverDoc.del))]

LEMMA HeldMonotone ==
  ASSUME NEW H, NEW D, NEW I, NEW E, H \subseteq I, D \subseteq E,
         NEW s \in Seq(HeldServer(H, D))
  PROVE  s \in Seq(HeldServer(I, E))
<1>1. HeldServer(H, D) \subseteq HeldServer(I, E)
  BY DEF HeldServer
<1> QED BY <1>1, SeqMonotonic

LEMMA HeldFrames ==
  ASSUME NEW H, NEW D
  PROVE  /\ \A d \in Doc : d.have \subseteq H => Step1(d) \in HeldServer(H, D)
         /\ \A d \in Doc, sv \in SUBSET Item :
              d.have \subseteq H /\ d.del \subseteq D => Step2(d, sv) \in HeldServer(H, D)
         /\ \A d, e \in Doc : e.have \subseteq H /\ e.del \subseteq D =>
              UpdateFrame(Delta(d, e)) \in HeldServer(H, D)
         /\ \A k \in 1 .. MaxEpoch : EpochFrame(k) \in HeldServer(H, D)
         /\ \A k \in 1 .. MaxEpoch, ids \in SUBSET Item : RejectedFrame(k, ids) \in HeldServer(H, D)
<1>1. \A d \in Doc, sv \in SUBSET Item :
        /\ EncodeDiff(d, sv).full \cup EncodeDiff(d, sv).bare \subseteq d.have
        /\ EncodeDiff(d, sv).del \cup EncodeDiff(d, sv).bare \subseteq d.del
  BY DEF EncodeDiff, Content, Deleted, Doc
<1>2. \A d, e \in Doc : /\ Delta(d, e) \in Update
                        /\ Delta(d, e).full \cup Delta(d, e).bare \subseteq e.have
                        /\ Delta(d, e).del \cup Delta(d, e).bare \subseteq e.del
  BY DeltaType DEF Delta, Live, Deleted, Integrated, Contiguous
<1>3. \A d \in Doc : StateVector(d) \subseteq d.have
  BY DEF StateVector, Integrated, Contiguous
<1> QED
  BY <1>1, <1>2, <1>3, FrameTypes
     DEF HeldServer, CarriesUpdate, Step1, Step2, UpdateFrame, EpochFrame, RejectedFrame

\* Until it crashes, the server's doc only grows.
LEMMA ServerDocGrows ==
  ASSUME TypeOK, [Next]_vars, ~Crash
  PROVE  serverDoc.have \subseteq serverDoc'.have /\ serverDoc.del \subseteq serverDoc'.del
<1> DEFINE Grown == serverDoc.have \subseteq serverDoc'.have /\ serverDoc.del \subseteq serverDoc'.del
<1> USE DEF deviceVars, serverVars
<1>1. ASSUME NEW c \in Client, AcceptUpdate(c) PROVE Grown
  <2>1. Head(up[c]).update \in Update
    BY <1>1, ReceivesType, SyncFrameFields DEF AcceptUpdate
  <2> QED BY <1>1, <2>1, ApplyUpdateGrows DEF AcceptUpdate, TypeOK
<1>2. ASSUME serverDoc' = serverDoc PROVE Grown
  BY <1>2
<1> QED
  <2> HIDE DEF Grown
  <2>1. Grown
    BY <1>1, <1>2, NextTouches DEF Touched
  <2> QED BY <2>1 DEF Grown

\* A crash is not forgotten.
LEMMA CrashesStay ==
  ASSUME TypeOK, [Next]_vars
  PROVE  crashes' = 0 => crashes = 0 /\ ~Crash
<1> USE DEF deviceVars, serverVars
<1>1. Crash => crashes' # 0
  BY BoundsAssumption DEF Crash, TypeOK
<1>2. CASE crashes' = crashes
  BY <1>1, <1>2
<1> QED BY <1>1, <1>2, NextTouches DEF Touched

LEMMA HeldStep ==
  ASSUME TypeOK, TypeOK', HeldInv, [Next]_vars
  PROVE  HeldInv'
<1> DEFINE H == serverDoc'.have
           D == serverDoc'.del
           Foreign(d) == crashes = 0 =>
                           \A c \in Client : {i \in d[c].have : i.by # c} \subseteq H
           Held(q) == q \in [Client -> Seq(HeldServer(H, D))]
<1>e. <<>> \in Seq(HeldServer(H, D))
  OBVIOUS
<1>f. CASE Crash
  <2>1. Held(down')
    BY <1>f, <1>e DEF Crash, ForgetSockets
  <2> QED BY <1>f, <2>1, CrashesStay DEF HeldInv, ServerHoldsForeign
<1>g. SUFFICES ASSUME ~Crash PROVE HeldInv'
  BY <1>f
<1>a. Foreign(doc)
  BY <1>g, ServerDocGrows DEF HeldInv, ServerHoldsForeign
<1>b. Held(down)
  BY <1>g, ServerDocGrows, HeldMonotone DEF HeldInv
<1>c. SUFFICES Foreign(doc') /\ Held(down')
  BY CrashesStay DEF HeldInv, ServerHoldsForeign
<1>d. serverDoc.have \subseteq H /\ serverDoc.del \subseteq D
  BY <1>g, ServerDocGrows
<1> HIDE DEF H, D
<1> USE DEF deviceVars, serverVars
<1>1. ASSUME NEW c \in Client, SendMessage(c) PROVE Foreign(doc') /\ Held(down')
  <2>1. \A x \in Client : {i \in doc'[x].have : i.by # x} \subseteq {i \in doc[x].have : i.by # x}
    <3>1. ASSUME NEW x \in Client PROVE {i \in doc'[x].have : i.by # x} \subseteq {i \in doc[x].have : i.by # x}
      <4>1. New(c).by = c
        BY DEF New
      <4>2. CASE x = c
        BY <1>1, <4>1, <4>2, MessageSent
      <4>3. CASE x # c
        BY <1>1, <4>3, MessageSent
      <4> QED BY <4>2, <4>3
    <3> QED BY <3>1
  <2>2. UNCHANGED <<crashes, down>>
    BY <1>1 DEF SendMessage
  <2> QED BY <1>a, <1>b, <2>1, <2>2
<1>2. ASSUME NEW c \in Client, Join(c) PROVE Foreign(doc') /\ Held(down')
  <2>1. Step1(serverDoc) \in HeldServer(H, D) /\ Step2(serverDoc, {}) \in HeldServer(H, D)
    BY <1>d, HeldFrames DEF TypeOK
  <2>2. currentKeyId > 0 => EpochFrame(currentKeyId) \in HeldServer(H, D)
    BY HeldFrames, BoundsAssumption DEF TypeOK
  <2>3. (IF currentKeyId > 0 THEN <<EpochFrame(currentKeyId)>> ELSE <<>>) \in Seq(HeldServer(H, D))
    BY <2>2
  <2>4. <<Step1(serverDoc), Step2(serverDoc, {})>> \in Seq(HeldServer(H, D))
    BY <2>1
  <2>5. Greeting \in Seq(HeldServer(H, D))
    BY <2>3, <2>4, ConcatProperties DEF Greeting
  <2> QED BY <1>2, <1>a, <1>b, <2>5 DEF Join
<1>3. ASSUME NEW c \in Client, AnswerStep1(c) PROVE Foreign(doc') /\ Held(down')
  <2> DEFINE f == Head(up[c])
  <2>1. f.sv \in SUBSET Item
    BY <1>3, ReceivesType, SyncFrameFields DEF AnswerStep1
  <2>2. Step2(serverDoc, f.sv) \in HeldServer(H, D)
    BY <1>d, <2>1, HeldFrames DEF TypeOK
  <2>3. Append(down[c], Step2(serverDoc, f.sv)) \in Seq(HeldServer(H, D))
    BY <1>b, <2>2, AppendType
  <2> QED BY <1>3, <1>a, <1>b, <2>3 DEF AnswerStep1
<1>4. ASSUME NEW c \in Client, AcceptUpdate(c) PROVE Foreign(doc') /\ Held(down')
  <2>1. UpdateFrame(Delta(serverDoc, serverDoc')) \in HeldServer(H, D)
    BY HeldFrames DEF TypeOK, H, D
  <2>2. \A d \in Client :
          Append(down[d], UpdateFrame(Delta(serverDoc, serverDoc'))) \in Seq(HeldServer(H, D))
    BY <1>b, <2>1, AppendType
  <2> QED BY <1>4, <1>a, <1>b, <2>2 DEF AcceptUpdate, DocUpdated
<1>5. ASSUME NEW c \in Client, RejectUpdate(c) PROVE Foreign(doc') /\ Held(down')
  <2> DEFINE f == Head(up[c])
             notice == Append(down[c], RejectedFrame(currentKeyId, Refused(f)))
  <2>1. currentKeyId \in 1 .. MaxEpoch /\ Refused(f) \in SUBSET Item
    BY <1>5, ReceivesType, SyncFrameFields, BoundsAssumption
       DEF RejectUpdate, Refused, Unenveloped, TypeOK
  <2>2. RejectedFrame(currentKeyId, Refused(f)) \in HeldServer(H, D)
    BY <2>1, HeldFrames
  <2>3. Step1(serverDoc) \in HeldServer(H, D)
    BY <1>d, HeldFrames DEF TypeOK
  <2>4. notice \in Seq(HeldServer(H, D))
    BY <1>b, <2>2, AppendType
  <2>5. Append(notice, Step1(serverDoc)) \in Seq(HeldServer(H, D))
    BY <2>3, <2>4, AppendType
  <2> QED BY <1>5, <1>a, <1>b, <2>4, <2>5 DEF RejectUpdate, Refusal
<1>6. ASSUME NEW c \in Client, ResyncTimeout(c) PROVE Foreign(doc') /\ Held(down')
  <2>1. Step1(serverDoc) \in HeldServer(H, D)
    BY <1>d, HeldFrames DEF TypeOK
  <2>2. Append(down[c], Step1(serverDoc)) \in Seq(HeldServer(H, D))
    BY <1>b, <2>1, AppendType
  <2> QED BY <1>6, <1>a, <1>b, <2>2 DEF ResyncTimeout
<1>7. ASSUME NEW c \in Client, ClientReceive(c) PROVE Foreign(doc') /\ Held(down')
  <2> DEFINE f == Head(down[c])
  <2>1. Delivers(c)
    BY <1>7 DEF ClientReceive, ClientStep1, ClientUpdate, ClientRejected, ClientEpoch,
                ClientIgnores
  <2>2. f \in HeldServer(H, D) /\ Held(down')
    BY <1>b, <2>1, HeadTail DEF Delivers
  <2>3. ASSUME ClientUpdate(c) PROVE Foreign(doc')
    <3>1. f.update.full \cup f.update.bare \subseteq H
      BY <2>2, <2>3 DEF ClientUpdate, HeldServer
    <3> QED BY <1>a, <2>3, <3>1 DEF ClientUpdate, TypeOK, ApplyUpdate
  <2>4. ASSUME ClientRejected(c) PROVE Foreign(doc')
    <3>1. \A x \in Client : doc'[x].have = doc[x].have
      BY <2>4 DEF ClientRejected, TypeOK, ApplyUpdate
    <3> QED BY <1>a, <3>1
  <2> QED BY <1>7, <1>a, <2>2, <2>3, <2>4
             DEF ClientReceive, ClientStep1, ClientEpoch, ClientIgnores
<1>8. ASSUME NEW c \in Client, Disconnect(c) \/ Rebuild(c) PROVE Foreign(doc') /\ Held(down')
  BY <1>8, <1>a, <1>b, <1>e DEF Disconnect, Rebuild, ForgetSockets
<1>9. CASE RaiseEpoch
  <2>1. EpochFrame(currentKeyId + 1) \in HeldServer(H, D)
    BY <1>9, HeldFrames, BoundsAssumption DEF RaiseEpoch, TypeOK
  <2>2. \A d \in Client :
          Append(down[d], EpochFrame(currentKeyId + 1)) \in Seq(HeldServer(H, D))
    BY <1>b, <2>1, AppendType
  <2> QED BY <1>9, <1>a, <1>b, <2>2 DEF RaiseEpoch
<1>10. CASE doc' = doc /\ down' = down
  BY <1>10, <1>a, <1>b
<1> QED
  BY <1>1, <1>2, <1>3, <1>4, <1>5, <1>6, <1>7, <1>8, <1>9, <1>10, <1>g
     DEF Next, ServerReceive, Open, LoseEarlyFrame, Persist, vars

(***************************************************************************)
(* Until the server crashes, a device holds no other member's message that *)
(* the server lacks: the server alone distributes messages.                *)
(***************************************************************************)
THEOREM ServerHoldsAllForeign == Spec => []ServerHoldsForeign
<1>1. Init => HeldInv
  <2>1. <<>> \in Seq(HeldServer({}, {}))
    OBVIOUS
  <2> QED BY <2>1 DEF Init, HeldInv, ServerHoldsForeign, EmptyDoc
<1>2. TypeOK /\ TypeOK' /\ HeldInv /\ [Next]_vars => HeldInv'
  BY HeldStep
<1>3. HeldInv => ServerHoldsForeign
  BY DEF HeldInv
<1> QED BY <1>1, <1>2, <1>3, TypeCorrect, PTL DEF Spec

-----------------------------------------------------------------------------
(* What a channel carries, and who a step concerns.                         *)

Has(s, F) == \E k \in 1 .. Len(s) : s[k] \in F

LEMMA HasAppend ==
  ASSUME NEW S, NEW s \in Seq(S), NEW e \in S, NEW F
  PROVE  Has(Append(s, e), F) <=> (Has(s, F) \/ e \in F)
<1>1. /\ Len(Append(s, e)) = Len(s) + 1 /\ Len(s) \in Nat
      /\ \A n \in 1 .. Len(s) : Append(s, e)[n] = s[n]
      /\ Append(s, e)[Len(s) + 1] = e
  OBVIOUS
<1>2. \A n \in 1 .. Len(s) + 1 : n \in 1 .. Len(s) \/ n = Len(s) + 1
  BY <1>1
<1>3. Len(s) + 1 \in 1 .. Len(s) + 1 /\ \A n \in 1 .. Len(s) : n \in 1 .. Len(s) + 1
  BY <1>1
<1> QED BY <1>1, <1>2, <1>3, Zenon DEF Has

LEMMA HasTail ==
  ASSUME NEW S, NEW s \in Seq(S), s # <<>>, NEW F
  PROVE  Has(s, F) <=> (Head(s) \in F \/ Has(Tail(s), F))
<1>1. /\ Len(Tail(s)) = Len(s) - 1 /\ Len(s) \in Nat /\ Len(s) > 0 /\ Head(s) = s[1]
      /\ \A n \in 1 .. Len(s) - 1 : Tail(s)[n] = s[n + 1]
  OBVIOUS
<1>2. ASSUME NEW k \in 1 .. Len(s), s[k] \in F PROVE Head(s) \in F \/ Has(Tail(s), F)
  <2>1. CASE k = 1
    BY <1>1, <1>2, <2>1
  <2>2. CASE k # 1
    <3>1. k - 1 \in 1 .. Len(Tail(s)) /\ Tail(s)[k - 1] = s[k]
      BY <1>1, <2>2
    <3> QED BY <1>2, <3>1, Zenon DEF Has
  <2> QED BY <2>1, <2>2
<1>3. 1 \in 1 .. Len(s) /\ \A n \in 1 .. Len(s) - 1 : n + 1 \in 1 .. Len(s)
  BY <1>1
<1>4. ASSUME NEW k \in 1 .. Len(Tail(s)), Tail(s)[k] \in F PROVE Has(s, F)
  <2>1. k \in 1 .. Len(s) - 1
    BY <1>1
  <2>2. s[k + 1] \in F /\ k + 1 \in 1 .. Len(s)
    BY <1>1, <1>3, <1>4, <2>1
  <2> QED BY <2>2 DEF Has
<1>5. Head(s) \in F => Has(s, F)
  BY <1>1, <1>3, Zenon DEF Has
<1> QED BY <1>2, <1>4, <1>5 DEF Has

\* Nothing of the state around device x changes.
Untouched(x) ==
  /\ doc'[x] = doc[x] /\ sent'[x] = sent[x] /\ pendingUpdates'[x] = pendingUpdates[x]
  /\ retractedIds'[x] = retractedIds[x] /\ stateRefused'[x] = stateRefused[x]
  /\ status'[x] = status[x] /\ (x \in clients' <=> x \in clients)
  /\ resyncTimer'[x] = resyncTimer[x] /\ unheard'[x] = unheard[x]
  /\ up'[x] = up[x] /\ down'[x] = down[x]
  /\ serverDoc' = serverDoc /\ currentKeyId' = currentKeyId

\* The steps that concern one device and its socket only.
DeviceStep(c) ==
  \/ SendMessage(c) \/ Open(c) \/ LoseEarlyFrame(c) \/ Join(c)
  \/ AnswerStep1(c) \/ RejectUpdate(c) \/ ResyncTimeout(c)
  \/ ClientReceive(c) \/ Disconnect(c) \/ Rebuild(c)

LEMMA OthersUntouched ==
  ASSUME TypeOK, NEW c \in Client, DeviceStep(c), NEW x \in Client, x # c
  PROVE  Untouched(x)
<1> USE DEF deviceVars, serverVars
<1>1. CASE SendMessage(c)
  BY <1>1 DEF SendMessage, SentNow, QueuedNow, TypeOK, Untouched
<1>2. CASE Open(c) \/ LoseEarlyFrame(c) \/ Join(c)
  BY <1>2 DEF Open, LoseEarlyFrame, Join, TypeOK, Untouched
<1>3. CASE AnswerStep1(c) \/ ResyncTimeout(c)
  BY <1>3 DEF AnswerStep1, Receives, ResyncTimeout, TypeOK, Untouched
<1>4. CASE RejectUpdate(c)
  <2>1. resyncTimer'[x] = resyncTimer[x] /\ up'[x] = up[x] /\ down'[x] = down[x]
    BY <1>4 DEF RejectUpdate, Receives, Refusal, TypeOK
  <2> QED BY <1>4, <2>1 DEF RejectUpdate, Untouched
<1>5. CASE ClientStep1(c) \/ ClientUpdate(c) \/ ClientEpoch(c) \/ ClientIgnores(c)
  BY <1>5 DEF ClientStep1, ClientUpdate, ClientEpoch, ClientIgnores, Delivers, TypeOK, Untouched
<1>6. CASE ClientRejected(c)
  <2> DEFINE f == Head(down[c])
             retracted == Retractable(c, f.ids)
             repaired == Repaired(c, f.ids, retracted)
  <2>1. /\ doc'[x] = doc[x] /\ down'[x] = down[x] /\ retractedIds'[x] = retractedIds[x]
        /\ pendingUpdates'[x] = pendingUpdates[x]
    BY <1>6 DEF ClientRejected, Delivers, TypeOK
  <2>2. stateRefused'[x] = stateRefused[x]
    BY <1>6, Zenon DEF ClientRejected, TypeOK
  <2>3. up'[x] = up[x]
    BY <1>6 DEF ClientRejected, SentNow, TypeOK
  <2> QED BY <1>6, <2>1, <2>2, <2>3 DEF ClientRejected, Untouched
<1>7. CASE Disconnect(c) \/ Rebuild(c)
  <2>1. /\ up'[x] = up[x] /\ down'[x] = down[x] /\ unheard'[x] = unheard[x]
        /\ (x \in clients' <=> x \in clients)
    <3>1. ForgetSockets({c})
      BY <1>7 DEF Disconnect, Rebuild
    <3>2. x \notin {c}
      OBVIOUS
    <3>3. up'[x] = up[x] /\ down'[x] = down[x]
      BY <3>1, <3>2 DEF ForgetSockets
    <3>4. unheard'[x] = unheard[x] /\ (x \in clients' <=> x \in clients)
      BY <3>1, <3>2 DEF ForgetSockets
    <3> QED BY <3>3, <3>4
  <2>2. resyncTimer'[x] = resyncTimer[x]
    <3>1. x \notin {c} /\ resyncTimer[x] \in BOOLEAN
      BY DEF TypeOK
    <3>2. resyncTimer' = [d \in Client |-> resyncTimer[d] /\ d \notin {c}]
      BY <1>7 DEF Disconnect, Rebuild, ForgetSockets
    <3> QED BY <3>1, <3>2, Zenon
  <2>3. /\ status'[x] = status[x] /\ pendingUpdates'[x] = pendingUpdates[x]
        /\ retractedIds'[x] = retractedIds[x]
    BY <1>7 DEF Disconnect, Rebuild, TypeOK
  <2>4. UNCHANGED <<doc, sent, stateRefused, serverDoc, currentKeyId>>
    BY <1>7 DEF Disconnect, Rebuild
  <2> QED BY <2>1, <2>2, <2>3, <2>4 DEF Untouched
<1> QED
  BY <1>1, <1>2, <1>3, <1>4, <1>5, <1>6, <1>7 DEF DeviceStep, ClientReceive

LEMMA QuietSteps ==
  ASSUME Persist \/ UNCHANGED vars, NEW x \in Client
  PROVE  Untouched(x)
BY DEF Persist, vars, deviceVars, serverVars, Untouched

LEMMA Steps ==
  ASSUME [Next]_vars
  PROVE  \/ \E c \in Client : DeviceStep(c) \/ AcceptUpdate(c)
         \/ RaiseEpoch \/ Persist \/ Crash \/ UNCHANGED vars
BY DEF Next, ServerReceive, DeviceStep

-----------------------------------------------------------------------------
(* What a device sends is its own state.                                    *)
(*                                                                          *)
(* A device holds every message it ever inserted, and a frame it sent says  *)
(* no more than its doc does: so a refusal of its own messages names some   *)
(* that it shows or that it has withdrawn in this session.                  *)

\* The updates of a device c with doc d that withdrew r since it was built.
OwnUpdate(c, d, r) ==
  {u \in Update : /\ u.full \cup u.bare \subseteq d.have
                  /\ u.del \cup u.bare \subseteq d.del
                  /\ {i \in u.full : i.by = c} \cap d.del \subseteq r}

OwnSync(c, d, r) == {f \in SyncFrame : CarriesUpdate(f) => f.update \in OwnUpdate(c, d, r)}

\* The frames to it; a refusal is of an update it sent, in epoch k.
Bounce(c, d, r, k) ==
  {f \in ServerFrame :
     f.type = "rejected" => /\ k > 0 /\ f.ids # {}
                            /\ {i \in f.ids : i.by = c} \subseteq d.have
                            /\ {i \in f.ids : i.by = c} \cap d.del \subseteq r}

Channel(x) ==
  /\ pendingUpdates[x] \in Seq(OwnUpdate(x, doc[x], retractedIds[x]))
  /\ up[x] \in Seq(OwnSync(x, doc[x], retractedIds[x]))
  /\ down[x] \in Seq(Bounce(x, doc[x], retractedIds[x], currentKeyId))

Own(x) ==
  /\ doc[x].have \subseteq Created
  /\ {i \in Created : i.by = x} \subseteq doc[x].have
  /\ doc[x].del # {} => currentKeyId > 0
  /\ x \in clients => status[x] = "connected"

Made == serverDoc.have \cup stored.have \cup plain \subseteq Created

OwnInv == Made /\ \A x \in Client : Own(x) /\ Channel(x)

LEMMA OwnGrows ==
  ASSUME NEW c, NEW d \in Doc, NEW e \in Doc, NEW r, NEW q, NEW k, NEW l,
         d.have \subseteq e.have, d.del \subseteq e.del, r \subseteq q,
         {i \in e.del : i.by = c /\ i \notin d.del} \subseteq q, k > 0 => l > 0
  PROVE  /\ \A s \in Seq(OwnUpdate(c, d, r)) : s \in Seq(OwnUpdate(c, e, q))
         /\ \A s \in Seq(OwnSync(c, d, r)) : s \in Seq(OwnSync(c, e, q))
         /\ \A s \in Seq(Bounce(c, d, r, k)) : s \in Seq(Bounce(c, e, q, l))
<1>1. OwnUpdate(c, d, r) \subseteq OwnUpdate(c, e, q)
  BY DEF OwnUpdate, Doc
<1>2. OwnSync(c, d, r) \subseteq OwnSync(c, e, q)
  BY <1>1 DEF OwnSync
<1>3. Bounce(c, d, r, k) \subseteq Bounce(c, e, q, l)
  BY DEF Bounce, Doc
<1> QED BY <1>1, <1>2, <1>3, SeqMonotonic

\* The frames that refuse nothing.
LEMMA NoBounce ==
  ASSUME NEW c, NEW e, NEW r, NEW k
  PROVE  /\ \A d \in Doc : Step1(d) \in Bounce(c, e, r, k)
         /\ \A d \in Doc, sv \in SUBSET Item : Step2(d, sv) \in Bounce(c, e, r, k)
         /\ \A u \in Update : UpdateFrame(u) \in Bounce(c, e, r, k)
         /\ \A l \in 1 .. MaxEpoch : EpochFrame(l) \in Bounce(c, e, r, k)
BY FrameTypes DEF Bounce, Step1, Step2, UpdateFrame, EpochFrame

\* A device's own messages are all integrated, and only the author withdraws.
LEMMA OwnIntegrated ==
  ASSUME TypeOK, NEW x \in Client, Own(x)
  PROVE  \A i \in doc[x].have : i.by = x => i \in Integrated(doc[x])
<1>1. ASSUME NEW i \in doc[x].have, i.by = x, NEW j \in Earlier(i) PROVE j \in doc[x].have
  <2>1. i \in Item /\ i.clock <= sent[x]
    BY <1>1 DEF Own, Created
  <2>2. j \in Item /\ j.by = x /\ j.clock < i.clock
    BY <1>1 DEF Earlier
  <2>3. j.clock <= sent[x]
    BY <2>1, <2>2 DEF Item, TypeOK
  <2> QED BY <2>2, <2>3 DEF Own, Created
<1> QED BY <1>1 DEF Integrated, Contiguous

LEMMA DeletedIsWithdrawn ==
  ASSUME WithdrawInv, NEW i \in serverDoc.del
  PROVE  i \in plain /\ i \in doc[i.by].del
BY DEF WithdrawInv, SafeDocs, Withdrawn

\* Only sending a message makes one, and it is the sender's next.
LEMMA CreatedNext ==
  ASSUME TypeOK, [Next]_vars
  PROVE  \/ sent' = sent /\ plain' = plain /\ Created' = Created
         \/ \E c \in Client : SendMessage(c)
<1>1. sent' = sent => Created' = Created
  BY DEF Created
<1> QED BY <1>1, NextTouches DEF Touched

\* What arrives at a device is the server's.
LEMMA UpdateHeard ==
  ASSUME TypeOK, HeldInv, NEW c \in Client, ClientUpdate(c)
  PROVE  /\ Head(down[c]).update \in Update
         /\ doc'[c] = ApplyUpdate(doc[c], Head(down[c]).update)
         /\ doc'[c] \in Doc
         /\ doc[c].have \subseteq doc'[c].have /\ doc[c].del \subseteq doc'[c].del
         /\ doc'[c].have \subseteq doc[c].have \cup serverDoc.have
         /\ doc'[c].del \subseteq doc[c].del \cup serverDoc.del
<1> DEFINE f == Head(down[c])
<1>1. f \in HeldServer(serverDoc.have, serverDoc.del) /\ f \in ServerFrame
  BY HeadTail, DeliversType DEF ClientUpdate, Delivers, HeldInv
<1>2. f.update \in Update
  BY <1>1, ServerFrameFields DEF ClientUpdate
<1>3. doc'[c] = ApplyUpdate(doc[c], f.update)
  BY DEF ClientUpdate, TypeOK
<1>4. /\ f.update.full \cup f.update.bare \subseteq serverDoc.have
      /\ f.update.del \cup f.update.bare \subseteq serverDoc.del
  BY <1>1 DEF ClientUpdate, HeldServer
<1>5. doc'[c] \in Doc
  BY <1>2, <1>3, ApplyUpdateType DEF TypeOK
<1>6. /\ doc'[c].have = doc[c].have \cup (f.update.full \cup f.update.bare)
      /\ doc'[c].del = doc[c].del \cup (f.update.del \cup f.update.bare)
  BY <1>3 DEF ApplyUpdate
<1> HIDE DEF f
<1>7. /\ doc[c].have \subseteq doc'[c].have /\ doc[c].del \subseteq doc'[c].del
      /\ doc'[c].have \subseteq doc[c].have \cup serverDoc.have
      /\ doc'[c].del \subseteq doc[c].del \cup serverDoc.del
  BY <1>4, <1>6
<1> QED BY <1>2, <1>3, <1>5, <1>7 DEF f

\* A refusal is repaired by deleting messages, nothing else.
LEMMA RetractionMade ==
  ASSUME TypeOK, NEW c \in Client, ClientRejected(c)
  PROVE  LET ids == Head(down[c]).ids
             retracted == Retractable(c, ids)
         IN /\ Head(down[c]) \in ServerFrame /\ ids \in SUBSET Item
            /\ retracted \subseteq Item /\ \A i \in retracted : i.by = c
            /\ doc'[c].have = doc[c].have /\ doc'[c].del = doc[c].del \cup retracted
            /\ doc'[c] \in Doc
            /\ retractedIds'[c] = retractedIds[c] \cup retracted
<1> DEFINE f == Head(down[c])
           retracted == Retractable(c, f.ids)
           deletion == [full |-> {}, bare |-> {}, del |-> retracted]
<1>1. f \in ServerFrame /\ f.ids \in SUBSET Item
  BY DeliversType, ServerFrameFields DEF ClientRejected
<1>2. retracted \subseteq Item /\ \A i \in retracted : i.by = c
  BY <1>1 DEF Retractable
<1>3. deletion \in Update
  BY <1>2 DEF Update
<1>4. doc'[c] = ApplyUpdate(doc[c], deletion)
  BY DEF ClientRejected, TypeOK
<1>5. doc'[c] \in Doc
  BY <1>3, <1>4, ApplyUpdateType DEF TypeOK
<1>6. doc'[c].have = doc[c].have /\ doc'[c].del = doc[c].del \cup retracted
  BY <1>4 DEF ApplyUpdate
<1>7. retractedIds'[c] = retractedIds[c] \cup retracted
  BY DEF ClientRejected, TypeOK
<1> QED BY <1>1, <1>2, <1>5, <1>6, <1>7

\* What a device sends does not exceed its doc, and a repaired one keeps it.
LEMMA UpdateReceived ==
  ASSUME TypeOK, OwnInv, NEW c \in Client, AcceptUpdate(c)
  PROVE  LET u == Head(up[c]).update
         IN /\ u \in OwnUpdate(c, doc[c], retractedIds[c])
            /\ serverDoc' = ApplyUpdate(serverDoc, u)
            /\ serverDoc' \in Doc
            /\ serverDoc'.have = serverDoc.have \cup u.full \cup u.bare
            /\ serverDoc'.del = serverDoc.del \cup u.bare \cup u.del
<1> DEFINE u == Head(up[c]).update
<1>1. Head(up[c]) \in OwnSync(c, doc[c], retractedIds[c])
  BY HeadTail DEF AcceptUpdate, Receives, OwnInv, Channel
<1>2. u \in OwnUpdate(c, doc[c], retractedIds[c])
  BY <1>1 DEF AcceptUpdate, OwnSync
<1>3. u \in Update
  BY <1>2 DEF OwnUpdate
<1>4. serverDoc' = ApplyUpdate(serverDoc, u) /\ serverDoc' \in Doc
  BY <1>3, ApplyUpdateType DEF AcceptUpdate, TypeOK
<1> QED BY <1>2, <1>4 DEF ApplyUpdate

LEMMA MadeStep ==
  ASSUME TypeOK, WithdrawInv, HeldInv, OwnInv, [Next]_vars
  PROVE  Made'
<1> USE DEF deviceVars, serverVars
<1>0. /\ Created \subseteq Created'
      /\ serverDoc.have \subseteq Created /\ stored.have \subseteq Created /\ plain \subseteq Created
  BY CreatedNext, MessageSent DEF OwnInv, Made
<1>1. plain' \subseteq Created'
  BY <1>0, CreatedNext, MessageSent
<1>2. serverDoc'.have \subseteq Created' /\ stored'.have \subseteq Created'
  <2>1. ASSUME NEW c \in Client, AcceptUpdate(c)
        PROVE  serverDoc'.have \subseteq Created' /\ stored' = stored
    <3>1. serverDoc'.have \subseteq serverDoc.have \cup doc[c].have
      BY <2>1, UpdateReceived DEF OwnUpdate
    <3> QED BY <2>1, <3>1, <1>0 DEF OwnInv, Own, AcceptUpdate
  <2>2. CASE Persist
    BY <2>2, <1>0 DEF Persist
  <2>3. CASE Crash
    <3>1. serverDoc'.have = stored.have
      BY <2>3 DEF Crash, ApplyUpdate, EmptyDoc, EncodeState, EncodeDiff, TypeOK, Doc, Content
    <3> QED BY <2>3, <3>1, <1>0 DEF Crash
  <2>4. CASE serverDoc' = serverDoc /\ stored' = stored
    BY <2>4, <1>0
  <2> QED BY <1>0, <2>1, <2>2, <2>3, <2>4, NextTouches DEF Touched
<1> QED BY <1>1, <1>2 DEF Made

\* The room's epoch is never lowered.
LEMMA EpochGrows ==
  ASSUME TypeOK, [Next]_vars
  PROVE  currentKeyId > 0 => currentKeyId' > 0
<1> USE DEF deviceVars, serverVars
<1>1. RaiseEpoch => currentKeyId' = currentKeyId + 1 /\ currentKeyId \in Nat
  BY BoundsAssumption DEF RaiseEpoch, TypeOK
<1> QED BY <1>1, NextTouches DEF Touched

LEMMA OwnStep ==
  ASSUME TypeOK, WithdrawInv, HeldInv, OwnInv, [Next]_vars, NEW x \in Client
  PROVE  Own(x)'
<1> USE DEF deviceVars, serverVars
<1>0. Own(x) /\ Channel(x) /\ Made
  BY DEF OwnInv
<1>a. Created \subseteq Created'
  BY CreatedNext, MessageSent
<1>b. currentKeyId > 0 => currentKeyId' > 0
  BY EpochGrows
<1>1. doc'[x].have \subseteq Created' /\ {i \in Created' : i.by = x} \subseteq doc'[x].have
  <2>1. ASSUME NEW c \in Client, SendMessage(c)
        PROVE  doc'[x].have \subseteq Created' /\ {i \in Created' : i.by = x} \subseteq doc'[x].have
    <3>1. CASE x = c
      BY <3>1, <2>1, <1>0, MessageSent DEF Own
    <3>2. CASE x # c
      <4>1. New(c).by # x
        BY <3>2 DEF New
      <4> QED BY <3>2, <4>1, <2>1, <1>0, MessageSent DEF Own
    <3> QED BY <3>1, <3>2
  <2>2. CASE sent' = sent /\ plain' = plain /\ Created' = Created
    <3>1. ClientUpdate(x) => doc'[x].have \subseteq doc[x].have \cup serverDoc.have
                             /\ doc[x].have \subseteq doc'[x].have
      BY UpdateHeard
    <3>2. ClientRejected(x) => doc'[x].have = doc[x].have
      BY RetractionMade
    <3>3. doc'[x].have = doc[x].have \/ ClientUpdate(x) \/ ClientRejected(x) \/ \E c \in Client : SendMessage(c)
      <4>1. ASSUME NEW c \in Client, ClientUpdate(c) \/ ClientRejected(c), c # x
            PROVE  doc'[x] = doc[x]
        BY <4>1 DEF ClientUpdate, ClientRejected, TypeOK
      <4> QED BY <4>1, NextTouches DEF Touched
    <3> QED BY <2>1, <2>2, <3>1, <3>2, <3>3, <1>0 DEF Own, Made
  <2> QED BY <2>1, <2>2, CreatedNext
<1>2. doc'[x].del # {} => currentKeyId' > 0
  <2>1. ASSUME ClientUpdate(x), doc'[x].del # {} PROVE currentKeyId > 0
    <3>1. CASE doc[x].del # {}
      BY <3>1, <1>0 DEF Own
    <3>2. CASE doc[x].del = {}
      <4>1. PICK i \in serverDoc.del : TRUE
        BY <2>1, <3>2, UpdateHeard
      <4>2. i.by \in Client /\ i \in doc[i.by].del
        BY DeletedIsWithdrawn DEF TypeOK, Doc, Item
      <4> QED BY <4>2 DEF OwnInv, Own
    <3> QED BY <3>1, <3>2
  <2>2. ASSUME ClientRejected(x) PROVE currentKeyId > 0
    <3>1. Head(down[x]) \in Bounce(x, doc[x], retractedIds[x], currentKeyId)
      BY <2>2, <1>0, HeadTail DEF ClientRejected, Delivers, Channel
    <3> QED BY <2>2, <3>1 DEF ClientRejected, Bounce
  <2>3. doc'[x].del = doc[x].del \/ ClientUpdate(x) \/ ClientRejected(x)
    <3>1. ASSUME NEW c \in Client, ClientUpdate(c) \/ ClientRejected(c), c # x
          PROVE  doc'[x] = doc[x]
      BY <3>1 DEF ClientUpdate, ClientRejected, TypeOK
    <3>2. ASSUME NEW c \in Client, SendMessage(c) PROVE doc'[x].del = doc[x].del
      BY <3>2, MessageSent
    <3> QED BY <3>1, <3>2, NextTouches DEF Touched
  <2> QED BY <1>0, <1>b, <2>1, <2>2, <2>3 DEF Own
<1>3. x \in clients' => status'[x] = "connected"
  <2>1. ASSUME NEW c \in Client, Open(c) PROVE status'[x] = "connected" \/ status'[x] = status[x]
    BY <2>1 DEF Open, TypeOK
  <2>2. ASSUME NEW c \in Client, Join(c), x \in clients' PROVE status'[x] = "connected"
    BY <2>2, <1>0 DEF Join, Own
  <2>3. ASSUME NEW c \in Client, Disconnect(c) \/ Rebuild(c), x \in clients'
        PROVE  status'[x] = status[x] /\ x \in clients
    BY <2>3 DEF Disconnect, Rebuild, ForgetSockets, TypeOK
  <2>4. CASE Crash
    BY <2>4 DEF Crash, ForgetSockets
  <2>5. CASE status' = status /\ clients' = clients
    BY <2>5, <1>0 DEF Own
  <2>6. ASSUME NEW c \in Client, Open(c) PROVE clients' = clients
    BY <2>6 DEF Open
  <2>7. ASSUME NEW c \in Client, Join(c) PROVE status' = status
    BY <2>7 DEF Join
  <2> QED BY <1>0, <2>1, <2>2, <2>3, <2>4, <2>5, <2>6, NextTouches DEF Touched, Own
<1> QED BY <1>1, <1>2, <1>3 DEF Own

\* The three queues of a device, when its doc and what it withdrew have grown.
LEMMA ChannelGrown ==
  ASSUME TypeOK, TypeOK', NEW x \in Client, Channel(x),
         doc[x].have \subseteq doc'[x].have, doc[x].del \subseteq doc'[x].del,
         retractedIds[x] \subseteq retractedIds'[x],
         {i \in doc'[x].del : i.by = x /\ i \notin doc[x].del} \subseteq retractedIds'[x],
         currentKeyId > 0 => currentKeyId' > 0
  PROVE  /\ pendingUpdates[x] \in Seq(OwnUpdate(x, doc'[x], retractedIds'[x]))
         /\ up[x] \in Seq(OwnSync(x, doc'[x], retractedIds'[x]))
         /\ down[x] \in Seq(Bounce(x, doc'[x], retractedIds'[x], currentKeyId'))
<1>1. doc[x] \in Doc /\ doc'[x] \in Doc
  BY DEF TypeOK
<1> QED BY <1>1, OwnGrows DEF Channel

LEMMA FlushOwn ==
  ASSUME TypeOK, NEW x \in Client, Channel(x)
  PROVE  <<Step1(doc[x])>> \o Flush(x) \in Seq(OwnSync(x, doc[x], retractedIds[x]))
<1> DEFINE q == pendingUpdates[x]
           S == OwnSync(x, doc[x], retractedIds[x])
<1>1. q \in Seq(OwnUpdate(x, doc[x], retractedIds[x]))
  BY DEF Channel
<1>2. Len(q) \in Nat /\ \A k \in 1 .. Len(q) : q[k] \in OwnUpdate(x, doc[x], retractedIds[x])
  BY <1>1, LenProperties, ElementOfSeq
<1>3. \A k \in 1 .. Len(q) : UpdateFrame(q[k]) \in S
  <2>1. \A u \in OwnUpdate(x, doc[x], retractedIds[x]) : u \in Update /\ UpdateFrame(u) \in S
    BY FrameTypes DEF OwnUpdate, OwnSync, UpdateFrame
  <2> QED BY <1>2, <2>1
<1>4. Flush(x) \in [1 .. Len(q) -> S]
  BY <1>3 DEF Flush
<1>5. Flush(x) \in Seq(S)
  BY <1>2, <1>4, SeqDef
<1>6. Step1(doc[x]) \in S
  BY FrameTypes DEF TypeOK, OwnSync, Step1, CarriesUpdate
<1> HIDE DEF S
<1>7. <<Step1(doc[x])>> \in Seq(S)
  BY <1>6
<1> QED BY <1>5, <1>7, ConcatProperties DEF S

LEMMA GreetingOwn ==
  ASSUME TypeOK, NEW x, NEW d, NEW r, NEW k
  PROVE  Greeting \in Seq(Bounce(x, d, r, k))
<1> DEFINE S == Bounce(x, d, r, k)
<1>1. Step1(serverDoc) \in S /\ Step2(serverDoc, {}) \in S
  BY NoBounce DEF TypeOK
<1>2. currentKeyId > 0 => EpochFrame(currentKeyId) \in S
  BY NoBounce, BoundsAssumption DEF TypeOK
<1> HIDE DEF S
<1>3. <<Step1(serverDoc), Step2(serverDoc, {})>> \in Seq(S)
  BY <1>1
<1>4. (IF currentKeyId > 0 THEN <<EpochFrame(currentKeyId)>> ELSE <<>>) \in Seq(S)
  BY <1>2
<1> QED BY <1>3, <1>4, ConcatProperties DEF Greeting, S

\* A refusal names messages of the update it refuses.
LEMMA RefusalOwn ==
  ASSUME TypeOK, NEW x \in Client, Channel(x), RejectUpdate(x)
  PROVE  /\ RejectedFrame(currentKeyId, Refused(Head(up[x])))
              \in Bounce(x, doc[x], retractedIds[x], currentKeyId)
         /\ down'[x] \in Seq(Bounce(x, doc[x], retractedIds[x], currentKeyId))
<1> DEFINE f == Head(up[x])
           S == Bounce(x, doc[x], retractedIds[x], currentKeyId)
           notice == Append(down[x], RejectedFrame(currentKeyId, Refused(f)))
<1>1. f \in OwnSync(x, doc[x], retractedIds[x]) /\ f \in SyncFrame
  BY HeadTail, ReceivesType DEF RejectUpdate, Receives, Channel
<1>2. /\ currentKeyId \in 1 .. MaxEpoch /\ CarriesUpdate(f) /\ Refused(f) # {}
      /\ Refused(f) = f.update.full \cap plain
  BY BoundsAssumption DEF RejectUpdate, Refused, Unenveloped, TypeOK
<1>3. f.update \in OwnUpdate(x, doc[x], retractedIds[x])
  BY <1>1, <1>2 DEF OwnSync
<1>4. Refused(f) \in SUBSET Item /\ RejectedFrame(currentKeyId, Refused(f)) \in ServerFrame
  BY <1>2, FrameTypes DEF TypeOK
<1>5. /\ {i \in Refused(f) : i.by = x} \subseteq doc[x].have
      /\ {i \in Refused(f) : i.by = x} \cap doc[x].del \subseteq retractedIds[x]
  BY <1>2, <1>3 DEF OwnUpdate
<1>6. RejectedFrame(currentKeyId, Refused(f)) \in S
  BY <1>2, <1>4, <1>5 DEF Bounce, RejectedFrame
<1>7. Step1(serverDoc) \in S
  BY NoBounce DEF TypeOK
<1> HIDE DEF S
<1>8. notice \in Seq(S)
  BY <1>6, AppendType DEF Channel, S
<1>9. Append(notice, Step1(serverDoc)) \in Seq(S)
  BY <1>7, <1>8, AppendType
<1>10. down'[x] = notice \/ down'[x] = Append(notice, Step1(serverDoc))
  BY DEF RejectUpdate, Refusal, TypeOK
<1> QED BY <1>6, <1>8, <1>9, <1>10 DEF S

LEMMA ChannelStep ==
  ASSUME TypeOK, TypeOK', WithdrawInv, HeldInv, OwnInv, [Next]_vars, NEW x \in Client
  PROVE  Channel(x)'
<1> USE DEF deviceVars, serverVars
<1> DEFINE P == OwnUpdate(x, doc'[x], retractedIds'[x])
           U == OwnSync(x, doc'[x], retractedIds'[x])
           B == Bounce(x, doc'[x], retractedIds'[x], currentKeyId')
           Grown == /\ pendingUpdates[x] \in Seq(P) /\ up[x] \in Seq(U) /\ down[x] \in Seq(B)
<1>0. Own(x) /\ Channel(x) /\ Made
  BY DEF OwnInv
<1>a. SUFFICES pendingUpdates'[x] \in Seq(P) /\ up'[x] \in Seq(U) /\ down'[x] \in Seq(B)
  BY DEF Channel
<1>b. doc'[x] = doc[x] /\ retractedIds[x] = retractedIds'[x] => Grown
  BY <1>0, EpochGrows, ChannelGrown
<1>c. /\ \A d \in Doc : Step1(d) \in B
      /\ \A d \in Doc, sv \in SUBSET Item : Step2(d, sv) \in B
      /\ \A u \in Update : UpdateFrame(u) \in B
      /\ \A l \in 1 .. MaxEpoch : EpochFrame(l) \in B
  BY NoBounce
<1>d. <<>> \in Seq(P) /\ <<>> \in Seq(U) /\ <<>> \in Seq(B)
  OBVIOUS
<1>e. \A u \in P : UpdateFrame(u) \in U
  BY FrameTypes DEF OwnUpdate, OwnSync, UpdateFrame
<1>f. serverDoc \in Doc /\ serverDoc' \in Doc
  BY DEF TypeOK
<1>g. /\ Receives(x) => Tail(up[x]) = up'[x] /\ up[x] # <<>>
      /\ Delivers(x) => Tail(down[x]) = down'[x] /\ down[x] # <<>>
  BY DEF Receives, Delivers, TypeOK
<1> HIDE DEF P, U, B
<1>1. ASSUME SendMessage(x) PROVE pendingUpdates'[x] \in Seq(P) /\ up'[x] \in Seq(U) /\ down'[x] \in Seq(B)
  <2> DEFINE u == [full |-> {New(x)}, bare |-> {}, del |-> {}]
  <2>1. Grown
    BY <1>0, <1>1, MessageSent, EpochGrows, ChannelGrown DEF SendMessage, P, U, B
  <2>2. New(x) \notin doc[x].del
    BY <1>0, <1>1, MessageSent DEF WithdrawInv, SafeDocs, Withdrawn, Made
  <2>3. u \in P
    BY <1>1, <2>2, MessageSent DEF OwnUpdate, Update, P
  <2>4. Append(pendingUpdates[x], u) \in Seq(P) /\ Append(up[x], UpdateFrame(u)) \in Seq(U)
    BY <1>e, <2>1, <2>3, AppendType
  <2> QED BY <1>1, <2>1, <2>4 DEF SendMessage, SentNow, QueuedNow, New, TypeOK
<1>2. ASSUME Open(x) PROVE pendingUpdates'[x] \in Seq(P) /\ up'[x] \in Seq(U) /\ down'[x] \in Seq(B)
  BY <1>0, <1>2, <1>b, <1>d, FlushOwn DEF Open, TypeOK, U
<1>3. ASSUME LoseEarlyFrame(x)
      PROVE  pendingUpdates'[x] \in Seq(P) /\ up'[x] \in Seq(U) /\ down'[x] \in Seq(B)
  BY <1>3, <1>b, HeadTail DEF LoseEarlyFrame, TypeOK
<1>4. ASSUME Join(x) PROVE pendingUpdates'[x] \in Seq(P) /\ up'[x] \in Seq(U) /\ down'[x] \in Seq(B)
  BY <1>4, <1>b, GreetingOwn DEF Join, TypeOK, B
<1>5. ASSUME AnswerStep1(x)
      PROVE  pendingUpdates'[x] \in Seq(P) /\ up'[x] \in Seq(U) /\ down'[x] \in Seq(B)
  <2>1. Grown
    BY <1>5, <1>b DEF AnswerStep1
  <2>2. Step2(serverDoc, Head(up[x]).sv) \in B
    BY <1>5, <1>c, <1>f, ReceivesType, SyncFrameFields DEF AnswerStep1
  <2>3. Append(down[x], Step2(serverDoc, Head(up[x]).sv)) \in Seq(B)
    BY <2>1, <2>2, AppendType
  <2>4. down'[x] = Append(down[x], Step2(serverDoc, Head(up[x]).sv))
    BY <1>5 DEF AnswerStep1, TypeOK
  <2>5. up'[x] \in Seq(U)
    BY <1>5, <1>g, <2>1, HeadTail DEF AnswerStep1
  <2> QED BY <1>5, <2>1, <2>3, <2>4, <2>5 DEF AnswerStep1
<1>6. ASSUME NEW c \in Client, AcceptUpdate(c)
      PROVE  pendingUpdates'[x] \in Seq(P) /\ up'[x] \in Seq(U) /\ down'[x] \in Seq(B)
  <2>1. Grown
    BY <1>6, <1>b DEF AcceptUpdate
  <2>2. UpdateFrame(Delta(serverDoc, serverDoc')) \in B
    BY <1>c, <1>f, DeltaType
  <2>3. Append(down[x], UpdateFrame(Delta(serverDoc, serverDoc'))) \in Seq(B)
    BY <2>1, <2>2, AppendType
  <2>4. down'[x] \in Seq(B)
    BY <1>6, <2>1, <2>3 DEF AcceptUpdate, DocUpdated
  <2>5. up'[x] \in Seq(U)
    <3>1. CASE c = x
      BY <3>1, <1>6, <1>g, <2>1, HeadTail DEF AcceptUpdate
    <3>2. CASE c # x
      BY <3>2, <1>6, <2>1 DEF AcceptUpdate, Receives, TypeOK
    <3> QED BY <3>1, <3>2
  <2> QED BY <1>6, <2>1, <2>4, <2>5 DEF AcceptUpdate
<1>7. ASSUME RejectUpdate(x)
      PROVE  pendingUpdates'[x] \in Seq(P) /\ up'[x] \in Seq(U) /\ down'[x] \in Seq(B)
  <2>1. Grown
    BY <1>7, <1>b DEF RejectUpdate
  <2>2. down'[x] \in Seq(B)
    BY <1>0, <1>7, RefusalOwn DEF RejectUpdate, B
  <2> QED BY <1>7, <1>g, <2>1, <2>2, HeadTail DEF RejectUpdate
<1>8. ASSUME ResyncTimeout(x)
      PROVE  pendingUpdates'[x] \in Seq(P) /\ up'[x] \in Seq(U) /\ down'[x] \in Seq(B)
  <2>1. Grown
    BY <1>8, <1>b DEF ResyncTimeout
  <2>2. Append(down[x], Step1(serverDoc)) \in Seq(B)
    BY <2>1, <1>c, <1>f, AppendType
  <2> QED BY <1>8, <2>1, <2>2 DEF ResyncTimeout, TypeOK
<1>9. ASSUME ClientStep1(x)
      PROVE  pendingUpdates'[x] \in Seq(P) /\ up'[x] \in Seq(U) /\ down'[x] \in Seq(B)
  <2> DEFINE sv == Head(down[x]).sv
             u == EncodeDiff(doc[x], sv)
  <2>1. Grown
    BY <1>9, <1>b DEF ClientStep1
  <2>2. sv \in SUBSET Item /\ doc[x] \in Doc
    BY <1>9, DeliversType, ServerFrameFields DEF ClientStep1, TypeOK
  <2>3. u \in Update /\ Step2(doc[x], sv) \in SyncFrame
    BY <2>2, EncodeDiffType, FrameTypes
  <2>4. u.full \cup u.bare \subseteq doc[x].have /\ u.del \cup u.bare \subseteq doc[x].del
    BY <2>2 DEF EncodeDiff, Content, Deleted, Doc
  <2>5. {i \in u.full : i.by = x} \cap doc[x].del = {}
    BY <1>0, <2>4, OwnIntegrated DEF EncodeDiff, Content, Deleted
  <2>6. u \in OwnUpdate(x, doc[x], retractedIds[x])
    BY <2>3, <2>4, <2>5 DEF OwnUpdate
  <2>7. Step2(doc[x], sv) \in U
    BY <1>9, <2>3, <2>6 DEF ClientStep1, Step2, OwnSync, U
  <2>8. Append(up[x], Step2(doc[x], sv)) \in Seq(U)
    BY <2>1, <2>7, AppendType
  <2>9. up'[x] = up[x] \/ up'[x] = Append(up[x], Step2(doc[x], sv))
    BY <1>9 DEF ClientStep1, TypeOK
  <2>10. down'[x] \in Seq(B)
    BY <1>9, <1>g, <2>1, HeadTail DEF ClientStep1
  <2> QED BY <1>9, <2>1, <2>8, <2>9, <2>10 DEF ClientStep1
<1>10. ASSUME ClientUpdate(x)
       PROVE  pendingUpdates'[x] \in Seq(P) /\ up'[x] \in Seq(U) /\ down'[x] \in Seq(B)
  <2>1. {i \in doc'[x].del : i.by = x /\ i \notin doc[x].del} = {}
    BY <1>10, UpdateHeard, DeletedIsWithdrawn
  <2>2. Grown
    BY <1>0, <1>10, <2>1, UpdateHeard, EpochGrows, ChannelGrown DEF ClientUpdate, P, U, B
  <2> QED BY <1>10, <1>g, <2>2, HeadTail DEF ClientUpdate
<1>11. ASSUME ClientRejected(x)
       PROVE  pendingUpdates'[x] \in Seq(P) /\ up'[x] \in Seq(U) /\ down'[x] \in Seq(B)
  <2> DEFINE ids == Head(down[x]).ids
             retracted == Retractable(x, ids)
             deletion == [full |-> {}, bare |-> {}, del |-> retracted]
  <2>1. Grown
    BY <1>0, <1>11, RetractionMade, EpochGrows, ChannelGrown DEF P, U, B
  <2>2. deletion \in P
    BY <1>11, RetractionMade DEF OwnUpdate, Update, P
  <2>3. Append(up[x], UpdateFrame(deletion)) \in Seq(U)
    BY <1>e, <2>1, <2>2, AppendType
  <2>4. up'[x] \in Seq(U)
    BY <1>11, <2>1, <2>3 DEF ClientRejected, SentNow, TypeOK
  <2>5. pendingUpdates'[x] \in Seq(P)
    BY <1>11, <1>d, <2>1 DEF ClientRejected, TypeOK
  <2> QED BY <1>11, <1>g, <2>1, <2>4, <2>5, HeadTail DEF ClientRejected
<1>12. ASSUME ClientEpoch(x) \/ ClientIgnores(x)
       PROVE  pendingUpdates'[x] \in Seq(P) /\ up'[x] \in Seq(U) /\ down'[x] \in Seq(B)
  BY <1>12, <1>b, <1>g, HeadTail DEF ClientEpoch, ClientIgnores
<1>13. ASSUME Disconnect(x) \/ Rebuild(x)
       PROVE  pendingUpdates'[x] \in Seq(P) /\ up'[x] \in Seq(U) /\ down'[x] \in Seq(B)
  BY <1>13, <1>b, <1>d DEF Disconnect, Rebuild, ForgetSockets, TypeOK
<1>14. CASE Untouched(x)
  BY <1>14, <1>b DEF Untouched
<1>15. CASE RaiseEpoch
  <2>1. Grown
    BY <1>15, <1>b DEF RaiseEpoch
  <2>2. currentKeyId + 1 \in 1 .. MaxEpoch
    BY <1>15, BoundsAssumption DEF RaiseEpoch, TypeOK
  <2>3. Append(down[x], EpochFrame(currentKeyId + 1)) \in Seq(B)
    BY <1>c, <2>1, <2>2, AppendType
  <2> QED BY <1>15, <2>1, <2>3 DEF RaiseEpoch
<1>16. CASE Crash
  BY <1>16, <1>b, <1>d DEF Crash, ForgetSockets
<1>17. \A c \in Client : DeviceStep(c) => c = x \/ Untouched(x)
  BY OthersUntouched
<1>18. Persist \/ UNCHANGED vars => Untouched(x)
  BY QuietSteps
<1>19. DeviceStep(x) => pendingUpdates'[x] \in Seq(P) /\ up'[x] \in Seq(U) /\ down'[x] \in Seq(B)
  BY <1>1, <1>2, <1>3, <1>4, <1>5, <1>7, <1>8, <1>9, <1>10, <1>11, <1>12, <1>13
     DEF DeviceStep, ClientReceive
<1> QED BY <1>6, <1>14, <1>15, <1>16, <1>17, <1>18, <1>19, Steps

LEMMA OwnInvStep ==
  ASSUME TypeOK, TypeOK', WithdrawInv, HeldInv, OwnInv, [Next]_vars
  PROVE  OwnInv'
BY MadeStep, OwnStep, ChannelStep DEF OwnInv

LEMMA OwnInit == Init => OwnInv
<1> SUFFICES ASSUME Init PROVE OwnInv
  OBVIOUS
<1>1. Created = {}
  <2>1. \A i \in Item : i.by \in Client /\ i.clock \in Nat /\ i.clock > 0
    BY MaxSendAssumption DEF Item
  <2>2. \A i \in Item : ~(i.clock <= sent[i.by])
    BY <2>1 DEF Init
  <2> QED BY <2>2 DEF Created
<1>2. ASSUME NEW x \in Client PROVE Own(x) /\ Channel(x)
  <2>1. Own(x)
    BY <1>1 DEF Init, Own, EmptyDoc
  <2>2. /\ <<>> \in Seq(OwnUpdate(x, doc[x], retractedIds[x]))
        /\ <<>> \in Seq(OwnSync(x, doc[x], retractedIds[x]))
        /\ <<>> \in Seq(Bounce(x, doc[x], retractedIds[x], currentKeyId))
    OBVIOUS
  <2> QED BY <2>1, <2>2 DEF Init, Channel
<1> QED BY <1>1, <1>2 DEF Init, OwnInv, Made, EmptyDoc

LEMMA OwnAlways == Spec => [](WithdrawInv /\ HeldInv /\ OwnInv)
<1>1. Init => HeldInv
  <2>1. <<>> \in Seq(HeldServer({}, {}))
    OBVIOUS
  <2> QED BY <2>1 DEF Init, HeldInv, ServerHoldsForeign, EmptyDoc
<1>2. TypeOK /\ TypeOK' /\ HeldInv /\ [Next]_vars => HeldInv'
  BY HeldStep
<1>3. TypeOK /\ TypeOK' /\ WithdrawInv /\ HeldInv /\ OwnInv /\ [Next]_vars => OwnInv'
  BY OwnInvStep
<1> QED BY <1>1, <1>2, <1>3, TypeCorrect, WithdrawInit, WithdrawStep, OwnInit, PTL DEF Spec

\* A refusal of a device's own messages only is always repaired.
LEMMA OwnRepaired ==
  ASSUME TypeOK, OwnInv, NEW x \in Client, ClientRejected(x),
         \A i \in Head(down[x]).ids : i.by = x
  PROVE  Repaired(x, Head(down[x]).ids, Retractable(x, Head(down[x]).ids))
<1> DEFINE ids == Head(down[x]).ids
<1>1. Head(down[x]) \in Bounce(x, doc[x], retractedIds[x], currentKeyId)
  BY HeadTail DEF ClientRejected, Delivers, OwnInv, Channel
<1>2. /\ ids # {} /\ ids \subseteq doc[x].have
      /\ ids \cap doc[x].del \subseteq retractedIds[x]
  BY <1>1 DEF ClientRejected, Bounce
<1>3. ids \subseteq Integrated(doc[x])
  BY <1>2, OwnIntegrated DEF OwnInv
<1>4. \A i \in ids : i \in retractedIds[x] \/ i \in Retractable(x, ids)
  BY <1>2, <1>3 DEF Retractable, Live
<1> QED BY <1>2, <1>4 DEF Repaired

LEMMA RefusedStep ==
  ASSUME TypeOK, OwnInv, [Next]_vars, NEW x \in Client, stateRefused'[x], ~stateRefused[x]
  PROVE  \E i \in Head(down[x]).ids : i.by # x
<1> USE DEF deviceVars, serverVars
<1>1. ClientRejected(x)
  <2>1. \A c \in Client : DeviceStep(c) => c = x \/ Untouched(x)
    BY OthersUntouched
  <2>2. Persist \/ UNCHANGED vars => Untouched(x)
    BY QuietSteps
  <2>3. ~Untouched(x)
    BY DEF Untouched
  <2>4. RaiseEpoch \/ Crash \/ (\E c \in Client : AcceptUpdate(c)) => stateRefused' = stateRefused
    BY DEF RaiseEpoch, Crash, AcceptUpdate
  <2>5. DeviceStep(x)
    BY <2>1, <2>2, <2>3, <2>4, Steps
  <2>6. CASE SendMessage(x) \/ Open(x) \/ LoseEarlyFrame(x) \/ Join(x)
    BY <2>6 DEF SendMessage, Open, LoseEarlyFrame, Join
  <2>7. CASE AnswerStep1(x) \/ RejectUpdate(x) \/ ResyncTimeout(x)
    BY <2>7 DEF AnswerStep1, RejectUpdate, ResyncTimeout
  <2>8. CASE ClientStep1(x) \/ ClientUpdate(x) \/ ClientEpoch(x) \/ ClientIgnores(x)
    BY <2>8 DEF ClientStep1, ClientUpdate, ClientEpoch, ClientIgnores
  <2>9. CASE Disconnect(x) \/ Rebuild(x)
    BY <2>9 DEF Disconnect, Rebuild
  <2> QED BY <2>5, <2>6, <2>7, <2>8, <2>9 DEF DeviceStep, ClientReceive
<1>2. ~Repaired(x, Head(down[x]).ids, Retractable(x, Head(down[x]).ids))
  BY <1>1, Zenon DEF ClientRejected, TypeOK
<1> QED BY <1>1, <1>2, OwnRepaired

(***************************************************************************)
(* A device stops pushing its state only over another member's message: it *)
(* mends whatever it is refused of its own, for as many refusals of the    *)
(* same messages as there are, over reconnects, crashes and rebuilds.      *)
(***************************************************************************)
THEOREM OwnRefusalsAreRepaired == Spec => RefusedOnlyForOthers
<1>1. TypeOK /\ OwnInv /\ [Next]_vars =>
        [\A c \in Client : stateRefused'[c] /\ ~stateRefused[c] =>
           \E i \in Head(down[c]).ids : i.by # c]_vars
  BY RefusedStep
<1> QED BY <1>1, TypeCorrect, OwnAlways, PTL DEF Spec, RefusedOnlyForOthers

-----------------------------------------------------------------------------
(* Nothing is lost between a device and the server.                         *)
(*                                                                          *)
(* What the device has the server has, or a frame on its way brings it, or  *)
(* the device has been or will be asked for its state (Told).  What the     *)
(* server shows the device has, or a frame on its way brings it, or it is   *)
(* what AcceptUpdate leaves out (Heard).                                    *)

Bringing(i) == {f \in ServerFrame : CarriesUpdate(f) /\ i \in f.update.full \cup f.update.bare}

Deleting(i) == {f \in ServerFrame : CarriesUpdate(f) /\ i \in f.update.del \cup f.update.bare}

Asking == {f \in ServerFrame : f.type = "step1"}

Asked(x) == resyncTimer[x] \/ Has(down[x], Asking)

Covered(x) ==
  /\ \A i \in doc[x].have : i \in serverDoc.have \/ Has(up[x], Bringing(i))
  /\ \A i \in doc[x].del : i \in serverDoc.del \/ Has(up[x], Deleting(i))

Told(x) == x \in clients /\ ~stateRefused[x] => Asked(x) \/ Covered(x)

Heard(x) ==
  x \in clients =>
    /\ \A i \in Integrated(serverDoc) :
         i \in doc[x].have \/ i \in unheard[x] \/ Has(down[x], Bringing(i))
    /\ \A i \in Deleted(serverDoc) :
         i \in doc[x].del \/ i \in unheard[x] \/ Has(down[x], Deleting(i))

NoneUnheard == crashes = 0 => \A x \in Client : unheard[x] = {}

LEMMA UpPopped ==
  ASSUME TypeOK, NEW x \in Client, Receives(x), NEW F, Has(up[x], F)
  PROVE  Head(up[x]) \in F \/ Has(up'[x], F)
<1>1. up[x] \in Seq(SyncFrame) /\ up[x] # <<>> /\ up'[x] = Tail(up[x])
  BY DEF TypeOK, Receives
<1> QED BY <1>1, HasTail

LEMMA DownPopped ==
  ASSUME TypeOK, NEW x \in Client, Delivers(x), NEW F, Has(down[x], F)
  PROVE  Head(down[x]) \in F \/ Has(down'[x], F)
<1>1. down[x] \in Seq(ServerFrame) /\ down[x] # <<>> /\ down'[x] = Tail(down[x])
  BY DEF TypeOK, Delivers
<1> QED BY <1>1, HasTail

LEMMA UpAppended ==
  ASSUME TypeOK, NEW x \in Client, NEW e \in SyncFrame
  PROVE  \A F : Has(Append(up[x], e), F) <=> (Has(up[x], F) \/ e \in F)
<1>1. up[x] \in Seq(SyncFrame)
  BY DEF TypeOK
<1> QED BY <1>1, HasAppend

LEMMA DownAppended ==
  ASSUME TypeOK, NEW x \in Client, NEW e \in ServerFrame
  PROVE  \A F : Has(Append(down[x], e), F) <=> (Has(down[x], F) \/ e \in F)
<1>1. down[x] \in Seq(ServerFrame)
  BY DEF TypeOK
<1> QED BY <1>1, HasAppend

LEMMA HasConcat ==
  ASSUME NEW S, NEW s \in Seq(S), NEW t \in Seq(S), NEW F, Has(t, F)
  PROVE  Has(s \o t, F)
<1>1. /\ Len(s) \in Nat /\ Len(t) \in Nat /\ Len(s \o t) = Len(s) + Len(t)
      /\ \A n \in 1 .. Len(t) : (s \o t)[n + Len(s)] = t[n]
  OBVIOUS
<1>2. PICK k \in 1 .. Len(t) : t[k] \in F
  BY DEF Has
<1>3. k + Len(s) \in 1 .. Len(s \o t) /\ (s \o t)[k + Len(s)] \in F
  BY <1>1, <1>2
<1> QED BY <1>3 DEF Has

\* Who joins is asked for its state, and told all the server has.
LEMMA Greets ==
  ASSUME TypeOK
  PROVE  /\ Has(Greeting, Asking)
         /\ \A i \in serverDoc.have : Has(Greeting, Bringing(i))
         /\ \A i \in serverDoc.del : Has(Greeting, Deleting(i))
<1> DEFINE a == Step1(serverDoc)
           b == Step2(serverDoc, {})
           pre == IF currentKeyId > 0 THEN <<EpochFrame(currentKeyId)>> ELSE <<>>
<1>1. a \in ServerFrame /\ b \in ServerFrame
  BY FrameTypes DEF TypeOK
<1>2. pre \in Seq(ServerFrame)
  <2>1. currentKeyId > 0 => EpochFrame(currentKeyId) \in ServerFrame
    BY FrameTypes, BoundsAssumption DEF TypeOK
  <2> QED BY <2>1
<1>3. a \in Asking
  BY <1>1 DEF Asking, Step1
<1>4. ASSUME NEW i \in serverDoc.have PROVE b \in Bringing(i)
  BY <1>1, <1>4 DEF Bringing, Step2, CarriesUpdate, EncodeDiff, Content, TypeOK, Doc
<1>5. ASSUME NEW i \in serverDoc.del PROVE b \in Deleting(i)
  BY <1>1, <1>5 DEF Deleting, Step2, CarriesUpdate, EncodeDiff
<1>6. Greeting = pre \o <<a, b>>
  BY DEF Greeting
<1> HIDE DEF a, b, pre
<1>7. ASSUME NEW F, a \in F \/ b \in F PROVE Has(Greeting, F)
  <2>1. <<a, b>> \in Seq(ServerFrame)
    BY <1>1
  <2>2. /\ Len(<<a, b>>) = 2 /\ <<a, b>>[1] = a /\ <<a, b>>[2] = b
        /\ 1 \in 1 .. 2 /\ 2 \in 1 .. 2
    OBVIOUS
  <2>3. Has(<<a, b>>, F)
    BY <1>7, <2>2, Zenon DEF Has
  <2> QED BY <1>2, <1>6, <2>1, <2>3, HasConcat
<1> QED BY <1>3, <1>4, <1>5, <1>7

\* The server's doc has grown, and no frame that may matter was taken.
LEMMA ToldKept ==
  ASSUME TypeOK, OwnInv, NEW x \in Client, Told(x), x \in clients, ~stateRefused[x],
         serverDoc.have \subseteq serverDoc'.have, serverDoc.del \subseteq serverDoc'.del,
         doc'[x].have \subseteq doc[x].have \cup serverDoc.have,
         doc'[x].del \subseteq doc[x].del \cup serverDoc.del,
         Asked(x) => Asked(x)',
         \A F : Has(up[x], F) => Has(up'[x], F)
  PROVE  Asked(x)' \/ Covered(x)'
<1>1. CASE Asked(x)
  BY <1>1
<1>2. CASE Covered(x)
  BY <1>2 DEF Covered
<1> QED BY <1>1, <1>2 DEF Told

LEMMA ToldStep ==
  ASSUME TypeOK, TypeOK', HeldInv, OwnInv, [Next]_vars, NEW x \in Client, Told(x)
  PROVE  Told(x)'
<1> USE DEF deviceVars, serverVars
<1> SUFFICES ASSUME x \in clients', ~stateRefused'[x] PROVE Asked(x)' \/ Covered(x)'
  BY DEF Told
<1>a. Own(x) /\ Channel(x)
  BY DEF OwnInv
<1>b. \A e \in ServerFrame : down'[x] = Append(down[x], e) =>
        /\ e \in Asking => Has(down'[x], Asking)
        /\ Has(down[x], Asking) => Has(down'[x], Asking)
  BY DownAppended
<1>1. ASSUME SendMessage(x) PROVE Asked(x)' \/ Covered(x)'
  <2> DEFINE u == [full |-> {New(x)}, bare |-> {}, del |-> {}]
  <2>1. x \in clients /\ ~stateRefused[x] /\ status[x] = "connected"
    BY <1>1, <1>a DEF SendMessage, Own
  <2>2. UpdateFrame(u) \in SyncFrame /\ UpdateFrame(u) \in ServerFrame
    BY <1>1, MessageSent, FrameTypes DEF Update
  <2>3. up'[x] = Append(up[x], UpdateFrame(u))
    BY <1>1, <2>1 DEF SendMessage, SentNow, New, TypeOK
  <2>4. UpdateFrame(u) \in Bringing(New(x))
    BY <2>2 DEF Bringing, UpdateFrame, CarriesUpdate
  <2>5. \A F : Has(up'[x], F) <=> (Has(up[x], F) \/ UpdateFrame(u) \in F)
    BY <2>2, <2>3, UpAppended
  <2>6. Asked(x) => Asked(x)'
    BY <1>1 DEF SendMessage, Asked
  <2>7. Covered(x) => Covered(x)'
    <3>1. /\ serverDoc' = serverDoc /\ doc'[x].del = doc[x].del
          /\ doc'[x].have = doc[x].have \cup {New(x)}
      BY <1>1, MessageSent DEF SendMessage
    <3> HIDE DEF u
    <3> QED BY <2>4, <2>5, <3>1 DEF Covered
  <2> QED BY <2>1, <2>6, <2>7 DEF Told
<1>2. ASSUME Open(x) \/ LoseEarlyFrame(x) PROVE FALSE
  BY <1>2, <1>a DEF Open, LoseEarlyFrame, Own
<1>3. ASSUME Join(x) PROVE Asked(x)' \/ Covered(x)'
  BY <1>3, Greets DEF Join, Asked, TypeOK
<1>4. ASSUME AnswerStep1(x) PROVE Asked(x)' \/ Covered(x)'
  <2> DEFINE f == Head(up[x])
  <2>1. f \in SyncFrame /\ Step2(serverDoc, f.sv) \in ServerFrame
    BY <1>4, ReceivesType, SyncFrameFields, FrameTypes DEF AnswerStep1, TypeOK
  <2>2. Asked(x) => Asked(x)'
    BY <1>4, <1>b, <2>1 DEF AnswerStep1, Asked, TypeOK
  <2>3. \A i : f \notin Bringing(i) /\ f \notin Deleting(i)
    BY <1>4 DEF AnswerStep1, Bringing, Deleting, CarriesUpdate
  <2>4. Covered(x) => Covered(x)'
    <3>1. \A F : Has(up[x], F) => f \in F \/ Has(up'[x], F)
      BY <1>4, UpPopped DEF AnswerStep1
    <3> QED BY <1>4, <2>3, <3>1 DEF AnswerStep1, Covered
  <2> QED BY <1>4, <2>2, <2>4 DEF AnswerStep1, Told
<1>5. ASSUME NEW c \in Client, AcceptUpdate(c) PROVE Asked(x)' \/ Covered(x)'
  <2> DEFINE f == Head(up[c])
  <2>1. /\ x \in clients /\ ~stateRefused[x] /\ doc' = doc
        /\ serverDoc'.have = serverDoc.have \cup f.update.full \cup f.update.bare
        /\ serverDoc'.del = serverDoc.del \cup f.update.bare \cup f.update.del
    BY <1>5, UpdateReceived DEF AcceptUpdate
  <2>2. Asked(x) => Asked(x)'
    <3>1. UpdateFrame(Delta(serverDoc, serverDoc')) \in ServerFrame
      BY DeltaType, FrameTypes DEF TypeOK
    <3>2. down'[x] = down[x] \/ down'[x] = Append(down[x], UpdateFrame(Delta(serverDoc, serverDoc')))
      BY <1>5 DEF AcceptUpdate, DocUpdated
    <3> QED BY <1>5, <1>b, <3>1, <3>2 DEF AcceptUpdate, Asked
  <2>3. CASE c # x
    <3>1. up'[x] = up[x]
      BY <1>5, <2>3 DEF AcceptUpdate, Receives, TypeOK
    <3> QED BY <2>1, <2>2, <3>1, ToldKept
  <2>4. CASE c = x
    <3>1. \A F : Has(up[x], F) => f \in F \/ Has(up'[x], F)
      BY <1>5, <2>4, UpPopped DEF AcceptUpdate
    <3>2. \A i : /\ f \in Bringing(i) => i \in serverDoc'.have
                 /\ f \in Deleting(i) => i \in serverDoc'.del
      BY <2>1 DEF Bringing, Deleting
    <3>3. Covered(x) => Covered(x)'
      BY <2>1, <3>1, <3>2 DEF Covered
    <3> QED BY <2>1, <2>2, <3>3 DEF Told
  <2> QED BY <2>3, <2>4
<1>6. ASSUME RejectUpdate(x) PROVE Asked(x)' \/ Covered(x)'
  <2> DEFINE f == Head(up[x])
             e == RejectedFrame(currentKeyId, Refused(f))
             notice == Append(down[x], e)
  <2>1. CASE Repeated(x, f)
    <3>1. resyncTimer'[x]
      BY <1>6, <2>1 DEF RejectUpdate, TypeOK
    <3> QED BY <3>1 DEF Asked
  <2>2. CASE ~Repeated(x, f)
    <3>1. down'[x] = Append(notice, Step1(serverDoc))
      BY <1>6, <2>2 DEF RejectUpdate, Refusal, TypeOK
    <3>2. e \in ServerFrame
      BY <1>6, <1>a, RefusalOwn DEF Bounce
    <3>3. Step1(serverDoc) \in ServerFrame /\ Step1(serverDoc) \in Asking
      BY FrameTypes DEF Asking, Step1, TypeOK
    <3>4. notice \in Seq(ServerFrame)
      BY <3>2, AppendType DEF TypeOK
    <3> HIDE DEF e, notice
    <3>5. Has(Append(notice, Step1(serverDoc)), Asking)
      BY <3>3, <3>4, HasAppend
    <3>6. Has(down'[x], Asking)
      BY <3>1, <3>5
    <3> QED BY <3>6 DEF Asked
  <2> QED BY <2>1, <2>2
<1>7. ASSUME ResyncTimeout(x) PROVE Asked(x)' \/ Covered(x)'
  <2>1. Step1(serverDoc) \in ServerFrame /\ Step1(serverDoc) \in Asking
    BY FrameTypes DEF Asking, Step1, TypeOK
  <2>2. down'[x] = Append(down[x], Step1(serverDoc))
    BY <1>7 DEF ResyncTimeout, TypeOK
  <2> QED BY <1>b, <2>1, <2>2 DEF Asked
<1>8. ASSUME ClientStep1(x) PROVE Asked(x)' \/ Covered(x)'
  <2> DEFINE sv == Head(down[x]).sv
             e == Step2(doc[x], sv)
  <2>1. sv \in SUBSET Item /\ sv \subseteq serverDoc.have
    <3>1. Head(down[x]) \in HeldServer(serverDoc.have, serverDoc.del)
      BY <1>8, HeadTail DEF ClientStep1, Delivers, HeldInv
    <3> QED BY <1>8, <3>1, ServerFrameFields DEF ClientStep1, HeldServer
  <2>2. e \in SyncFrame /\ e \in ServerFrame
    BY <2>1, FrameTypes DEF TypeOK
  <2>3. up'[x] = Append(up[x], e)
    BY <1>8 DEF ClientStep1, TypeOK
  <2>4. \A F : e \in F => Has(up'[x], F)
    BY <2>2, <2>3, UpAppended
  <2>5. ASSUME NEW i \in doc[x].have PROVE i \in serverDoc.have \/ e \in Bringing(i)
    BY <2>1, <2>2, <2>5 DEF Bringing, Step2, CarriesUpdate, EncodeDiff, Content
  <2>6. ASSUME NEW i \in doc[x].del PROVE e \in Deleting(i)
    BY <2>2, <2>6 DEF Deleting, Step2, CarriesUpdate, EncodeDiff
  <2>7. serverDoc' = serverDoc /\ doc' = doc
    BY <1>8 DEF ClientStep1
  <2> HIDE DEF e, sv
  <2>8. Covered(x)'
    BY <2>4, <2>5, <2>6, <2>7 DEF Covered
  <2> QED BY <2>8
<1>9. ASSUME ClientUpdate(x) PROVE Asked(x)' \/ Covered(x)'
  <2>1. Head(down[x]) \notin Asking
    BY <1>9 DEF ClientUpdate, CarriesUpdate, Asking
  <2>2. Asked(x) => Asked(x)'
    BY <1>9, <2>1, DownPopped DEF ClientUpdate, Asked
  <2> QED BY <1>9, <2>2, UpdateHeard, ToldKept DEF ClientUpdate
<1>10. ASSUME ClientRejected(x) PROVE Asked(x)' \/ Covered(x)'
  <2> DEFINE retracted == Retractable(x, Head(down[x]).ids)
             u == [full |-> {}, bare |-> {}, del |-> retracted]
  <2>1. Head(down[x]) \notin Asking
    BY <1>10 DEF ClientRejected, Asking
  <2>2. Asked(x) => Asked(x)'
    BY <1>10, <2>1, DownPopped DEF ClientRejected, Asked
  <2>3. x \in clients /\ ~stateRefused[x] /\ status[x] = "connected"
    <3>1. ~stateRefused[x]
      BY <1>10, Zenon DEF ClientRejected, TypeOK
    <3> QED BY <1>10, <1>a, <3>1 DEF ClientRejected, Own
  <2>4. UpdateFrame(u) \in SyncFrame /\ UpdateFrame(u) \in ServerFrame
    BY <1>10, RetractionMade, FrameTypes DEF Update
  <2>5. retracted # {} => up'[x] = Append(up[x], UpdateFrame(u))
    BY <1>10, <2>3 DEF ClientRejected, SentNow, TypeOK
  <2>6. /\ \A F : Has(up[x], F) => Has(up'[x], F)
        /\ \A F : retracted # {} /\ UpdateFrame(u) \in F => Has(up'[x], F)
    <3>1. CASE retracted = {}
      BY <1>10, <3>1 DEF ClientRejected
    <3>2. CASE retracted # {}
      <4> HIDE DEF u, retracted
      <4>1. \A F : Has(Append(up[x], UpdateFrame(u)), F)
                     <=> (Has(up[x], F) \/ UpdateFrame(u) \in F)
        BY <2>4, UpAppended
      <4> QED BY <2>5, <3>2, <4>1
    <3> QED BY <3>1, <3>2
  <2>7. \A i \in retracted : UpdateFrame(u) \in Deleting(i)
    BY <2>4 DEF Deleting, UpdateFrame, CarriesUpdate
  <2>8. \A i \in retracted : Has(up'[x], Deleting(i))
    BY <2>6, <2>7
  <2>9. Covered(x) => Covered(x)'
    <3>1. /\ serverDoc' = serverDoc /\ doc'[x].have = doc[x].have
          /\ doc'[x].del = doc[x].del \cup retracted
      BY <1>10, RetractionMade DEF ClientRejected
    <3> HIDE DEF retracted
    <3> QED BY <2>6, <2>8, <3>1 DEF Covered
  <2> QED BY <2>2, <2>3, <2>9 DEF Told
<1>11. ASSUME ClientEpoch(x) \/ ClientIgnores(x) PROVE Asked(x)' \/ Covered(x)'
  <2>1. Head(down[x]) \notin Asking
    BY <1>11 DEF ClientEpoch, ClientIgnores, Asking
  <2>2. Asked(x) => Asked(x)'
    BY <1>11, <2>1, DownPopped DEF ClientEpoch, ClientIgnores, Asked
  <2>3. Covered(x) => Covered(x)'
    BY <1>11 DEF ClientEpoch, ClientIgnores, Covered
  <2> QED BY <1>11, <2>2, <2>3 DEF ClientEpoch, ClientIgnores, Told
<1>12. ASSUME Disconnect(x) \/ Rebuild(x) \/ Crash PROVE FALSE
  BY <1>12 DEF Disconnect, Rebuild, Crash, ForgetSockets
<1>13. CASE Untouched(x)
  BY <1>13 DEF Untouched, Told, Asked, Covered
<1>14. CASE RaiseEpoch
  <2>1. EpochFrame(currentKeyId + 1) \in ServerFrame
    BY <1>14, FrameTypes, BoundsAssumption DEF RaiseEpoch, TypeOK
  <2>2. Asked(x) => Asked(x)'
    BY <1>14, <1>b, <2>1 DEF RaiseEpoch, Asked
  <2>3. Covered(x) => Covered(x)'
    BY <1>14 DEF RaiseEpoch, Covered
  <2> QED BY <1>14, <2>2, <2>3 DEF RaiseEpoch, Told
<1>15. \A c \in Client : DeviceStep(c) => c = x \/ Untouched(x)
  BY OthersUntouched
<1>16. Persist \/ UNCHANGED vars => Untouched(x)
  BY QuietSteps
<1>17. DeviceStep(x) => Asked(x)' \/ Covered(x)'
  BY <1>1, <1>2, <1>3, <1>4, <1>6, <1>7, <1>8, <1>9, <1>10, <1>11, <1>12
     DEF DeviceStep, ClientReceive
<1> QED BY <1>5, <1>12, <1>13, <1>14, <1>15, <1>16, <1>17, Steps

\* The server shows no more than before, and no frame that may matter was taken.
LEMMA HeardKept ==
  ASSUME NEW x \in Client, Heard(x), x \in clients, serverDoc' = serverDoc,
         doc[x].have \subseteq doc'[x].have, doc[x].del \subseteq doc'[x].del,
         unheard'[x] = unheard[x],
         \A i : /\ Has(down[x], Bringing(i)) => Has(down'[x], Bringing(i))
                /\ Has(down[x], Deleting(i)) => Has(down'[x], Deleting(i))
  PROVE  Heard(x)'
BY DEF Heard

\* What device x is not told of its own update it has, or it is unheard.
LEMMA AcceptedOwn ==
  ASSUME TypeOK, WithdrawInv, OwnInv, NEW x \in Client, AcceptUpdate(x), NEW i \in Item
  PROVE  /\ i \in Integrated(serverDoc') \ Integrated(serverDoc) =>
              i \in doc[x].have \/ i \in unheard'[x]
         /\ i \in Deleted(serverDoc') \ Deleted(serverDoc) =>
              i \in doc[x].del \/ i \in unheard'[x]
<1> DEFINE u == Head(up[x]).update
<1>1. /\ u.full \cup u.bare \subseteq doc[x].have /\ u.del \cup u.bare \subseteq doc[x].del
      /\ serverDoc'.have = serverDoc.have \cup u.full \cup u.bare
      /\ serverDoc'.del = serverDoc.del \cup u.bare \cup u.del
      /\ serverDoc' \in Doc
  BY UpdateReceived DEF OwnUpdate
<1>2. unheard'[x] = unheard[x] \cup Adopted(x, u, serverDoc, serverDoc')
  BY DEF AcceptUpdate, TypeOK
<1>3. ASSUME i \in Integrated(serverDoc'), i \notin Integrated(serverDoc),
             i \notin u.full \cup u.bare, i.by # x
      PROVE  i \in unheard'[x]
  BY <1>2, <1>3 DEF Adopted
<1>4. ASSUME i \in Integrated(serverDoc'), i \notin u.full \cup u.bare, i.by = x
      PROVE  i \in doc[x].have
  <2>1. i \in serverDoc.have
    BY <1>1, <1>4 DEF Integrated, Contiguous
  <2> QED BY <1>4, <2>1 DEF OwnInv, Made, Own
<1>5. ASSUME i \in Deleted(serverDoc'), i \notin Deleted(serverDoc)
      PROVE  i \in doc[x].del \/ i \in unheard'[x]
  <2>1. CASE i \in u.bare \cup u.del
    BY <1>1, <2>1
  <2>2. CASE i \notin u.bare \cup u.del
    <3>1. i \in serverDoc.del /\ i \in Integrated(serverDoc') /\ i \notin Integrated(serverDoc)
      BY <1>1, <1>5, <2>2 DEF Deleted
    <3>2. i \in plain /\ i \in doc[i.by].del /\ i.by \in Client
      BY <3>1, DeletedIsWithdrawn DEF Item
    <3>3. i \notin u.full
      <4>1. currentKeyId > 0
        BY <3>2 DEF OwnInv, Own
      <4> QED BY <3>2, <4>1 DEF AcceptUpdate, Refused, Unenveloped
    <3> QED BY <1>3, <2>2, <3>1, <3>2, <3>3
  <2> QED BY <2>1, <2>2
<1> QED BY <1>1, <1>3, <1>4, <1>5

LEMMA HeardStep ==
  ASSUME TypeOK, TypeOK', WithdrawInv, HeldInv, OwnInv, [Next]_vars, NEW x \in Client, Heard(x)
  PROVE  Heard(x)'
<1> USE DEF deviceVars, serverVars
<1>a. \A e \in ServerFrame : down'[x] = Append(down[x], e) =>
        \A F : Has(down'[x], F) <=> (Has(down[x], F) \/ e \in F)
  BY DownAppended
<1>b. \A i : Bringing(i) \cup Deleting(i) \subseteq {f \in ServerFrame : CarriesUpdate(f)}
  BY DEF Bringing, Deleting
<1>c. ASSUME Delivers(x), ~CarriesUpdate(Head(down[x]))
      PROVE  \A i : /\ Has(down[x], Bringing(i)) => Has(down'[x], Bringing(i))
                    /\ Has(down[x], Deleting(i)) => Has(down'[x], Deleting(i))
  <2>1. \A F : Has(down[x], F) => Head(down[x]) \in F \/ Has(down'[x], F)
    BY <1>c, DownPopped
  <2> QED BY <1>b, <1>c, <2>1
<1>d. x \notin clients' => Heard(x)'
  BY DEF Heard
<1>1. ASSUME SendMessage(x), x \in clients PROVE Heard(x)'
  BY <1>1, MessageSent, HeardKept DEF SendMessage
<1>2. ASSUME Open(x) \/ LoseEarlyFrame(x), x \in clients PROVE Heard(x)'
  BY <1>2, HeardKept DEF Open, LoseEarlyFrame
<1>3. ASSUME Join(x) PROVE Heard(x)'
  <2>1. serverDoc' = serverDoc /\ down'[x] = Greeting
    BY <1>3 DEF Join, TypeOK
  <2>2. Integrated(serverDoc) \subseteq serverDoc.have /\ Deleted(serverDoc) \subseteq serverDoc.del
    BY DEF Integrated, Deleted, Contiguous
  <2> QED BY <2>1, <2>2, Greets DEF Heard
<1>4. ASSUME AnswerStep1(x) PROVE Heard(x)'
  <2> DEFINE e == Step2(serverDoc, Head(up[x]).sv)
  <2>1. e \in ServerFrame
    BY <1>4, ReceivesType, SyncFrameFields, FrameTypes DEF AnswerStep1, TypeOK
  <2>2. down'[x] = Append(down[x], e)
    BY <1>4 DEF AnswerStep1, TypeOK
  <2>3. \A F : Has(down[x], F) => Has(down'[x], F)
    BY <1>a, <2>1, <2>2
  <2> QED BY <1>4, <2>3, HeardKept DEF AnswerStep1, Receives
<1>5. ASSUME NEW c \in Client, AcceptUpdate(c), c # x, x \in clients PROVE Heard(x)'
  <2> DEFINE e == UpdateFrame(Delta(serverDoc, serverDoc'))
  <2>1. /\ doc' = doc /\ unheard'[x] = unheard[x]
        /\ serverDoc \in Doc /\ serverDoc' \in Doc
    BY <1>5 DEF AcceptUpdate, TypeOK
  <2>2. CASE NoChange(serverDoc, serverDoc')
    <3>1. /\ down' = down /\ Integrated(serverDoc') = Integrated(serverDoc)
          /\ Deleted(serverDoc') = Deleted(serverDoc)
      BY <1>5, <2>2 DEF AcceptUpdate, DocUpdated, NoChange
    <3> QED BY <1>5, <2>1, <3>1 DEF Heard, AcceptUpdate
  <2>3. CASE ~NoChange(serverDoc, serverDoc')
    <3>1. down'[x] = Append(down[x], e)
      BY <1>5, <2>3 DEF AcceptUpdate, DocUpdated
    <3>2. e \in ServerFrame
      BY <2>1, DeltaType, FrameTypes
    <3>3. \A i \in Integrated(serverDoc') \ Integrated(serverDoc) : e \in Bringing(i)
      BY <3>2 DEF Bringing, CarriesUpdate, UpdateFrame, Delta, Live, Deleted
    <3>4. \A i \in Deleted(serverDoc') \ Deleted(serverDoc) : e \in Deleting(i)
      BY <3>2 DEF Deleting, CarriesUpdate, UpdateFrame, Delta
    <3> HIDE DEF e
    <3>5. \A F : Has(down'[x], F) <=> (Has(down[x], F) \/ e \in F)
      BY <1>a, <3>1, <3>2
    <3> QED BY <1>5, <2>1, <3>3, <3>4, <3>5 DEF Heard
  <2> QED BY <2>2, <2>3
<1>6. ASSUME AcceptUpdate(x) PROVE Heard(x)'
  <2>1. /\ doc' = doc /\ down'[x] = down[x] /\ unheard[x] \subseteq unheard'[x] /\ x \in clients
    BY <1>6 DEF AcceptUpdate, DocUpdated, Receives, TypeOK
  <2>2. Integrated(serverDoc') \subseteq Item /\ Deleted(serverDoc') \subseteq Item
    BY DEF TypeOK, Doc, Integrated, Deleted, Contiguous
  <2> QED BY <1>6, <2>1, <2>2, AcceptedOwn DEF Heard
<1>7. ASSUME RejectUpdate(x) PROVE Heard(x)'
  <2> DEFINE r == RejectedFrame(currentKeyId, Refused(Head(up[x])))
             notice == Append(down[x], r)
  <2>1. r \in ServerFrame /\ Step1(serverDoc) \in ServerFrame
    BY <1>7, RefusalOwn, FrameTypes DEF OwnInv, Bounce, TypeOK
  <2>2. notice \in Seq(ServerFrame)
    BY <2>1, AppendType DEF TypeOK
  <2>3. down'[x] = notice \/ down'[x] = Append(notice, Step1(serverDoc))
    BY <1>7 DEF RejectUpdate, Refusal, TypeOK
  <2> HIDE DEF r
  <2>4. \A F : Has(down[x], F) => Has(notice, F)
    BY <2>1, DownAppended
  <2> HIDE DEF notice
  <2>5. \A F : Has(notice, F) => Has(Append(notice, Step1(serverDoc)), F)
    BY <2>1, <2>2, HasAppend
  <2>6. \A F : Has(down[x], F) => Has(down'[x], F)
    BY <2>3, <2>4, <2>5
  <2> QED BY <1>7, <2>6, HeardKept DEF RejectUpdate, Receives
<1>8. ASSUME ResyncTimeout(x), x \in clients PROVE Heard(x)'
  <2>1. Step1(serverDoc) \in ServerFrame
    BY FrameTypes DEF TypeOK
  <2>2. down'[x] = Append(down[x], Step1(serverDoc))
    BY <1>8 DEF ResyncTimeout, TypeOK
  <2>3. \A F : Has(down[x], F) => Has(down'[x], F)
    BY <1>a, <2>1, <2>2
  <2> QED BY <1>8, <2>3, HeardKept DEF ResyncTimeout
<1>9. ASSUME ClientStep1(x), x \in clients PROVE Heard(x)'
  <2>1. ~CarriesUpdate(Head(down[x]))
    BY <1>9 DEF ClientStep1, CarriesUpdate
  <2> QED BY <1>9, <1>c, <2>1, HeardKept DEF ClientStep1
<1>10. ASSUME ClientUpdate(x), x \in clients PROVE Heard(x)'
  <2> DEFINE f == Head(down[x])
  <2>1. \A F : Has(down[x], F) => f \in F \/ Has(down'[x], F)
    BY <1>10, DownPopped DEF ClientUpdate
  <2>2. /\ doc'[x].have = doc[x].have \cup f.update.full \cup f.update.bare
        /\ doc'[x].del = doc[x].del \cup f.update.bare \cup f.update.del
    <3>1. doc'[x] = ApplyUpdate(doc[x], f.update)
      BY <1>10, UpdateHeard
    <3> QED BY <3>1 DEF ApplyUpdate
  <2>3. \A i : /\ f \in Bringing(i) => i \in doc'[x].have
               /\ f \in Deleting(i) => i \in doc'[x].del
    BY <2>2 DEF Bringing, Deleting
  <2>4. serverDoc' = serverDoc /\ unheard' = unheard
    BY <1>10 DEF ClientUpdate
  <2> QED BY <1>10, <2>1, <2>2, <2>3, <2>4 DEF Heard
<1>11. ASSUME ClientRejected(x), x \in clients PROVE Heard(x)'
  <2>1. ~CarriesUpdate(Head(down[x]))
    BY <1>11 DEF ClientRejected, CarriesUpdate
  <2>2. doc[x].have \subseteq doc'[x].have /\ doc[x].del \subseteq doc'[x].del
    BY <1>11, RetractionMade
  <2> QED BY <1>11, <1>c, <2>1, <2>2, HeardKept DEF ClientRejected
<1>12. ASSUME ClientEpoch(x) \/ ClientIgnores(x), x \in clients PROVE Heard(x)'
  <2>1. ~CarriesUpdate(Head(down[x]))
    BY <1>12 DEF ClientEpoch, ClientIgnores, CarriesUpdate
  <2> QED BY <1>12, <1>c, <2>1, HeardKept DEF ClientEpoch, ClientIgnores
<1>13. ASSUME Disconnect(x) \/ Rebuild(x) \/ Crash PROVE x \notin clients'
  BY <1>13 DEF Disconnect, Rebuild, Crash, ForgetSockets
<1>14. CASE Untouched(x)
  BY <1>14 DEF Untouched, Heard
<1>15. ASSUME RaiseEpoch, x \in clients PROVE Heard(x)'
  <2>1. EpochFrame(currentKeyId + 1) \in ServerFrame
    BY <1>15, FrameTypes, BoundsAssumption DEF RaiseEpoch, TypeOK
  <2>2. down'[x] = Append(down[x], EpochFrame(currentKeyId + 1))
    BY <1>15 DEF RaiseEpoch
  <2>3. \A F : Has(down[x], F) => Has(down'[x], F)
    BY <1>a, <2>1, <2>2
  <2> QED BY <1>15, <2>3, HeardKept DEF RaiseEpoch
<1>16. \A c \in Client : DeviceStep(c) => c = x \/ Untouched(x)
  BY OthersUntouched
<1>17. Persist \/ UNCHANGED vars => Untouched(x)
  BY QuietSteps
<1>18. DeviceStep(x) => Heard(x)'
  <2>1. DeviceStep(x) /\ ~Join(x) => clients' \subseteq clients
    BY DEF DeviceStep, ClientReceive, SendMessage, Open, LoseEarlyFrame, AnswerStep1,
           RejectUpdate, ResyncTimeout, ClientStep1, ClientUpdate, ClientRejected,
           ClientEpoch, ClientIgnores, Disconnect, Rebuild, ForgetSockets
  <2> QED
    BY <1>d, <1>1, <1>2, <1>3, <1>4, <1>7, <1>8, <1>9, <1>10, <1>11, <1>12, <1>13, <2>1
       DEF DeviceStep, ClientReceive
<1>19. (RaiseEpoch \/ \E c \in Client : AcceptUpdate(c)) => clients' = clients
  BY DEF RaiseEpoch, AcceptUpdate
<1> QED BY <1>d, <1>5, <1>6, <1>13, <1>14, <1>15, <1>16, <1>17, <1>18, <1>19, Steps

\* Before a crash a message parked at the server waits for one that its author
\* alone can bring.
LEMMA NoneUnheardStep ==
  ASSUME TypeOK, HeldInv, OwnInv, NoneUnheard, [Next]_vars
  PROVE  NoneUnheard'
<1> USE DEF deviceVars, serverVars
<1>0. SUFFICES ASSUME crashes' = 0, NEW x \in Client PROVE unheard'[x] = {}
  BY DEF NoneUnheard
<1>1. crashes = 0 /\ ~Crash /\ unheard[x] = {}
  BY <1>0, CrashesStay DEF NoneUnheard
<1>2. ASSUME NEW c \in Client, AcceptUpdate(c) PROVE unheard'[x] = {}
  <2> DEFINE u == Head(up[c]).update
  <2>1. /\ u.full \cup u.bare \subseteq doc[c].have
        /\ serverDoc'.have = serverDoc.have \cup u.full \cup u.bare
    BY <1>2, UpdateReceived DEF OwnUpdate
  <2>2. ASSUME NEW i \in Adopted(c, u, serverDoc, serverDoc') PROVE FALSE
    <3>1. /\ i \in serverDoc'.have /\ Earlier(i) \subseteq serverDoc'.have
          /\ i \notin u.full \cup u.bare /\ i.by # c
          /\ ~(i \in serverDoc.have /\ Earlier(i) \subseteq serverDoc.have)
      BY <2>2 DEF Adopted, Integrated, Contiguous
    <3>2. PICK j \in Earlier(i) : j \notin serverDoc.have
      BY <2>1, <3>1
    <3>3. j \in doc[c].have /\ j.by # c
      BY <2>1, <3>1, <3>2 DEF Earlier
    <3> QED BY <1>1, <3>2, <3>3 DEF HeldInv, ServerHoldsForeign
  <2>3. unheard'[x] = unheard[x] \/ unheard'[x] = unheard[x] \cup Adopted(c, u, serverDoc, serverDoc')
    BY <1>2 DEF AcceptUpdate, TypeOK
  <2> HIDE DEF u
  <2> QED BY <1>1, <2>2, <2>3
<1>3. ASSUME NEW c \in Client, Disconnect(c) \/ Rebuild(c) PROVE unheard'[x] = {}
  BY <1>1, <1>3 DEF Disconnect, Rebuild, ForgetSockets
<1>4. CASE unheard' = unheard
  BY <1>1, <1>4
<1> QED BY <1>1, <1>2, <1>3, <1>4, NextTouches DEF Touched

\* Of every device, on top of what it sends being its own.
LossInv == NoneUnheard /\ \A x \in Client : Told(x) /\ Heard(x)

LEMMA LossInit == Init => LossInv
BY DEF Init, LossInv, NoneUnheard, Told, Heard

LEMMA LossStep ==
  ASSUME TypeOK, TypeOK', WithdrawInv, HeldInv, OwnInv, LossInv, [Next]_vars
  PROVE  LossInv'
BY NoneUnheardStep, ToldStep, HeardStep DEF LossInv

\* Nothing under way: the device's doc and the server's hold the same.
LEMMA QuietAgrees ==
  ASSUME TypeOK, LossInv, NEW x \in Client, Quiet(x)
  PROVE  Agrees(x)
<1>1. \A F : ~Has(up[x], F) /\ ~Has(down[x], F)
  BY DEF Quiet, Has
<1>2. doc[x].have \subseteq serverDoc.have /\ doc[x].del \subseteq serverDoc.del
  BY <1>1 DEF LossInv, Told, Quiet, Asked, Covered
<1>3. /\ \A i \in Integrated(serverDoc) : i \in doc[x].have \/ i \in unheard[x]
      /\ \A i \in Deleted(serverDoc) : i \in doc[x].del \/ i \in unheard[x]
  BY <1>1 DEF LossInv, Heard, Quiet
<1>4. doc[x] \in Doc /\ serverDoc \in Doc
  BY DEF TypeOK
<1>5. Integrated(doc[x]) \subseteq Integrated(serverDoc)
  BY <1>2, <1>4, ContiguousMonotone DEF Integrated, Doc
<1>6. ASSUME NEW i \in Integrated(serverDoc) PROVE i \in Integrated(doc[x]) \cup Behind(x)
  <2>1. /\ i \in Item /\ i \in serverDoc.have /\ Earlier(i) \subseteq serverDoc.have
        /\ Earlier(i) \subseteq Item
    BY <1>4, <1>6 DEF Integrated, Contiguous, Doc, Earlier
  <2>2. \A j \in Earlier(i) : j \in Integrated(serverDoc)
    <3>1. \A j \in Earlier(i) : Earlier(j) \subseteq Earlier(i)
      BY <2>1, MaxSendAssumption DEF Earlier, Item
    <3> QED BY <2>1, <3>1 DEF Integrated, Contiguous
  <2>3. CASE ({i} \cup Earlier(i)) \cap unheard[x] # {}
    BY <2>1, <2>3 DEF Behind
  <2>4. CASE ({i} \cup Earlier(i)) \cap unheard[x] = {}
    <3>1. {i} \cup Earlier(i) \subseteq doc[x].have
      BY <1>3, <1>6, <2>2, <2>4
    <3> QED BY <3>1 DEF Integrated, Contiguous
  <2> QED BY <2>3, <2>4
<1>7. ASSUME NEW i \in Deleted(serverDoc) PROVE i \in Deleted(doc[x]) \cup Behind(x)
  <2>1. i \in Integrated(doc[x]) \cup Behind(x)
    BY <1>6, <1>7 DEF Deleted
  <2>2. i \in doc[x].del \/ i \in Behind(x)
    <3>1. i \in Item
      BY <1>4, <1>7 DEF Deleted, Integrated, Contiguous, Doc
    <3> QED BY <1>3, <1>7, <3>1 DEF Behind
  <2> QED BY <2>1, <2>2 DEF Deleted
<1>8. Deleted(doc[x]) \subseteq Deleted(serverDoc)
  BY <1>2, <1>5 DEF Deleted
<1> QED BY <1>5, <1>6, <1>7, <1>8 DEF Agrees

(***************************************************************************)
(* No update is ever lost for good: whatever was queued, dropped with a    *)
(* socket, refused or forgotten in a crash, a device with nothing under    *)
(* way agrees with the server, but for what the server had parked.         *)
(***************************************************************************)
THEOREM NothingIsLost == Spec => []QuietAgreement
<1>1. TypeOK /\ TypeOK' /\ WithdrawInv /\ HeldInv /\ OwnInv /\ LossInv /\ [Next]_vars => LossInv'
  BY LossStep
<1>2. TypeOK /\ LossInv => QuietAgreement
  BY QuietAgrees DEF LossInv, NoneUnheard, QuietAgreement
<1> QED BY <1>1, <1>2, LossInit, TypeCorrect, OwnAlways, PTL DEF Spec

-----------------------------------------------------------------------------
(* The exchange implements SharedRoom.                                      *)

\* Applying an update gives the copy what it brings and what it deletes.
LEMMA ApplyIsMerge ==
  ASSUME NEW d \in Doc, NEW u \in Update
  PROVE  AsCopy(ApplyUpdate(d, u)) = Shared!Merge(AsCopy(d), u.full, u.del \cup u.bare)
<1>1. /\ ApplyUpdate(d, u).have = d.have \cup u.full \cup u.bare
      /\ ApplyUpdate(d, u).del = d.del \cup u.bare \cup u.del
  BY DEF ApplyUpdate
<1>2. AsCopy(ApplyUpdate(d, u)).has = Shared!Merge(AsCopy(d), u.full, u.del \cup u.bare).has
  BY <1>1 DEF AsCopy, Shared!Merge
<1>3. AsCopy(ApplyUpdate(d, u)).gone = Shared!Merge(AsCopy(d), u.full, u.del \cup u.bare).gone
  BY <1>1 DEF AsCopy, Shared!Merge
<1> QED BY <1>2, <1>3 DEF AsCopy, Shared!Merge

LEMMA KnownIsHeld ==
  ASSUME NEW d \in Doc
  PROVE  d.have \subseteq Shared!Known(AsCopy(d))
BY DEF Shared!Known, AsCopy

\* A change of one device's doc is a change of its copy only.
LEMMA OneCopyChanges ==
  ASSUME NEW c \in Client, NEW copy, doc' = [doc EXCEPT ![c] = doc'[c]], TypeOK,
         AsCopy(doc'[c]) = copy
  PROVE  [x \in Client |-> AsCopy(doc[x])]'
           = [[x \in Client |-> AsCopy(doc[x])] EXCEPT ![c] = copy]
<1>1. \A x \in Client : doc'[x] = IF x = c THEN doc'[c] ELSE doc[x]
  BY DEF TypeOK
<1> QED BY <1>1

LEMMA SharedWrite ==
  ASSUME TypeOK, NEW c \in Client, SendMessage(c)
  PROVE  Shared!Write(c)
<1> DEFINE m == New(c)
           update == [full |-> {m}, bare |-> {}, del |-> {}]
<1>1. m \in Item \ Created /\ Created' = Created \cup {m} /\ m.by = c
  BY MessageSent DEF New
<1>2. /\ doc' = [doc EXCEPT ![c] = ApplyUpdate(doc[c], update)]
      /\ plain' \in {plain, plain \cup {m}}
      /\ UNCHANGED <<serverDoc, stored, currentKeyId>>
  BY DEF SendMessage, New, serverVars
<1>3. update \in Update
  BY <1>1 DEF Update
<1>4. doc'[c] = ApplyUpdate(doc[c], update)
  BY <1>2 DEF TypeOK
<1>5. AsCopy(doc'[c]) = Shared!Merge(AsCopy(doc[c]), {m}, {})
  <2>1. update.full = {m} /\ update.del \cup update.bare = {}
    OBVIOUS
  <2> HIDE DEF update
  <2>2. AsCopy(doc'[c]) = Shared!Merge(AsCopy(doc[c]), update.full, update.del \cup update.bare)
    BY <1>3, <1>4, ApplyIsMerge DEF TypeOK
  <2> QED BY <2>1, <2>2
<1>6. [x \in Client |-> AsCopy(doc[x])]'
        = [[x \in Client |-> AsCopy(doc[x])] EXCEPT ![c] = Shared!Merge(AsCopy(doc[c]), {m}, {})]
  BY <1>2, <1>4, <1>5, OneCopyChanges
<1> HIDE DEF m
<1> QED BY <1>1, <1>2, <1>6 DEF Shared!Write

LEMMA SharedGive ==
  ASSUME TypeOK, OwnInv, NEW c \in Client, AcceptUpdate(c)
  PROVE  Shared!Give(c)
<1> DEFINE u == Head(up[c]).update
<1>1. /\ u \in OwnUpdate(c, doc[c], retractedIds[c]) /\ u \in Update
      /\ serverDoc' = ApplyUpdate(serverDoc, u)
  BY UpdateReceived DEF OwnUpdate
<1>2. currentKeyId > 0 => u.full \cap plain = {}
  BY DEF AcceptUpdate, Refused, Unenveloped
<1>3. UNCHANGED <<doc, sent, stored, currentKeyId, plain>>
  BY DEF AcceptUpdate, deviceVars
<1> HIDE DEF u
<1>4. /\ u.full \subseteq Shared!Known(AsCopy(doc[c]))
      /\ u.del \cup u.bare \subseteq AsCopy(doc[c]).gone
  <2>1. u.full \subseteq doc[c].have /\ u.del \cup u.bare \subseteq doc[c].del
    BY <1>1 DEF OwnUpdate
  <2>2. doc[c].have \subseteq Shared!Known(AsCopy(doc[c]))
    BY KnownIsHeld DEF TypeOK
  <2>3. AsCopy(doc[c]).gone = doc[c].del
    BY DEF AsCopy
  <2> QED BY <2>1, <2>2, <2>3
<1>5. AsCopy(serverDoc)' = Shared!Merge(AsCopy(serverDoc), u.full, u.del \cup u.bare)
  BY <1>1, ApplyIsMerge DEF TypeOK
<1>6. Created' = Created
  BY <1>3 DEF Created
<1> QED BY <1>2, <1>3, <1>4, <1>5, <1>6 DEF Shared!Give

LEMMA SharedHear ==
  ASSUME TypeOK, HeldInv, NEW c \in Client, ClientUpdate(c)
  PROVE  Shared!Hear(c)
<1> DEFINE u == Head(down[c]).update
<1>1. u \in Update /\ doc'[c] = ApplyUpdate(doc[c], u)
  BY UpdateHeard
<1>2. u.full \subseteq serverDoc.have /\ u.del \cup u.bare \subseteq serverDoc.del
  <2>1. Head(down[c]) \in HeldServer(serverDoc.have, serverDoc.del)
    BY HeadTail DEF ClientUpdate, Delivers, HeldInv
  <2> QED BY <2>1 DEF ClientUpdate, HeldServer
<1>3. /\ doc' = [doc EXCEPT ![c] = doc'[c]]
      /\ UNCHANGED <<sent, serverDoc, stored, currentKeyId, plain>>
  BY DEF ClientUpdate, serverVars, TypeOK
<1> HIDE DEF u
<1>4. /\ u.full \subseteq Shared!Known(AsCopy(serverDoc))
      /\ u.del \cup u.bare \subseteq AsCopy(serverDoc).gone
  <2>1. serverDoc.have \subseteq Shared!Known(AsCopy(serverDoc))
    BY KnownIsHeld DEF TypeOK
  <2>2. AsCopy(serverDoc).gone = serverDoc.del
    BY DEF AsCopy
  <2> QED BY <1>2, <2>1, <2>2
<1>5. AsCopy(doc'[c]) = Shared!Merge(AsCopy(doc[c]), u.full, u.del \cup u.bare)
  BY <1>1, ApplyIsMerge DEF TypeOK
<1>6. [x \in Client |-> AsCopy(doc[x])]'
        = [[x \in Client |-> AsCopy(doc[x])]
             EXCEPT ![c] = Shared!Merge(AsCopy(doc[c]), u.full, u.del \cup u.bare)]
  BY <1>3, <1>5, OneCopyChanges
<1>7. Created' = Created
  BY <1>3 DEF Created
<1> QED BY <1>3, <1>4, <1>6, <1>7 DEF Shared!Hear

\* What a device withdraws was refused, so it is plaintext and the room encrypted.
LEMMA SharedWithdraw ==
  ASSUME TypeOK, WithdrawInv, OwnInv, NEW c \in Client, ClientRejected(c)
  PROVE  Shared!Withdraw(c)
<1> DEFINE ids == Head(down[c]).ids
           out == Retractable(c, ids)
           deletion == [full |-> {}, bare |-> {}, del |-> out]
<1>1. Head(down[c]).type = "rejected" /\ Delivers(c)
  BY DEF ClientRejected
<1>2. ids \subseteq plain
  <2>1. Head(down[c]) \in SafeServer(plain, Withdrawn)
    BY <1>1, DeliversSafe DEF WithdrawInv
  <2> QED BY <1>1, <2>1 DEF SafeServer
<1>3. currentKeyId > 0
  <2>1. Head(down[c]) \in Bounce(c, doc[c], retractedIds[c], currentKeyId)
    BY <1>1, HeadTail DEF Delivers, OwnInv, Channel
  <2> QED BY <1>1, <2>1 DEF Bounce
<1>4. out \subseteq Item /\ deletion \in Update
  BY RetractionMade DEF Update
<1>5. /\ doc' = [doc EXCEPT ![c] = ApplyUpdate(doc[c], deletion)]
      /\ UNCHANGED <<sent, serverDoc, stored, currentKeyId, plain>>
  BY DEF ClientRejected, serverVars
<1>6. doc'[c] = ApplyUpdate(doc[c], deletion)
  BY <1>5 DEF TypeOK
<1>7. out \subseteq {m \in plain \cap AsCopy(doc[c]).has : m.by = c}
  BY <1>2 DEF Retractable, Live, Integrated, Contiguous, AsCopy
<1> HIDE DEF ids
<1> HIDE DEF out
<1>8. AsCopy(doc'[c]) = Shared!Merge(AsCopy(doc[c]), {}, out)
  <2>1. deletion.full = {} /\ deletion.del \cup deletion.bare = out
    OBVIOUS
  <2> HIDE DEF deletion
  <2>2. AsCopy(doc'[c]) = Shared!Merge(AsCopy(doc[c]), deletion.full, deletion.del \cup deletion.bare)
    BY <1>4, <1>6, ApplyIsMerge DEF TypeOK
  <2> QED BY <2>1, <2>2
<1>9. [x \in Client |-> AsCopy(doc[x])]'
        = [[x \in Client |-> AsCopy(doc[x])] EXCEPT ![c] = Shared!Merge(AsCopy(doc[c]), {}, out)]
  BY <1>5, <1>6, <1>8, OneCopyChanges
<1>10. Created' = Created
  BY <1>5 DEF Created
<1>11. plain \subseteq Item
  BY DEF TypeOK
<1> QED BY <1>3, <1>5, <1>7, <1>9, <1>10, <1>11 DEF Shared!Withdraw

\* The steps that no device is part of.
LEMMA SharedServer ==
  ASSUME TypeOK
  PROVE  /\ RaiseEpoch => Shared!Encrypt
         /\ Persist => Shared!Save
         /\ Crash => Shared!Restart
<1> USE DEF deviceVars, serverVars
<1>1. ASSUME RaiseEpoch PROVE Shared!Encrypt
  <2>1. currentKeyId' > 0
    BY <1>1, BoundsAssumption DEF RaiseEpoch, TypeOK
  <2>2. UNCHANGED <<doc, serverDoc, stored, sent, plain>>
    BY <1>1 DEF RaiseEpoch
  <2> QED BY <2>1, <2>2 DEF Shared!Encrypt, Created
<1>2. ASSUME Persist PROVE Shared!Save
  <2>1. stored' = serverDoc /\ UNCHANGED <<doc, serverDoc, sent, plain, currentKeyId>>
    BY <1>2 DEF Persist
  <2> QED BY <2>1 DEF Shared!Save, Created
<1>3. ASSUME Crash PROVE Shared!Restart
  <2>1. UNCHANGED <<doc, stored, sent, plain, currentKeyId>>
    BY <1>3 DEF Crash
  <2>2. serverDoc' = ApplyUpdate(EmptyDoc, EncodeState(stored))
    BY <1>3 DEF Crash
  <2>3. serverDoc'.have = stored.have /\ serverDoc'.del = stored.del
    BY <2>2 DEF ApplyUpdate, EmptyDoc, EncodeState, EncodeDiff, TypeOK, Doc, Content, Deleted
  <2>4. AsCopy(serverDoc)' = AsCopy(stored)
    BY <2>3 DEF AsCopy
  <2> QED BY <2>1, <2>4 DEF Shared!Restart, Created
<1> QED BY <1>1, <1>2, <1>3

LEMMA SharedStep ==
  ASSUME TypeOK, WithdrawInv, HeldInv, OwnInv, [Next]_vars
  PROVE  [Shared!Next]_(Shared!vars)
<1>1. ASSUME NEW c \in Client,
             SendMessage(c) \/ AcceptUpdate(c) \/ ClientUpdate(c) \/ ClientRejected(c)
      PROVE  Shared!Next
  <2>1. Shared!Write(c) \/ Shared!Give(c) \/ Shared!Hear(c) \/ Shared!Withdraw(c)
    BY <1>1, SharedWrite, SharedGive, SharedHear, SharedWithdraw
  <2> QED BY <2>1 DEF Shared!Next
<1>2. CASE RaiseEpoch \/ Persist \/ Crash
  <2>1. Shared!Encrypt \/ Shared!Save \/ Shared!Restart
    BY <1>2, SharedServer
  <2> QED BY <2>1 DEF Shared!Next
<1>3. CASE UNCHANGED <<doc, sent, serverDoc, stored, plain, currentKeyId>>
  BY <1>3 DEF Shared!vars, Created
<1> QED BY <1>1, <1>2, <1>3, NextTouches DEF Touched

(***************************************************************************)
(* The whole exchange implements a room whose copies copy from one another *)
(* in single steps.  A frame is built in one state and applied in another; *)
(* it needs saying that whatever it carries, sender and receiver can still *)
(* answer for then: that is OwnInv for the frames to the server, HeldInv   *)
(* for those from it, and WithdrawInv for the refusals.                    *)
(***************************************************************************)
THEOREM RoomIsShared == Spec => SharesARoom
<1>1. Init => Shared!Init
  <2> SUFFICES ASSUME Init PROVE Shared!Init
    OBVIOUS
  <2>1. Created = {}
    BY OwnInit, MaxSendAssumption DEF Init, Created, Item
  <2> QED BY <2>1 DEF Init, Shared!Init, Shared!Nothing, AsCopy, EmptyDoc
<1>2. TypeOK /\ WithdrawInv /\ HeldInv /\ OwnInv /\ [Next]_vars => [Shared!Next]_(Shared!vars)
  BY SharedStep
<1> QED BY <1>1, <1>2, TypeCorrect, OwnAlways, PTL DEF Spec, SharesARoom, Shared!Spec
=============================================================================

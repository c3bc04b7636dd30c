------------------------ MODULE InstanceFanoutProofs ------------------------
(***************************************************************************)
(* What instances of the server that share a room can differ in, and that  *)
(* a loaded copy's gate has the room's epoch (InstanceFanout), for any     *)
(* instances, clients and bounds.                                          *)
(***************************************************************************)
EXTENDS InstanceFanout, TLAPS

-----------------------------------------------------------------------------
(* Lemmas: queues.                                                          *)

\* x is in an update of the queue, and epoch k is announced in it.
Carries(q, x) == \E n \in 1 .. Len(q) : q[n].type = "update" /\ x \in q[n].items
Tells(q, k)   == \E n \in 1 .. Len(q) : q[n] = Epoch(k)

\* A message is published.
LEMMA Published ==
  ASSUME NEW q \in Seq(Message), NEW msg \in Message
  PROVE  /\ Append(q, msg) \in Seq(Message)
         /\ \A x : Carries(Append(q, msg), x) <=> Carries(q, x) \/ (msg.type = "update" /\ x \in msg.items)
         /\ \A k : Tells(Append(q, msg), k) <=> Tells(q, k) \/ msg = Epoch(k)
<1>1. /\ Append(q, msg) \in Seq(Message) /\ Len(Append(q, msg)) = Len(q) + 1 /\ Len(q) \in Nat
      /\ \A n \in 1 .. Len(q) : Append(q, msg)[n] = q[n]
      /\ Append(q, msg)[Len(q) + 1] = msg
  OBVIOUS
<1>2. \A n \in 1 .. Len(q) + 1 : n \in 1 .. Len(q) \/ n = Len(q) + 1
  BY <1>1
<1>3. Len(q) + 1 \in 1 .. Len(q) + 1 /\ \A n \in 1 .. Len(q) : n \in 1 .. Len(q) + 1
  BY <1>1
<1>4. ASSUME NEW x PROVE Carries(Append(q, msg), x) <=> Carries(q, x) \/ (msg.type = "update" /\ x \in msg.items)
  BY <1>1, <1>2, <1>3, Zenon DEF Carries
<1>5. ASSUME NEW k PROVE Tells(Append(q, msg), k) <=> Tells(q, k) \/ msg = Epoch(k)
  BY <1>1, <1>2, <1>3, Zenon DEF Tells
<1> QED BY <1>1, <1>4, <1>5

\* The first message leaves the queue.
LEMMA Handed ==
  ASSUME NEW q \in Seq(Message), q # <<>>
  PROVE  /\ Tail(q) \in Seq(Message) /\ Head(q) \in Message
         /\ \A x : Carries(q, x) <=> Carries(Tail(q), x) \/ (Head(q).type = "update" /\ x \in Head(q).items)
         /\ \A k : Tells(q, k) <=> Tells(Tail(q), k) \/ Head(q) = Epoch(k)
<1>1. /\ Tail(q) \in Seq(Message) /\ Head(q) \in Message /\ Len(Tail(q)) = Len(q) - 1
      /\ Len(q) \in Nat /\ Len(q) > 0
      /\ \A n \in 1 .. Len(q) - 1 : Tail(q)[n] = q[n + 1]
      /\ Head(q) = q[1]
  OBVIOUS
<1>2. ASSUME NEW n \in 1 .. Len(q), n # 1
      PROVE  n - 1 \in 1 .. Len(q) - 1 /\ q[n] = Tail(q)[n - 1]
  <2>1. n - 1 \in 1 .. Len(q) - 1 /\ (n - 1) + 1 = n
    BY <1>1, <1>2
  <2> QED BY <1>1, <2>1
<1>3. 1 \in 1 .. Len(q) /\ \A n \in 1 .. Len(q) - 1 : n + 1 \in 1 .. Len(q)
  BY <1>1
<1>4. ASSUME NEW x PROVE Carries(q, x) <=> Carries(Tail(q), x) \/ (Head(q).type = "update" /\ x \in Head(q).items)
  BY <1>1, <1>2, <1>3, Zenon DEF Carries
<1>5. ASSUME NEW k PROVE Tells(q, k) <=> Tells(Tail(q), k) \/ Head(q) = Epoch(k)
  <2>1. CASE Tells(q, k)
    <3>1. PICK n \in 1 .. Len(q) : q[n] = Epoch(k)
      BY <2>1 DEF Tells
    <3>2. CASE n = 1
      BY <1>1, <2>1, <3>1, <3>2
    <3>3. CASE n # 1
      BY <1>1, <1>2, <2>1, <3>1, <3>3 DEF Tells
    <3> QED BY <3>2, <3>3
  <2>2. CASE Tells(Tail(q), k) \/ Head(q) = Epoch(k)
    BY <1>1, <1>3, <2>2, Zenon DEF Tells
  <2> QED BY <2>1, <2>2
<1> QED BY <1>1, <1>4, <1>5

\* Nothing is under way in an empty queue.
LEMMA NothingUnderWay ==
  <<>> \in Seq(Message) /\ (\A x : ~Carries(<<>>, x)) /\ (\A k : ~Tells(<<>>, k))
BY DEF Carries, Tells

\* What Unheard and Announced say, in these terms.
LEMMA UnheardCarries ==
  ASSUME NEW i \in Instances, queue[i] \in Seq(Message)
  PROVE  /\ \A x : x \in Unheard(i) <=> Carries(queue[i], x)
         /\ \A k : Announced(i, k) <=> Tells(queue[i], k)
<1>1. DOMAIN queue[i] = 1 .. Len(queue[i])
  OBVIOUS
<1> QED BY <1>1, Zenon DEF Unheard, Announced, Carries, Tells

-----------------------------------------------------------------------------
(* Types.                                                                   *)

LEMMA Bounds == MaxEpoch \in Nat /\ MaxLoads \in Nat /\ MaxQueue \in Nat /\ MaxFaults \in Nat
BY FanoutAssumption

\* Snapshots and messages are built from parts of their types.
LEMMA Built ==
  ASSUME NEW items \in SUBSET Items, NEW k \in 0 .. MaxEpoch, NEW stage \in {"absent", "loading", "loaded"}
  PROVE  /\ [items |-> items, keyId |-> k] \in Row
         /\ [items |-> items, keyId |-> 0] \in Row
         /\ [stage |-> stage, items |-> items, keyId |-> k] \in Copy
         /\ Absent \in Copy /\ Absent.stage = "absent"
         /\ Update(items) \in Message /\ Update(items).type = "update" /\ Update(items).items = items
         /\ k > 0 => Epoch(k) \in Message /\ Epoch(k).type = "epoch" /\ Epoch(k).keyId = k
         /\ \A n : Update(items) # Epoch(n)
         /\ \A n : Epoch(n) = Epoch(k) => n = k
<1>1. 0 \in 0 .. MaxEpoch /\ (k > 0 => k \in 1 .. MaxEpoch)
  BY Bounds
<1>2. Update(items).type = "update" /\ \A n : Epoch(n).type = "epoch" /\ Epoch(n).keyId = n
  BY DEF Update, Epoch
<1>3. \A n : Update(items) # Epoch(n)
  BY <1>2
<1>4. \A n : Epoch(n) = Epoch(k) => n = k
  BY <1>2
<1>5. k > 0 => Epoch(k) \in Message
  BY <1>1 DEF Epoch, Message
<1>6. Update(items) \in Message /\ Update(items).items = items
  BY DEF Update, Message
<1> QED BY <1>1, <1>2, <1>3, <1>4, <1>5, <1>6 DEF Row, Copy, Absent

\* The parts of rows, copies and messages.
LEMMA Parts ==
  /\ \A r \in Row : r.items \subseteq Items /\ r.keyId \in 0 .. MaxEpoch /\ r # NoRead
  /\ \A r \in Copy : r.items \subseteq Items /\ r.keyId \in 0 .. MaxEpoch /\ r.stage \in {"absent", "loading", "loaded"}
  /\ \A msg \in Message :
       \/ msg.type = "update" /\ msg.items \subseteq Items
       \/ msg.type = "epoch" /\ msg.keyId \in 1 .. MaxEpoch /\ msg = Epoch(msg.keyId)
<1>1. \A r \in Row : r.items \subseteq Items /\ r.keyId \in 0 .. MaxEpoch
  BY DEF Row
<1>2. \A r \in Row : r.keyId # NoRead.keyId
  BY <1>1, Bounds DEF NoRead
<1>3. \A r \in Copy : r.items \subseteq Items /\ r.keyId \in 0 .. MaxEpoch /\ r.stage \in {"absent", "loading", "loaded"}
  BY DEF Copy
<1>4. \A msg \in Message :
       \/ msg.type = "update" /\ msg.items \subseteq Items
       \/ msg.type = "epoch" /\ msg.keyId \in 1 .. MaxEpoch /\ msg = Epoch(msg.keyId)
  BY DEF Message, Epoch
<1> QED BY <1>1, <1>2, <1>3, <1>4

\* The higher of two epochs.
LEMMA HigherOf ==
  ASSUME NEW a \in 0 .. MaxEpoch, NEW b \in 0 .. MaxEpoch
  PROVE  /\ Higher(a, b) \in 0 .. MaxEpoch /\ Higher(a, b) >= a /\ Higher(a, b) >= b
         /\ Higher(a, b) \in {a, b}
BY Bounds DEF Higher

-----------------------------------------------------------------------------
-----------------------------------------------------------------------------
(* Lemmas: copies, and what the handlers do to them.                        *)

Copies == copy \in [Instances -> Copy]
Queues == queue \in [Instances -> Seq(Message)]

\* A copy takes items.
LEMMA CopyTakes ==
  ASSUME Copies, NEW i \in Instances, NEW items \in SUBSET Items,
         copy' = [copy EXCEPT ![i].items = @ \cup items]
  PROVE  /\ Copies'
         /\ \A j \in Instances : copy'[j].stage = copy[j].stage /\ copy'[j].keyId = copy[j].keyId
         /\ \A j \in Instances : copy'[j].items = IF j = i THEN copy[j].items \cup items ELSE copy[j].items
<1>1. copy'[i] = [copy[i] EXCEPT !.items = @ \cup items] /\ \A j \in Instances \ {i} : copy'[j] = copy[j]
  BY DEF Copies
<1>2. copy'[i] \in Copy /\ copy'[i].stage = copy[i].stage /\ copy'[i].keyId = copy[i].keyId
      /\ copy'[i].items = copy[i].items \cup items
  BY <1>1 DEF Copies, Copy
<1>3. Copies'
  BY <1>1, <1>2 DEF Copies
<1> QED BY <1>1, <1>2, <1>3

\* An instance hears of an epoch.
LEMMA EpochRaised ==
  ASSUME Copies, epochByDbId \in [Instances -> 0 .. MaxEpoch],
         NEW i \in Instances, NEW k \in 1 .. MaxEpoch, RaiseEpoch(i, k)
  PROVE  /\ Copies' /\ epochByDbId' \in [Instances -> 0 .. MaxEpoch]
         /\ \A j \in Instances : copy'[j].stage = copy[j].stage /\ copy'[j].items = copy[j].items
         /\ \A j \in Instances : copy'[j].keyId = IF j = i /\ Loaded(i) THEN Higher(copy[j].keyId, k) ELSE copy[j].keyId
         /\ \A j \in Instances : epochByDbId'[j] = IF j = i THEN Higher(epochByDbId[j], k) ELSE epochByDbId[j]
<1>1. k \in 0 .. MaxEpoch /\ copy[i].keyId \in 0 .. MaxEpoch /\ epochByDbId[i] \in 0 .. MaxEpoch
  BY Bounds, Parts DEF Copies
<1>2. Higher(copy[i].keyId, k) \in 0 .. MaxEpoch /\ Higher(epochByDbId[i], k) \in 0 .. MaxEpoch
  BY <1>1, HigherOf
<1>3. CASE ~Loaded(i)
  BY <1>2, <1>3 DEF RaiseEpoch, Copies
<1>4. CASE Loaded(i)
  <2>1. copy'[i] = [copy[i] EXCEPT !.keyId = Higher(@, k)] /\ \A j \in Instances \ {i} : copy'[j] = copy[j]
    BY <1>4 DEF RaiseEpoch, Copies
  <2>2. copy'[i] \in Copy /\ copy'[i].stage = copy[i].stage /\ copy'[i].items = copy[i].items
        /\ copy'[i].keyId = Higher(copy[i].keyId, k)
    BY <2>1, <1>2 DEF Copies, Copy
  <2>3. Copies'
    BY <1>4, <2>2 DEF RaiseEpoch, Copies
  <2> QED BY <1>2, <1>4, <2>1, <2>2, <2>3 DEF RaiseEpoch
<1> QED BY <1>3, <1>4

\* A message is published to all others.
LEMMA PublishedToOthers ==
  ASSUME Queues, NEW i \in Instances, NEW msg \in Message, Publish(i, msg)
  PROVE  /\ Queues'
         /\ \A j \in Instances : \A x :
              Carries(queue'[j], x) <=> Carries(queue[j], x) \/ (j # i /\ msg.type = "update" /\ x \in msg.items)
         /\ \A j \in Instances : \A k : Tells(queue'[j], k) <=> Tells(queue[j], k) \/ (j # i /\ msg = Epoch(k))
<1>1. \A j \in Instances : queue'[j] = IF j = i THEN queue[j] ELSE Append(queue[j], msg)
  BY DEF Publish
<1>2. \A j \in Instances : queue[j] \in Seq(Message)
  BY DEF Queues
<1>3. Queues'
  BY <1>1, <1>2 DEF Publish, Queues
<1>4. ASSUME NEW j \in Instances
      PROVE  /\ \A x : Carries(queue'[j], x) <=> Carries(queue[j], x) \/ (j # i /\ msg.type = "update" /\ x \in msg.items)
             /\ \A k : Tells(queue'[j], k) <=> Tells(queue[j], k) \/ (j # i /\ msg = Epoch(k))
  <2>1. CASE j = i
    BY <2>1, <1>1
  <2>2. CASE j # i
    <3>1. queue'[j] = Append(queue[j], msg)
      BY <1>1, <2>2
    <3> QED BY <3>1, <2>2, <1>2, Published
  <2> QED BY <2>1, <2>2
<1> QED BY <1>3, <1>4

\* An instance takes what a client brings: its own copy gets it, every other
\* instance is sent what was new, and nothing else changes.
LEMMA ClientHeard ==
  ASSUME Copies, Queues, NEW i \in Instances, NEW items \in SUBSET Items, FromClient(i, items)
  PROVE  /\ Copies' /\ Queues'
         /\ \A j \in Instances : copy'[j].stage = copy[j].stage /\ copy'[j].keyId = copy[j].keyId
         /\ \A j \in Instances : copy'[j].items = IF j = i THEN copy[j].items \cup items ELSE copy[j].items
         /\ \A j \in Instances : \A x :
              Carries(queue'[j], x) <=> Carries(queue[j], x) \/ (j # i /\ x \in items \ copy[i].items)
         /\ \A j \in Instances : \A k : Tells(queue'[j], k) <=> Tells(queue[j], k)
         /\ timer' = timer \/ timer' = [timer EXCEPT ![i] = TRUE]
<1>1. CASE items \subseteq copy[i].items
  BY <1>1, Zenon DEF FromClient, Copies, Queues
<1>2. CASE ~(items \subseteq copy[i].items)
  <2> DEFINE new == items \ copy[i].items
  <2>1. new \in SUBSET Items
    OBVIOUS
  <2>2. /\ copy' = [copy EXCEPT ![i].items = @ \cup items]
        /\ Publish(i, Update(new))
        /\ timer' = [timer EXCEPT ![i] = TRUE]
    BY <1>2 DEF FromClient
  <2>3. 0 \in 0 .. MaxEpoch
    BY Bounds
  <2>4. Update(new) \in Message /\ Update(new).type = "update" /\ Update(new).items = new
        /\ \A k : Update(new) # Epoch(k)
    BY <2>1, <2>3, Built
  <2>5. /\ Queues'
        /\ \A j \in Instances : \A x : Carries(queue'[j], x) <=> Carries(queue[j], x) \/ (j # i /\ x \in new)
        /\ \A j \in Instances : \A k : Tells(queue'[j], k) <=> Tells(queue[j], k)
    BY <2>2, <2>4, PublishedToOthers
  <2>6. /\ Copies'
        /\ \A j \in Instances : copy'[j].stage = copy[j].stage /\ copy'[j].keyId = copy[j].keyId
        /\ \A j \in Instances : copy'[j].items = IF j = i THEN copy[j].items \cup items ELSE copy[j].items
    BY <2>2, CopyTakes
  <2> QED BY <2>2, <2>5, <2>6
<1> QED BY <1>1, <1>2

-----------------------------------------------------------------------------
(* Type correctness.                                                        *)

LEMMA InitTyped ==
  ASSUME Init
  PROVE  TypeOK
<1>1. {} \in SUBSET Items /\ 0 \in 0 .. MaxEpoch
  BY Bounds
<1>2. Absent \in Copy /\ [items |-> {}, keyId |-> 0] \in Row
  BY <1>1, Built
<1> QED BY <1>1, <1>2, Bounds, NothingUnderWay DEF Init, TypeOK

\* Loading.
LEMMA LoadTyped ==
  ASSUME TypeOK, NEW i \in Instances, BeginLoad(i) \/ ReadRow(i) \/ LoadRoomState(i)
  PROVE  TypeOK'
<1>1. CASE BeginLoad(i)
  <2>1. copy'[i] = [copy[i] EXCEPT !.stage = "loading"] /\ \A j \in Instances \ {i} : copy'[j] = copy[j]
    BY <1>1 DEF BeginLoad, TypeOK
  <2>2. copy[i] \in Copy
    BY DEF TypeOK
  <2>3. copy'[i] \in Copy
    BY <2>1, <2>2 DEF Copy
  <2>4. copy' \in [Instances -> Copy]
    BY <1>1, <2>3 DEF BeginLoad, TypeOK
  <2>5. \A j \in Instances : Loaded(j) => copy'[j] = copy[j]
    BY <1>1, <2>1 DEF BeginLoad, Loaded
  <2>6. missed' \in [Instances -> SUBSET Items] /\ loads' \in 0 .. MaxLoads
    BY <1>1, Bounds DEF BeginLoad, TypeOK
  <2>7. UNCHANGED <<claimed, said, row, read, epochByDbId, timer, write, queue, at, doc, deaf, faults>>
    BY <1>1 DEF BeginLoad
  <2> QED BY <2>4, <2>5, <2>6, <2>7 DEF TypeOK, Loaded
<1>2. CASE ReadRow(i)
  BY <1>2 DEF ReadRow, TypeOK, Loaded
<1>3. CASE LoadRoomState(i)
  <2> DEFINE new == [stage |-> "loaded", items |-> copy[i].items \cup read[i].items, keyId |-> LoadedEpoch(i)]
  <2>1. copy[i] \in Copy /\ read[i] \in Row /\ epochByDbId[i] \in 0 .. MaxEpoch
    BY <1>3 DEF LoadRoomState, TypeOK
  <2>2. LoadedEpoch(i) \in 0 .. MaxEpoch
    BY <2>1, Parts, HigherOf DEF LoadedEpoch
  <2>3. copy[i].items \cup read[i].items \in SUBSET Items
    BY <2>1, Parts
  <2>4. new \in Copy
    BY <2>2, <2>3, Built
  <2>5. copy' = [copy EXCEPT ![i] = new]
    BY <1>3 DEF LoadRoomState, TypeOK
  <2>6. new.stage = "loaded"
    OBVIOUS
  <2> HIDE DEF new
  <2>7. copy' \in [Instances -> Copy] /\ \A j \in Instances : Loaded(j) => Loaded(j)'
    BY <2>4, <2>5, <2>6 DEF TypeOK, Loaded
  <2>8. read' \in [Instances -> Row \cup {NoRead}]
    BY <1>3 DEF LoadRoomState, TypeOK
  <2>9. UNCHANGED <<claimed, said, row, epochByDbId, timer, write, queue, at, doc, missed, deaf, loads, faults>>
    BY <1>3 DEF LoadRoomState
  <2>10. \A c \in Clients : at'[c] # Nowhere => Loaded(at[c])'
    BY <2>7, <2>9 DEF TypeOK
  <2> QED BY <2>7, <2>8, <2>9, <2>10 DEF TypeOK, Loaded
<1> QED BY <1>1, <1>2, <1>3

\* Clients.
LEMMA ClientTyped ==
  ASSUME TypeOK, NEW c \in Clients,
         Disconnect(c) \/ (\E i \in Instances : Connect(c, i)) \/ (\E x \in Items : Say(c, x))
  PROVE  TypeOK'
<1> USE DEF Copies, Queues
<1>1. CASE Disconnect(c)
  <2>1. at[c] \in Instances
    BY <1>1 DEF Disconnect, TypeOK
  <2>2. copy[at[c]].items \subseteq Items
    BY <2>1, Parts DEF TypeOK
  <2>3. doc' \in [Clients -> SUBSET Items] /\ at' \in [Clients -> Instances \cup {Nowhere}]
    BY <1>1, <2>2 DEF Disconnect, TypeOK
  <2>4. \A d \in Clients : at'[d] # Nowhere => at'[d] = at[d]
    BY <1>1 DEF Disconnect, TypeOK
  <2>5. UNCHANGED <<claimed, said, row, copy, read, epochByDbId, timer, write, queue, missed, deaf, loads, faults>>
    BY <1>1 DEF Disconnect
  <2> QED BY <2>3, <2>4, <2>5 DEF TypeOK, Loaded
<1>2. ASSUME NEW i \in Instances, Connect(c, i) PROVE TypeOK'
  <2>1. doc[c] \in SUBSET Items
    BY DEF TypeOK
  <2>2. /\ copy' \in [Instances -> Copy] /\ queue' \in [Instances -> Seq(Message)]
        /\ \A j \in Instances : copy'[j].stage = copy[j].stage
        /\ timer' = timer \/ timer' = [timer EXCEPT ![i] = TRUE]
    BY <1>2, <2>1, ClientHeard DEF Connect, TypeOK
  <2>3. /\ at' = [at EXCEPT ![c] = i] /\ doc' = [doc EXCEPT ![c] = {}] /\ Loaded(i)
        /\ UNCHANGED <<claimed, said, row, read, epochByDbId, write, missed, deaf, loads, faults>>
    BY <1>2 DEF Connect
  <2>4. timer' \in [Instances -> BOOLEAN] /\ \A j \in Instances : timer'[j] => timer[j] \/ j = i
    BY <2>2, Zenon DEF TypeOK
  <2>5. \A d \in Clients : at'[d] # Nowhere => at'[d] \in Instances /\ Loaded(at'[d])
    BY <2>3 DEF TypeOK
  <2>6. \A d \in Clients : at'[d] # Nowhere => copy'[at'[d]].stage = "loaded"
    BY <2>2, <2>5 DEF Loaded
  <2>7. \A j \in Instances : timer'[j] => copy'[j].stage = "loaded"
    BY <2>2, <2>3, <2>4 DEF TypeOK, Loaded
  <2>8. at' \in [Clients -> Instances \cup {Nowhere}] /\ doc' \in [Clients -> SUBSET Items]
    BY <2>3 DEF TypeOK
  <2> QED BY <2>2, <2>3, <2>4, <2>6, <2>7, <2>8 DEF TypeOK, Loaded
<1>3. ASSUME NEW x \in Items, Say(c, x) PROVE TypeOK'
  <2>1. at[c] \in Instances /\ {x} \in SUBSET Items
    BY <1>3 DEF Say, TypeOK
  <2>2. /\ copy' \in [Instances -> Copy] /\ queue' \in [Instances -> Seq(Message)]
        /\ \A j \in Instances : copy'[j].stage = copy[j].stage
        /\ timer' = timer \/ timer' = [timer EXCEPT ![at[c]] = TRUE]
    BY <1>3, <2>1, ClientHeard DEF Say, TypeOK
  <2>3. /\ said' = said \cup {x}
        /\ UNCHANGED <<claimed, row, read, epochByDbId, write, at, doc, missed, deaf, loads, faults>>
    BY <1>3 DEF Say
  <2>4. timer' \in [Instances -> BOOLEAN] /\ \A j \in Instances : timer'[j] => timer[j] \/ j = at[c]
    BY <2>1, <2>2, Zenon DEF TypeOK
  <2>5. Loaded(at[c]) /\ \A d \in Clients : at[d] # Nowhere => at[d] \in Instances /\ Loaded(at[d])
    BY <1>3 DEF Say, TypeOK
  <2>6. \A d \in Clients : at[d] # Nowhere => copy'[at[d]].stage = "loaded"
    BY <2>2, <2>5 DEF Loaded
  <2>7. \A j \in Instances : timer'[j] => copy'[j].stage = "loaded"
    BY <2>2, <2>4, <2>5 DEF TypeOK, Loaded
  <2> QED BY <2>2, <2>3, <2>4, <2>6, <2>7 DEF TypeOK, Loaded
<1> QED BY <1>1, <1>2, <1>3

\* Epochs and messages.
LEMMA MessageTyped ==
  ASSUME TypeOK, NEW i \in Instances, ClaimEpoch(i) \/ OnEpochAdvanced(i) \/ PMessage(i) \/ Lose(i)
  PROVE  TypeOK'
<1> USE DEF Copies, Queues
<1>1. CASE ClaimEpoch(i)
  <2>1. row.keyId + 1 \in 0 .. MaxEpoch /\ row.items \in SUBSET Items
    BY <1>1, Bounds, Parts DEF ClaimEpoch, TypeOK
  <2>2. row' \in Row
    BY <1>1, <2>1 DEF ClaimEpoch, TypeOK, Row
  <2>3. claimed' \in [Instances -> 0 .. MaxEpoch]
    BY <1>1, <2>1 DEF ClaimEpoch, TypeOK
  <2>4. UNCHANGED <<said, copy, read, epochByDbId, timer, write, queue, at, doc, missed, deaf, loads, faults>>
    BY <1>1 DEF ClaimEpoch
  <2> QED BY <2>2, <2>3, <2>4 DEF TypeOK, Loaded
<1>2. CASE OnEpochAdvanced(i)
  <2>1. claimed[i] \in 1 .. MaxEpoch /\ claimed[i] \in 0 .. MaxEpoch
    BY <1>2, Bounds DEF OnEpochAdvanced, TypeOK
  <2>2. Epoch(claimed[i]) \in Message
    BY <2>1 DEF Epoch, Message
  <2>3. queue' \in [Instances -> Seq(Message)]
    BY <1>2, <2>2, PublishedToOthers DEF OnEpochAdvanced, TypeOK
  <2>4. /\ copy' \in [Instances -> Copy] /\ epochByDbId' \in [Instances -> 0 .. MaxEpoch]
        /\ \A j \in Instances : copy'[j].stage = copy[j].stage
    BY <1>2, <2>1, EpochRaised DEF OnEpochAdvanced, TypeOK
  <2>5. claimed' \in [Instances -> 0 .. MaxEpoch]
    BY <1>2, Bounds DEF OnEpochAdvanced, TypeOK
  <2>6. UNCHANGED <<said, row, read, timer, write, at, doc, missed, deaf, loads, faults>>
    BY <1>2 DEF OnEpochAdvanced
  <2>7. /\ \A c \in Clients : at[c] # Nowhere => copy'[at[c]].stage = "loaded"
        /\ \A j \in Instances : timer[j] => copy'[j].stage = "loaded"
    BY <2>4 DEF TypeOK, Loaded
  <2> QED BY <2>3, <2>4, <2>5, <2>6, <2>7 DEF TypeOK, Loaded
<1>3. CASE PMessage(i)
  <2> DEFINE msg == Head(queue[i])
  <2>1. queue[i] \in Seq(Message) /\ queue[i] # <<>>
    BY <1>3 DEF PMessage, TypeOK
  <2>2. Tail(queue[i]) \in Seq(Message) /\ msg \in Message
    BY <2>1, Handed
  <2>3. queue' \in [Instances -> Seq(Message)]
    BY <1>3, <2>2 DEF PMessage, TypeOK
  <2>4. UNCHANGED <<claimed, said, row, read, timer, write, at, doc, missed, deaf, loads, faults>>
    BY <1>3 DEF PMessage
  <2>5. /\ copy' \in [Instances -> Copy] /\ epochByDbId' \in [Instances -> 0 .. MaxEpoch]
        /\ \A j \in Instances : copy'[j].stage = copy[j].stage
    <3>1. CASE msg.type = "epoch"
      <4>1. msg.keyId \in 1 .. MaxEpoch
        BY <2>2, <3>1, Parts
      <4>2. RaiseEpoch(i, msg.keyId)
        BY <1>3, <3>1 DEF PMessage
      <4> QED BY <4>1, <4>2, EpochRaised DEF TypeOK
    <3>2. CASE msg.type = "update"
      <4>1. msg.items \in SUBSET Items
        BY <2>2, <3>2, Parts
      <4>2. /\ epochByDbId' = epochByDbId
            /\ copy' = copy \/ copy' = [copy EXCEPT ![i].items = @ \cup msg.items]
        BY <1>3, <3>2 DEF PMessage
      <4> QED BY <4>1, <4>2, CopyTakes DEF TypeOK
    <3> QED BY <2>2, <3>1, <3>2, Parts
  <2>6. /\ \A c \in Clients : at[c] # Nowhere => copy'[at[c]].stage = "loaded"
        /\ \A j \in Instances : timer[j] => copy'[j].stage = "loaded"
    BY <2>5 DEF TypeOK, Loaded
  <2> QED BY <2>3, <2>4, <2>5, <2>6 DEF TypeOK, Loaded
<1>4. CASE Lose(i)
  <2> DEFINE msg == Head(queue[i])
  <2>1. queue[i] \in Seq(Message) /\ queue[i] # <<>>
    BY <1>4 DEF Lose, TypeOK
  <2>2. Tail(queue[i]) \in Seq(Message) /\ msg \in Message
    BY <2>1, Handed
  <2>3. queue' \in [Instances -> Seq(Message)]
    BY <1>4, <2>2 DEF Lose, TypeOK
  <2>4. msg.type = "update" => msg.items \subseteq Items
    BY <2>2, Parts
  <2>5. missed' \in [Instances -> SUBSET Items]
    BY <1>4, <2>4 DEF Lose, TypeOK
  <2>6. deaf' \in [Instances -> BOOLEAN]
    <3>1. deaf' = deaf \/ deaf' = [deaf EXCEPT ![i] = copy[i].stage # "absent"]
      BY <1>4 DEF Lose
    <3> QED BY <3>1, Zenon DEF TypeOK
  <2>7. faults' \in 0 .. MaxFaults
    BY <1>4, Bounds DEF Lose, TypeOK
  <2>8. UNCHANGED <<claimed, said, row, copy, read, epochByDbId, timer, write, at, doc, loads>>
    BY <1>4 DEF Lose
  <2> QED BY <2>3, <2>5, <2>6, <2>7, <2>8 DEF TypeOK, Loaded
<1> QED BY <1>1, <1>2, <1>3, <1>4

\* Persistence, unloading and crashes.
LEMMA StoreTyped ==
  ASSUME TypeOK, NEW i \in Instances, PersistTimeout(i) \/ WriteLands(i) \/ Unload(i) \/ Crash(i)
  PROVE  TypeOK'
<1>1. copy[i].items \in SUBSET Items /\ 0 \in 0 .. MaxEpoch
  BY Bounds, Parts DEF TypeOK
<1>2. Absent \in Copy /\ [items |-> copy[i].items, keyId |-> 0] \in Row
  BY <1>1, Built
<1>3. CASE PersistTimeout(i)
  BY <1>2, <1>3 DEF PersistTimeout, TypeOK, Loaded
<1>4. CASE WriteLands(i)
  <2>1. write[i] \in Row
    BY <1>4 DEF WriteLands, TypeOK
  <2>2. row' \in Row
    BY <1>4, <2>1 DEF WriteLands, TypeOK, Row
  <2> QED BY <1>4, <2>2 DEF WriteLands, TypeOK, Loaded
<1>5. CASE Unload(i)
  <2>1. copy' = [copy EXCEPT ![i] = Absent] /\ timer' = [timer EXCEPT ![i] = FALSE]
        /\ \A c \in Clients : at[c] # i
    BY <1>5 DEF Unload, Here
  <2>2. copy' \in [Instances -> Copy] /\ \A c \in Clients : at[c] # Nowhere => copy'[at[c]].stage = "loaded"
    BY <1>2, <2>1 DEF TypeOK, Loaded
  <2>3. timer' \in [Instances -> BOOLEAN] /\ \A j \in Instances : timer'[j] => timer[j] /\ j # i
    BY <2>1, Zenon DEF TypeOK
  <2>4. \A j \in Instances : timer'[j] => copy'[j].stage = "loaded"
    BY <2>1, <2>3 DEF TypeOK, Loaded
  <2>5. write' \in [Instances -> Row \cup {NoRead}]
    BY <1>2, <1>5 DEF Unload, TypeOK
  <2>6. deaf' \in [Instances -> BOOLEAN]
    BY <1>5, Zenon DEF Unload, TypeOK
  <2>7. UNCHANGED <<claimed, said, row, read, epochByDbId, queue, at, doc, missed, loads, faults>>
    BY <1>5 DEF Unload
  <2> QED BY <2>2, <2>3, <2>4, <2>5, <2>6, <2>7 DEF TypeOK, Loaded
<1>6. CASE Crash(i)
  <2>1. copy' = [copy EXCEPT ![i] = Absent] /\ timer' = [timer EXCEPT ![i] = FALSE]
        /\ at' = [c \in Clients |-> IF at[c] = i THEN Nowhere ELSE at[c]]
    BY <1>6 DEF Crash
  <2>2. copy' \in [Instances -> Copy] /\ at' \in [Clients -> Instances \cup {Nowhere}]
    BY <1>2, <2>1 DEF TypeOK
  <2>3. timer' \in [Instances -> BOOLEAN] /\ \A j \in Instances : timer'[j] => timer[j] /\ j # i
    BY <2>1, Zenon DEF TypeOK
  <2>4. \A j \in Instances : timer'[j] => copy'[j].stage = "loaded"
    BY <2>1, <2>3 DEF TypeOK, Loaded
  <2>5. \A c \in Clients : at'[c] # Nowhere => copy'[at'[c]].stage = "loaded"
    BY <2>1 DEF TypeOK, Loaded
  <2>6. /\ read' \in [Instances -> Row \cup {NoRead}] /\ write' \in [Instances -> Row \cup {NoRead}]
        /\ epochByDbId' \in [Instances -> 0 .. MaxEpoch] /\ claimed' \in [Instances -> 0 .. MaxEpoch]
    BY <1>1, <1>6 DEF Crash, TypeOK
  <2>7. queue' \in [Instances -> Seq(Message)]
    BY <1>6, NothingUnderWay DEF Crash, TypeOK
  <2>8. doc' \in [Clients -> SUBSET Items]
    BY <1>1, <1>6 DEF Crash, TypeOK
  <2>9. deaf' \in [Instances -> BOOLEAN]
    BY <1>6, Zenon DEF Crash
  <2>10. faults' \in 0 .. MaxFaults /\ UNCHANGED <<said, row, missed, loads>>
    BY <1>6, Bounds DEF Crash, TypeOK
  <2> QED BY <2>2, <2>3, <2>4, <2>5, <2>6, <2>7, <2>8, <2>9, <2>10 DEF TypeOK, Loaded
<1> QED BY <1>3, <1>4, <1>5, <1>6

LEMMA NextTyped ==
  ASSUME TypeOK, [Next]_vars
  PROVE  TypeOK'
<1>1. CASE UNCHANGED vars
  BY <1>1 DEF vars, TypeOK, Loaded
<1>2. CASE Next
  BY <1>2, LoadTyped, ClientTyped, MessageTyped, StoreTyped DEF Next
<1> QED BY <1>1, <1>2

\* Rows, copies, snapshots and queues are what the code makes of them, and
\* clients are only at instances that have the room.
THEOREM TypeCorrect == Spec => []TypeOK
BY InitTyped, NextTyped, PTL DEF Spec

-----------------------------------------------------------------------------
(* What an instance lacks.                                                  *)

\* Nothing is anywhere that was not said.
Received ==
  /\ row.items \subseteq said
  /\ \A j \in Instances : copy[j].items \subseteq said /\ read[j].items \subseteq said /\ write[j].items \subseteq said
  /\ \A c \in Clients : doc[c] \subseteq said
  /\ \A j \in Instances : \A x : Carries(queue[j], x) => x \in said

\* And what was said is in a copy, or on its way to it, or was missed: also in
\* a copy that is being loaded, which takes updates before it has the row.
Complete ==
  \A j \in Instances :
    HasRoom(j) => \A x \in said : x \in copy[j].items \/ x \in missed[j] \/ Carries(queue[j], x)

FanoutInv == TypeOK /\ Received /\ Complete

LEMMA InitFanout ==
  ASSUME Init
  PROVE  FanoutInv
<1>1. TypeOK
  BY InitTyped
<1>2. \A j \in Instances : copy[j].items = {} /\ read[j].items = {} /\ write[j].items = {} /\ ~HasRoom(j)
  BY DEF Init, Absent, NoRead, HasRoom
<1>3. \A j \in Instances : \A x : ~Carries(queue[j], x)
  BY NothingUnderWay DEF Init
<1>4. row.items = {} /\ \A c \in Clients : doc[c] = {}
  BY DEF Init
<1> QED BY <1>1, <1>2, <1>3, <1>4 DEF FanoutInv, Received, Complete

\* Loading.
LEMMA LoadFanout ==
  ASSUME FanoutInv, NEW i \in Instances, BeginLoad(i) \/ ReadRow(i) \/ LoadRoomState(i)
  PROVE  Received' /\ Complete'
<1> USE DEF FanoutInv
<1>1. CASE BeginLoad(i)
  <2>1. /\ \A j \in Instances : copy'[j].items = copy[j].items
        /\ \A j \in Instances \ {i} : copy'[j].stage = copy[j].stage
        /\ \A j \in Instances : missed'[j] = IF j = i THEN said \ Unheard(i) ELSE missed[j]
    BY <1>1 DEF BeginLoad, TypeOK
  <2>2. UNCHANGED <<said, row, read, write, queue, doc>>
    BY <1>1 DEF BeginLoad
  <2>3. \A x : x \in Unheard(i) <=> Carries(queue[i], x)
    BY UnheardCarries DEF TypeOK
  <2> QED BY <2>1, <2>2, <2>3 DEF Received, Complete, HasRoom
<1>2. CASE ReadRow(i)
  <2>1. /\ \A j \in Instances : read'[j] = IF j = i THEN row ELSE read[j]
        /\ UNCHANGED <<said, row, copy, write, queue, doc, missed>>
    BY <1>2 DEF ReadRow, TypeOK
  <2> QED BY <2>1 DEF Received, Complete, HasRoom
<1>3. CASE LoadRoomState(i)
  <2>1. /\ \A j \in Instances : copy'[j].items = IF j = i THEN copy[j].items \cup read[j].items ELSE copy[j].items
        /\ \A j \in Instances : copy'[j].stage = IF j = i THEN "loaded" ELSE copy[j].stage
    BY <1>3 DEF LoadRoomState, TypeOK
  <2>2. /\ \A j \in Instances : read'[j] = IF j = i THEN NoRead ELSE read[j]
        /\ UNCHANGED <<said, row, write, queue, doc, missed>>
    BY <1>3 DEF LoadRoomState, TypeOK
  <2>3. HasRoom(i) /\ NoRead.items = {}
    BY <1>3 DEF LoadRoomState, HasRoom, NoRead
  <2> QED BY <2>1, <2>2, <2>3 DEF Received, Complete, HasRoom
<1> QED BY <1>1, <1>2, <1>3

\* Clients.
LEMMA ClientFanout ==
  ASSUME FanoutInv, NEW c \in Clients,
         Disconnect(c) \/ (\E i \in Instances : Connect(c, i)) \/ (\E x \in Items : Say(c, x))
  PROVE  Received' /\ Complete'
<1> USE DEF FanoutInv
<1>0. Copies /\ Queues
  BY DEF TypeOK, Copies, Queues
<1>1. CASE Disconnect(c)
  <2>1. /\ at[c] \in Instances
        /\ \A d \in Clients : doc'[d] = IF d = c THEN copy[at[c]].items ELSE doc[d]
        /\ UNCHANGED <<said, row, copy, read, write, queue, missed>>
    BY <1>1 DEF Disconnect, TypeOK
  <2> QED BY <2>1 DEF Received, Complete, HasRoom
<1>2. ASSUME NEW i \in Instances, Connect(c, i) PROVE Received' /\ Complete'
  <2>1. doc[c] \in SUBSET Items /\ doc[c] \subseteq said
    BY DEF TypeOK, Received
  <2>2. /\ \A j \in Instances : copy'[j].stage = copy[j].stage
        /\ \A j \in Instances : copy'[j].items = IF j = i THEN copy[j].items \cup doc[c] ELSE copy[j].items
        /\ \A j \in Instances : \A x :
             Carries(queue'[j], x) <=> Carries(queue[j], x) \/ (j # i /\ x \in doc[c] \ copy[i].items)
    <3>1. FromClient(i, doc[c])
      BY <1>2 DEF Connect
    <3> HIDE DEF FanoutInv
    <3> QED BY <1>0, <2>1, <3>1, ClientHeard
  <2>3. /\ UNCHANGED <<said, row, read, write, missed>>
        /\ \A d \in Clients : doc'[d] = IF d = c THEN {} ELSE doc[d]
    BY <1>2 DEF Connect, TypeOK
  <2>4. \A j \in Instances : \A x : Carries(queue'[j], x) => x \in said
    BY <2>1, <2>2 DEF Received
  <2>5. Received'
    BY <2>1, <2>2, <2>3, <2>4 DEF Received
  <2>6. Complete'
    BY <2>2, <2>3 DEF Complete, HasRoom
  <2> QED BY <2>5, <2>6
<1>3. ASSUME NEW x \in Items, Say(c, x) PROVE Received' /\ Complete'
  <2>1. at[c] \in Instances /\ {x} \in SUBSET Items /\ x \notin said
    BY <1>3 DEF Say, TypeOK
  <2>2. x \notin copy[at[c]].items
    BY <2>1 DEF Received
  <2>3. /\ \A j \in Instances : copy'[j].stage = copy[j].stage
        /\ \A j \in Instances : copy'[j].items = IF j = at[c] THEN copy[j].items \cup {x} ELSE copy[j].items
        /\ \A j \in Instances : \A y :
             Carries(queue'[j], y) <=> Carries(queue[j], y) \/ (j # at[c] /\ y \in {x} \ copy[at[c]].items)
    <3> DEFINE i == at[c]
               new == {x}
    <3>1. FromClient(i, new) /\ i \in Instances /\ new \in SUBSET Items
      BY <1>3, <2>1 DEF Say
    <3> HIDE DEF FanoutInv, i, new
    <3>2. /\ \A j \in Instances : copy'[j].stage = copy[j].stage
          /\ \A j \in Instances : copy'[j].items = IF j = i THEN copy[j].items \cup new ELSE copy[j].items
          /\ \A j \in Instances : \A y :
               Carries(queue'[j], y) <=> Carries(queue[j], y) \/ (j # i /\ y \in new \ copy[i].items)
      BY <1>0, <3>1, ClientHeard
    <3> QED BY <3>2 DEF i, new
  <2>4. said' = said \cup {x} /\ UNCHANGED <<row, read, write, doc, missed>>
    BY <1>3 DEF Say
  <2>5. \A j \in Instances : \A y : Carries(queue'[j], y) => y \in said \cup {x}
    BY <2>3 DEF Received
  <2>6. Received'
    BY <2>3, <2>4, <2>5 DEF Received
  <2>7. Complete'
    BY <2>2, <2>3, <2>4 DEF Complete, HasRoom
  <2> QED BY <2>6, <2>7
<1> QED BY <1>1, <1>2, <1>3

\* The first message leaves the queue of i.
LEMMA HandedTo ==
  ASSUME Queues, NEW i \in Instances, queue[i] # <<>>, queue' = [queue EXCEPT ![i] = Tail(@)]
  PROVE  /\ Head(queue[i]) \in Message
         /\ \A j \in Instances : \A x :
              Carries(queue[j], x) <=>
                Carries(queue'[j], x) \/ (j = i /\ Head(queue[i]).type = "update" /\ x \in Head(queue[i]).items)
         /\ \A j \in Instances : \A k :
              Tells(queue[j], k) <=> Tells(queue'[j], k) \/ (j = i /\ Head(queue[i]) = Epoch(k))
<1>1. queue[i] \in Seq(Message) /\ queue'[i] = Tail(queue[i]) /\ \A j \in Instances \ {i} : queue'[j] = queue[j]
  BY DEF Queues
<1>2. /\ Head(queue[i]) \in Message
      /\ \A x : Carries(queue[i], x) <=>
           Carries(queue'[i], x) \/ (Head(queue[i]).type = "update" /\ x \in Head(queue[i]).items)
      /\ \A k : Tells(queue[i], k) <=> Tells(queue'[i], k) \/ Head(queue[i]) = Epoch(k)
  BY <1>1, Handed
<1> QED BY <1>1, <1>2

\* Epochs and messages.
LEMMA MessageFanout ==
  ASSUME FanoutInv, NEW i \in Instances, ClaimEpoch(i) \/ OnEpochAdvanced(i) \/ PMessage(i) \/ Lose(i)
  PROVE  Received' /\ Complete'
<1> USE DEF FanoutInv
<1>0. Copies /\ Queues /\ epochByDbId \in [Instances -> 0 .. MaxEpoch]
  BY DEF TypeOK, Copies, Queues
<1>1. CASE ClaimEpoch(i)
  <2>1. row'.items = row.items /\ UNCHANGED <<said, copy, read, write, queue, doc, missed>>
    BY <1>1 DEF ClaimEpoch, TypeOK, Row
  <2> QED BY <2>1 DEF Received, Complete, HasRoom
<1>2. CASE OnEpochAdvanced(i)
  <2>1. claimed[i] \in 1 .. MaxEpoch
    BY <1>2, Bounds DEF OnEpochAdvanced, TypeOK
  <2>2. Epoch(claimed[i]) \in Message /\ Epoch(claimed[i]).type = "epoch"
    BY <2>1 DEF Epoch, Message
  <2>3. RaiseEpoch(i, claimed[i]) /\ Publish(i, Epoch(claimed[i]))
    BY <1>2 DEF OnEpochAdvanced
  <2>4. UNCHANGED <<said, row, read, write, doc, missed>>
    BY <1>2 DEF OnEpochAdvanced
  <2> HIDE DEF FanoutInv
  <2>5. \A j \in Instances : \A x : Carries(queue'[j], x) <=> Carries(queue[j], x)
    BY <1>0, <2>2, <2>3, PublishedToOthers
  <2>6. \A j \in Instances : copy'[j].stage = copy[j].stage /\ copy'[j].items = copy[j].items
    BY <1>0, <2>1, <2>3, EpochRaised
  <2> QED BY <2>4, <2>5, <2>6 DEF FanoutInv, Received, Complete, HasRoom
<1>3. CASE PMessage(i)
  <2> DEFINE msg == Head(queue[i])
  <2>1. queue[i] # <<>> /\ queue' = [queue EXCEPT ![i] = Tail(@)]
    BY <1>3 DEF PMessage
  <2>2. /\ msg \in Message
        /\ \A j \in Instances : \A x :
             Carries(queue[j], x) <=> Carries(queue'[j], x) \/ (j = i /\ msg.type = "update" /\ x \in msg.items)
    BY <1>0, <2>1, HandedTo
  <2>3. UNCHANGED <<said, row, read, write, doc, missed>>
    BY <1>3 DEF PMessage
  <2>4. /\ \A j \in Instances : copy'[j].stage = copy[j].stage
        /\ \A j \in Instances :
             copy'[j].items = IF j = i /\ msg.type = "update" /\ HasRoom(i) THEN copy[j].items \cup msg.items ELSE copy[j].items
    <3>1. CASE msg.type = "epoch"
      <4>1. msg.keyId \in 1 .. MaxEpoch
        BY <2>2, <3>1, Parts
      <4>2. RaiseEpoch(i, msg.keyId)
        BY <1>3, <3>1 DEF PMessage
      <4> QED BY <1>0, <3>1, <4>1, <4>2, EpochRaised
    <3>2. CASE msg.type = "update" /\ ~HasRoom(i)
      BY <1>3, <3>2 DEF PMessage
    <3>3. CASE msg.type = "update" /\ HasRoom(i)
      <4>1. msg.items \in SUBSET Items
        BY <2>2, <3>3, Parts
      <4>2. copy' = [copy EXCEPT ![i].items = @ \cup msg.items]
        BY <1>3, <3>3 DEF PMessage
      <4> HIDE DEF FanoutInv, msg
      <4>3. /\ \A j \in Instances : copy'[j].stage = copy[j].stage
            /\ \A j \in Instances : copy'[j].items = IF j = i THEN copy[j].items \cup msg.items ELSE copy[j].items
        BY <1>0, <4>1, <4>2, CopyTakes
      <4> QED BY <3>3, <4>3
    <3> QED BY <2>2, <3>1, <3>2, <3>3, Parts
  <2> HIDE DEF msg
  <2>5. Received'
    BY <2>2, <2>3, <2>4 DEF Received
  <2>6. Complete'
    BY <2>2, <2>3, <2>4 DEF Complete, HasRoom
  <2> QED BY <2>5, <2>6
<1>4. CASE Lose(i)
  <2> DEFINE msg == Head(queue[i])
  <2>1. queue[i] # <<>> /\ queue' = [queue EXCEPT ![i] = Tail(@)]
    BY <1>4 DEF Lose
  <2>2. \A j \in Instances : \A x :
          Carries(queue[j], x) <=> Carries(queue'[j], x) \/ (j = i /\ msg.type = "update" /\ x \in msg.items)
    BY <1>0, <2>1, HandedTo
  <2>3. UNCHANGED <<said, row, copy, read, write, doc>>
    BY <1>4 DEF Lose
  <2>4. \A j \in Instances :
          missed'[j] = IF j = i /\ msg.type = "update" THEN missed[j] \cup msg.items ELSE missed[j]
    BY <1>4 DEF Lose, TypeOK
  <2> HIDE DEF msg
  <2>5. Received'
    BY <2>2, <2>3 DEF Received
  <2>6. Complete'
    BY <2>2, <2>3, <2>4 DEF Complete, HasRoom
  <2> QED BY <2>5, <2>6
<1> QED BY <1>1, <1>2, <1>3, <1>4

\* Persistence, unloading and crashes.
LEMMA StoreFanout ==
  ASSUME FanoutInv, NEW i \in Instances, PersistTimeout(i) \/ WriteLands(i) \/ Unload(i) \/ Crash(i)
  PROVE  Received' /\ Complete'
<1> USE DEF FanoutInv
<1>1. CASE PersistTimeout(i)
  <2>1. /\ \A j \in Instances : write'[j].items = IF j = i THEN copy[j].items ELSE write[j].items
        /\ UNCHANGED <<said, row, copy, read, queue, doc, missed>>
    BY <1>1 DEF PersistTimeout, TypeOK
  <2> QED BY <2>1 DEF Received, Complete, HasRoom
<1>2. CASE WriteLands(i)
  <2>1. /\ \A j \in Instances : write'[j].items = IF j = i THEN {} ELSE write[j].items
        /\ row'.items = write[i].items
        /\ UNCHANGED <<said, copy, read, queue, doc, missed>>
    BY <1>2 DEF WriteLands, TypeOK, NoRead, Row
  <2> QED BY <2>1 DEF Received, Complete, HasRoom
<1>3. CASE Unload(i)
  <2>1. /\ \A j \in Instances : copy'[j].items = IF j = i THEN {} ELSE copy[j].items
        /\ \A j \in Instances : copy'[j].stage = IF j = i THEN "absent" ELSE copy[j].stage
    BY <1>3 DEF Unload, TypeOK, Absent
  <2>2. \A j \in Instances : write'[j].items \in {write[j].items, copy[j].items}
    BY <1>3 DEF Unload, TypeOK
  <2>3. UNCHANGED <<said, row, read, queue, doc, missed>>
    BY <1>3 DEF Unload
  <2> QED BY <2>1, <2>2, <2>3 DEF Received, Complete, HasRoom
<1>4. CASE Crash(i)
  <2>1. /\ \A j \in Instances : copy'[j].items = IF j = i THEN {} ELSE copy[j].items
        /\ \A j \in Instances : copy'[j].stage = IF j = i THEN "absent" ELSE copy[j].stage
    BY <1>4 DEF Crash, TypeOK, Absent
  <2>2. \A j \in Instances : read'[j].items \in {read[j].items, {}} /\ write'[j].items \in {write[j].items, {}}
    BY <1>4 DEF Crash, TypeOK, NoRead
  <2>3. \A c \in Clients : doc'[c] \in {doc[c], copy[i].items}
    BY <1>4 DEF Crash
  <2>4. \A j \in Instances : \A x : Carries(queue'[j], x) => Carries(queue[j], x)
    <3>1. \A j \in Instances : queue'[j] = IF j = i THEN <<>> ELSE queue[j]
      BY <1>4 DEF Crash, TypeOK
    <3> QED BY <3>1, NothingUnderWay
  <2>5. \A j \in Instances \ {i} : queue'[j] = queue[j]
    BY <1>4 DEF Crash, TypeOK
  <2>6. UNCHANGED <<said, row, missed>>
    BY <1>4 DEF Crash
  <2>7. Received'
    BY <2>1, <2>2, <2>3, <2>4, <2>6 DEF Received
  <2>8. Complete'
    BY <2>1, <2>5, <2>6 DEF Complete, HasRoom
  <2> QED BY <2>7, <2>8
<1> QED BY <1>1, <1>2, <1>3, <1>4

LEMMA NextFanout ==
  ASSUME FanoutInv, [Next]_vars
  PROVE  FanoutInv'
<1>1. TypeOK'
  BY NextTyped DEF FanoutInv
<1>2. CASE UNCHANGED vars
  BY <1>1, <1>2 DEF vars, FanoutInv, Received, Complete, HasRoom
<1>3. CASE Next
  BY <1>1, <1>3, LoadFanout, ClientFanout, MessageFanout, StoreFanout DEF Next, FanoutInv
<1> QED BY <1>2, <1>3

LEMMA Differences ==
  ASSUME FanoutInv
  PROVE  DifferencesAreMissed
<1>1. ASSUME NEW i \in Instances, NEW j \in Instances, Loaded(i), Loaded(j)
      PROVE  Differ(i, j) \subseteq missed[j] \cup Unheard(j)
  <2>1. \A x : x \in Unheard(j) <=> Carries(queue[j], x)
    BY UnheardCarries DEF FanoutInv, TypeOK
  <2>2. HasRoom(j)
    BY <1>1 DEF Loaded, HasRoom
  <2> QED BY <2>1, <2>2 DEF FanoutInv, Received, Complete, Differ
<1> QED BY <1>1 DEF DifferencesAreMissed

\* Two copies of a room differ by nothing but what is on its way and what one
\* of them missed.
THEOREM NothingElseDiffers == Spec => []DifferencesAreMissed
BY InitFanout, NextFanout, Differences, PTL DEF Spec

-----------------------------------------------------------------------------
(* The epoch of a loaded copy.                                              *)

\* No epoch is anywhere that the room has not reached.
Reached ==
  \A j \in Instances :
    /\ copy[j].keyId <= row.keyId /\ read[j].keyId <= row.keyId
    /\ epochByDbId[j] <= row.keyId /\ claimed[j] <= row.keyId
    /\ \A k : Tells(queue[j], k) => k <= row.keyId

\* A row is only read for a copy that is being loaded.
Reads == \A j \in Instances : read[j] # NoRead => copy[j].stage = "loading"

\* Why an instance may not know the room's epoch.
Pending(j) == Tells(queue[j], row.keyId) \/ deaf[j] \/ \E l \in Instances : claimed[l] = row.keyId

\* A loaded copy has it; one whose row has been read will have it.
Known ==
  \A j \in Instances :
    /\ Loaded(j) => copy[j].keyId = row.keyId \/ Pending(j)
    /\ read[j] # NoRead => read[j].keyId = row.keyId \/ epochByDbId[j] = row.keyId \/ Pending(j)

EpochInv == TypeOK /\ Reached /\ Reads /\ Known

\* Epochs are numbers.
LEMMA Numbers ==
  ASSUME TypeOK
  PROVE  /\ row.keyId \in Nat /\ row.keyId >= 0
         /\ \A j \in Instances :
              /\ copy[j].keyId \in Nat /\ read[j].keyId \in Int /\ epochByDbId[j] \in Nat /\ claimed[j] \in Nat
              /\ read[j] # NoRead => read[j].keyId \in Nat
              /\ read[j] \in Row \cup {NoRead} /\ copy[j] \in Copy
<1>1. \A k \in 0 .. MaxEpoch : k \in Nat /\ k \in Int /\ k >= 0
  BY Bounds
<1>2. NoRead.keyId \in Int
  BY DEF NoRead
<1> QED BY <1>1, <1>2, Parts DEF TypeOK

LEMMA InitEpoch ==
  ASSUME Init
  PROVE  EpochInv
<1>1. TypeOK
  BY InitTyped
<1>2. \A j \in Instances : copy[j] = Absent /\ read[j] = NoRead /\ epochByDbId[j] = 0 /\ claimed[j] = 0 /\ queue[j] = <<>>
  BY DEF Init
<1>3. row.keyId = 0 /\ Absent.keyId = 0 /\ Absent.stage = "absent" /\ NoRead.keyId = -1
  BY DEF Init, Absent, NoRead
<1> QED BY <1>1, <1>2, <1>3, NothingUnderWay DEF EpochInv, Reached, Reads, Known, Loaded

\* Loading: the row that is read is the one of now, and what is heard of from
\* then on is remembered.
LEMMA LoadEpoch ==
  ASSUME EpochInv, NEW i \in Instances, BeginLoad(i) \/ ReadRow(i) \/ LoadRoomState(i)
  PROVE  Reached' /\ Reads' /\ Known'
<1> USE DEF EpochInv
<1>0. TypeOK
  OBVIOUS
<1>1. CASE BeginLoad(i)
  <2>1. /\ \A j \in Instances : copy'[j].keyId = copy[j].keyId
        /\ \A j \in Instances : copy'[j].stage = IF j = i THEN "loading" ELSE copy[j].stage
        /\ UNCHANGED <<claimed, row, read, epochByDbId, queue, deaf>>
    BY <1>1 DEF BeginLoad, TypeOK
  <2> QED BY <2>1 DEF Reached, Reads, Known, Pending, Loaded
<1>2. CASE ReadRow(i)
  <2>1. /\ \A j \in Instances : read'[j] = IF j = i THEN row ELSE read[j]
        /\ copy[i].stage = "loading"
        /\ UNCHANGED <<claimed, row, copy, epochByDbId, queue>>
    BY <1>2 DEF ReadRow, TypeOK
  <2>2. \A j \in Instances \ {i} : deaf[j] => deaf'[j]
    BY <1>2, Zenon DEF ReadRow, TypeOK
  <2>3. Reached' /\ Reads'
    BY <1>0, <2>1, Numbers DEF Reached, Reads
  <2>4. Known'
    BY <2>1, <2>2 DEF Known, Pending, Loaded
  <2> QED BY <2>3, <2>4
<1>3. CASE LoadRoomState(i)
  <2>1. /\ \A j \in Instances : copy'[j].keyId = IF j = i THEN LoadedEpoch(i) ELSE copy[j].keyId
        /\ \A j \in Instances : copy'[j].stage = IF j = i THEN "loaded" ELSE copy[j].stage
        /\ \A j \in Instances : read'[j] = IF j = i THEN NoRead ELSE read[j]
        /\ UNCHANGED <<claimed, row, epochByDbId, queue, deaf>> /\ read[i] # NoRead
    BY <1>3 DEF LoadRoomState, TypeOK
  <2>2. /\ LoadedEpoch(i) <= row.keyId
        /\ read[i].keyId = row.keyId \/ epochByDbId[i] = row.keyId => LoadedEpoch(i) = row.keyId
    BY <1>0, <2>1, Numbers DEF LoadedEpoch, Higher, Reached
  <2>3. NoRead.keyId <= row.keyId
    BY <1>0, Numbers DEF NoRead
  <2>4. Reached' /\ Reads'
    BY <2>1, <2>2, <2>3 DEF Reached, Reads
  <2>5. Known'
    BY <2>1, <2>2 DEF Known, Pending, Loaded
  <2> QED BY <2>4, <2>5
<1> QED BY <1>1, <1>2, <1>3

\* Clients do not touch epochs.
LEMMA ClientEpoch ==
  ASSUME EpochInv, NEW c \in Clients,
         Disconnect(c) \/ (\E i \in Instances : Connect(c, i)) \/ (\E x \in Items : Say(c, x))
  PROVE  Reached' /\ Reads' /\ Known'
<1>1. Copies /\ Queues
  BY DEF EpochInv, TypeOK, Copies, Queues
<1>2. SUFFICES
        /\ \A j \in Instances : copy'[j].stage = copy[j].stage /\ copy'[j].keyId = copy[j].keyId
        /\ \A j \in Instances : \A k : Tells(queue'[j], k) <=> Tells(queue[j], k)
        /\ UNCHANGED <<claimed, row, read, epochByDbId, deaf>>
  BY DEF EpochInv, Reached, Reads, Known, Pending, Loaded
<1>3. CASE Disconnect(c)
  BY <1>3 DEF Disconnect
<1>4. ASSUME NEW i \in Instances, Connect(c, i)
      PROVE  /\ \A j \in Instances : copy'[j].stage = copy[j].stage /\ copy'[j].keyId = copy[j].keyId
             /\ \A j \in Instances : \A k : Tells(queue'[j], k) <=> Tells(queue[j], k)
             /\ UNCHANGED <<claimed, row, read, epochByDbId, deaf>>
  <2>1. FromClient(i, doc[c]) /\ UNCHANGED <<claimed, row, read, epochByDbId, deaf>>
    BY <1>4 DEF Connect
  <2>2. doc[c] \in SUBSET Items
    BY DEF EpochInv, TypeOK
  <2> QED BY <1>1, <2>1, <2>2, ClientHeard
<1>5. ASSUME NEW x \in Items, Say(c, x)
      PROVE  /\ \A j \in Instances : copy'[j].stage = copy[j].stage /\ copy'[j].keyId = copy[j].keyId
             /\ \A j \in Instances : \A k : Tells(queue'[j], k) <=> Tells(queue[j], k)
             /\ UNCHANGED <<claimed, row, read, epochByDbId, deaf>>
  <2>1. FromClient(at[c], {x}) /\ UNCHANGED <<claimed, row, read, epochByDbId, deaf>>
    BY <1>5 DEF Say
  <2>2. {x} \in SUBSET Items /\ at[c] \in Instances
    BY <1>5 DEF EpochInv, TypeOK, Say
  <2> QED BY <1>1, <2>1, <2>2, ClientHeard
<1> QED BY <1>3, <1>4, <1>5

\* Raising what is known keeps it within what the room has reached.
LEMMA RaisedWithin ==
  ASSUME EpochInv, NEW k \in 1 .. MaxEpoch, k <= row.keyId, NEW j \in Instances
  PROVE  /\ Higher(copy[j].keyId, k) <= row.keyId /\ Higher(epochByDbId[j], k) <= row.keyId
         /\ k = row.keyId => Higher(copy[j].keyId, k) = row.keyId /\ Higher(epochByDbId[j], k) = row.keyId
         /\ copy[j].keyId = row.keyId => Higher(copy[j].keyId, k) = row.keyId
         /\ epochByDbId[j] = row.keyId => Higher(epochByDbId[j], k) = row.keyId
<1>1. ASSUME NEW a \in Nat, NEW b \in Nat, NEW m \in Nat, a <= m, b <= m
      PROVE  Higher(a, b) <= m /\ (a = m \/ b = m => Higher(a, b) = m)
  BY <1>1 DEF Higher
<1>2. /\ copy[j].keyId \in Nat /\ epochByDbId[j] \in Nat /\ row.keyId \in Nat /\ k \in Nat
      /\ copy[j].keyId <= row.keyId /\ epochByDbId[j] <= row.keyId
  BY Numbers, Bounds DEF EpochInv, Reached
<1> QED BY <1>1, <1>2

\* Claims, announcements and their loss.
LEMMA MessageEpoch ==
  ASSUME EpochInv, NEW i \in Instances, ClaimEpoch(i) \/ OnEpochAdvanced(i) \/ PMessage(i) \/ Lose(i)
  PROVE  Reached' /\ Reads' /\ Known'
<1>1. Copies /\ Queues /\ epochByDbId \in [Instances -> 0 .. MaxEpoch] /\ TypeOK
  BY DEF EpochInv, TypeOK, Copies, Queues
<1>2. CASE ClaimEpoch(i)
  <2>1. /\ row'.keyId = row.keyId + 1
        /\ \A j \in Instances : claimed'[j] = IF j = i THEN row.keyId + 1 ELSE claimed[j]
        /\ UNCHANGED <<copy, read, epochByDbId, queue>>
    BY <1>1, <1>2 DEF ClaimEpoch, TypeOK, Row
  <2>2. \A k : k <= row.keyId => k <= row.keyId + 1 \/ k \notin Int
    BY <1>1, Numbers
  <2>3. \A j \in Instances : \A k : Tells(queue[j], k) => k \in Int
    <3>1. \A j \in Instances : \A n \in 1 .. Len(queue[j]) : queue[j][n] \in Message
      BY <1>1 DEF Queues
    <3>2. \A msg \in Message : \A k : msg = Epoch(k) => k \in Int
      <4>1. \A k : Epoch(k).type = "epoch" /\ Epoch(k).keyId = k
        BY DEF Epoch
      <4> QED BY <4>1, Parts, Bounds
    <3> QED BY <3>1, <3>2 DEF Tells
  <2>4. Reached'
    BY <1>1, <2>1, <2>2, <2>3, Numbers DEF EpochInv, Reached
  <2>5. Reads' /\ Known'
    BY <2>1 DEF EpochInv, Reads, Known, Pending, Loaded
  <2> QED BY <2>4, <2>5
<1>3. CASE OnEpochAdvanced(i)
  <2> DEFINE k == claimed[i]
  <2>1. k \in 1 .. MaxEpoch /\ k \in 0 .. MaxEpoch /\ k <= row.keyId
    BY <1>3, Bounds DEF OnEpochAdvanced, EpochInv, TypeOK, Reached
  <2>2. Epoch(k) \in Message /\ \A n : Epoch(k) = Epoch(n) <=> n = k
    <3>1. \A n : Epoch(n).keyId = n
      BY DEF Epoch
    <3> QED BY <2>1, <3>1 DEF Epoch, Message
  <2>3. RaiseEpoch(i, k) /\ Publish(i, Epoch(k))
    BY <1>3 DEF OnEpochAdvanced
  <2>4. /\ \A j \in Instances : claimed'[j] = IF j = i THEN 0 ELSE claimed[j]
        /\ UNCHANGED <<row, read, deaf>>
    BY <1>1, <1>3 DEF OnEpochAdvanced, TypeOK
  <2> HIDE DEF k
  <2>5. \A j \in Instances : \A n : Tells(queue'[j], n) <=> Tells(queue[j], n) \/ (j # i /\ n = k)
    BY <1>1, <2>2, <2>3, PublishedToOthers
  <2>6. /\ \A j \in Instances : copy'[j].stage = copy[j].stage
        /\ \A j \in Instances : copy'[j].keyId = IF j = i /\ Loaded(i) THEN Higher(copy[j].keyId, k) ELSE copy[j].keyId
        /\ \A j \in Instances : epochByDbId'[j] = IF j = i THEN Higher(epochByDbId[j], k) ELSE epochByDbId[j]
    BY <1>1, <2>1, <2>3, EpochRaised
  <2>7. \A j \in Instances :
          /\ Higher(copy[j].keyId, k) <= row.keyId /\ Higher(epochByDbId[j], k) <= row.keyId
          /\ k = row.keyId => Higher(copy[j].keyId, k) = row.keyId /\ Higher(epochByDbId[j], k) = row.keyId
          /\ copy[j].keyId = row.keyId => Higher(copy[j].keyId, k) = row.keyId
          /\ epochByDbId[j] = row.keyId => Higher(epochByDbId[j], k) = row.keyId
    BY <2>1, RaisedWithin
  <2>8. Reached'
    BY <1>1, <2>1, <2>4, <2>5, <2>6, <2>7, Numbers DEF EpochInv, Reached
  <2>9. Reads'
    BY <2>4, <2>6 DEF EpochInv, Reads
  <2>10. ASSUME NEW j \in Instances, Pending(j), ~Pending(j)'
         PROVE  j = i /\ k = row.keyId
    <3>1. PICK l \in Instances : claimed[l] = row.keyId
      BY <2>4, <2>5, <2>10 DEF Pending
    <3>2. l = i
      BY <2>4, <2>10, <3>1 DEF Pending
    <3>3. k = row.keyId
      BY <3>1, <3>2 DEF k
    <3> QED BY <2>4, <2>5, <2>10, <3>3 DEF Pending
  <2>11. Known'
    BY <2>4, <2>6, <2>7, <2>10 DEF EpochInv, Known, Loaded
  <2> QED BY <2>8, <2>9, <2>11
<1>4. CASE PMessage(i)
  <2> DEFINE msg == Head(queue[i])
  <2>1. queue[i] # <<>> /\ queue' = [queue EXCEPT ![i] = Tail(@)]
    BY <1>4 DEF PMessage
  <2>2. /\ msg \in Message
        /\ \A j \in Instances : \A n : Tells(queue[j], n) <=> Tells(queue'[j], n) \/ (j = i /\ msg = Epoch(n))
    BY <1>1, <2>1, HandedTo
  <2>3. UNCHANGED <<claimed, row, read, deaf>>
    BY <1>4 DEF PMessage
  <2>4. CASE msg.type = "update"
    <3>1. \A n : Epoch(n).type = "epoch"
      BY DEF Epoch
    <3>2. \A j \in Instances : \A n : Tells(queue[j], n) <=> Tells(queue'[j], n)
      BY <2>2, <2>4, <3>1
    <3>3. /\ epochByDbId' = epochByDbId
          /\ copy' = copy \/ copy' = [copy EXCEPT ![i].items = @ \cup msg.items]
      BY <1>4, <2>4 DEF PMessage
    <3>4. msg.items \in SUBSET Items
      BY <2>2, <2>4, Parts
    <3>5. \A j \in Instances : copy'[j].stage = copy[j].stage /\ copy'[j].keyId = copy[j].keyId
      BY <1>1, <3>3, <3>4, CopyTakes
    <3> QED BY <2>3, <3>2, <3>3, <3>5 DEF EpochInv, Reached, Reads, Known, Pending, Loaded
  <2>5. CASE msg.type = "epoch"
    <3> DEFINE k == msg.keyId
    <3>1. k \in 1 .. MaxEpoch /\ msg = Epoch(k)
      BY <2>2, <2>5, Parts
    <3>2. RaiseEpoch(i, k)
      BY <1>4, <2>5 DEF PMessage
    <3>3. \A n : Epoch(k) = Epoch(n) <=> n = k
      <4>1. \A n : Epoch(n).keyId = n
        BY DEF Epoch
      <4> QED BY <4>1
    <3> HIDE DEF msg, k
    <3>4. \A j \in Instances : \A n : Tells(queue[j], n) <=> Tells(queue'[j], n) \/ (j = i /\ n = k)
      BY <2>2, <3>1, <3>3
    <3>5. k <= row.keyId
      BY <3>4 DEF EpochInv, Reached
    <3>6. /\ \A j \in Instances : copy'[j].stage = copy[j].stage
          /\ \A j \in Instances : copy'[j].keyId = IF j = i /\ Loaded(i) THEN Higher(copy[j].keyId, k) ELSE copy[j].keyId
          /\ \A j \in Instances : epochByDbId'[j] = IF j = i THEN Higher(epochByDbId[j], k) ELSE epochByDbId[j]
      BY <1>1, <3>1, <3>2, EpochRaised
    <3>7. \A j \in Instances :
            /\ Higher(copy[j].keyId, k) <= row.keyId /\ Higher(epochByDbId[j], k) <= row.keyId
            /\ k = row.keyId => Higher(copy[j].keyId, k) = row.keyId /\ Higher(epochByDbId[j], k) = row.keyId
            /\ copy[j].keyId = row.keyId => Higher(copy[j].keyId, k) = row.keyId
            /\ epochByDbId[j] = row.keyId => Higher(epochByDbId[j], k) = row.keyId
      BY <3>1, <3>5, RaisedWithin
    <3>8. Reached' /\ Reads'
      BY <2>3, <3>4, <3>6, <3>7 DEF EpochInv, Reached, Reads
    <3>9. \A j \in Instances : Pending(j) => Pending(j)' \/ (j = i /\ k = row.keyId)
      BY <2>3, <3>4 DEF Pending
    <3>10. Known'
      BY <2>3, <3>6, <3>7, <3>9 DEF EpochInv, Known, Loaded
    <3> QED BY <3>8, <3>10
  <2> QED BY <2>2, <2>4, <2>5, Parts
<1>5. CASE Lose(i)
  <2> DEFINE msg == Head(queue[i])
  <2>1. queue[i] # <<>> /\ queue' = [queue EXCEPT ![i] = Tail(@)]
    BY <1>5 DEF Lose
  <2>2. \A j \in Instances : \A n : Tells(queue[j], n) <=> Tells(queue'[j], n) \/ (j = i /\ msg = Epoch(n))
    BY <1>1, <2>1, HandedTo
  <2>3. UNCHANGED <<claimed, row, copy, read, epochByDbId>>
    BY <1>5 DEF Lose
  <2>4. \A n : Epoch(n).type = "epoch"
    BY DEF Epoch
  <2>5. deaf' = IF msg.type = "epoch" THEN [deaf EXCEPT ![i] = copy[i].stage # "absent"] ELSE deaf
    BY <1>5 DEF Lose
  <2>6. deaf \in [Instances -> BOOLEAN]
    BY <1>1 DEF TypeOK
  <2>7. /\ \A j \in Instances \ {i} : deaf'[j] <=> deaf[j]
        /\ deaf'[i] <=> IF msg.type = "epoch" THEN copy[i].stage # "absent" ELSE deaf[i]
    BY <2>5, <2>6, Zenon
  <2> HIDE DEF msg
  <2>8. Reached' /\ Reads'
    BY <2>2, <2>3 DEF EpochInv, Reached, Reads
  <2>9. \A j \in Instances : copy[j].stage # "absent" /\ Pending(j) => Pending(j)'
    BY <2>2, <2>3, <2>4, <2>7 DEF Pending
  <2>10. Known'
    BY <2>3, <2>9 DEF EpochInv, Reads, Known, Loaded
  <2> QED BY <2>8, <2>10
<1> QED BY <1>2, <1>3, <1>4, <1>5

\* Persistence, unloading and crashes.
LEMMA StoreEpoch ==
  ASSUME EpochInv, NEW i \in Instances, PersistTimeout(i) \/ WriteLands(i) \/ Unload(i) \/ Crash(i)
  PROVE  Reached' /\ Reads' /\ Known'
<1>1. TypeOK /\ row.keyId \in Nat /\ Absent.keyId = 0 /\ Absent.stage = "absent" /\ NoRead.keyId = -1
  BY Numbers DEF EpochInv, Absent, NoRead
<1>2. CASE PersistTimeout(i)
  BY <1>2 DEF PersistTimeout, EpochInv, Reached, Reads, Known, Pending, Loaded
<1>3. CASE WriteLands(i)
  <2>1. row'.keyId = row.keyId /\ UNCHANGED <<claimed, copy, read, epochByDbId, queue, deaf>>
    BY <1>1, <1>3 DEF WriteLands, TypeOK, Row
  <2> QED BY <2>1 DEF EpochInv, Reached, Reads, Known, Pending, Loaded
<1>4. CASE Unload(i)
  <2>1. /\ \A j \in Instances : copy'[j] = IF j = i THEN Absent ELSE copy[j]
        /\ Loaded(i) /\ UNCHANGED <<claimed, row, read, epochByDbId, queue>>
    BY <1>1, <1>4 DEF Unload, TypeOK
  <2>2. \A j \in Instances \ {i} : deaf[j] <=> deaf'[j]
    BY <1>1, <1>4, Zenon DEF Unload, TypeOK
  <2>3. Reached' /\ Reads'
    BY <1>1, <2>1 DEF EpochInv, Reached, Reads, Loaded
  <2>4. read[i] = NoRead
    BY <2>1 DEF EpochInv, Reads, Loaded
  <2>5. Known'
    BY <1>1, <2>1, <2>2, <2>4 DEF EpochInv, Known, Pending, Loaded
  <2> QED BY <2>3, <2>5
<1>5. CASE Crash(i)
  <2>1. /\ \A j \in Instances : copy'[j] = IF j = i THEN Absent ELSE copy[j]
        /\ \A j \in Instances : read'[j] = IF j = i THEN NoRead ELSE read[j]
        /\ \A j \in Instances : epochByDbId'[j] = IF j = i THEN 0 ELSE epochByDbId[j]
        /\ \A j \in Instances : claimed'[j] = IF j = i THEN 0 ELSE claimed[j]
        /\ \A j \in Instances : queue'[j] = IF j = i THEN <<>> ELSE queue[j]
        /\ row' = row
    BY <1>1, <1>5 DEF Crash, TypeOK
  <2>2. \A j \in Instances \ {i} : deaf[j] \/ (claimed[i] > 0 /\ copy[j].stage # "absent") => deaf'[j]
    BY <1>5, Zenon DEF Crash
  <2>3. \A k : ~Tells(<<>>, k)
    BY NothingUnderWay
  <2>4. Reached'
    BY <1>1, <2>1, <2>3 DEF EpochInv, Reached
  <2>5. Reads'
    BY <2>1 DEF EpochInv, Reads
  <2>6. ASSUME NEW j \in Instances, j # i, copy[j].stage # "absent", Pending(j), row.keyId > 0
        PROVE  Pending(j)'
    BY <1>1, <2>1, <2>2, <2>6 DEF Pending
  <2>7. \A j \in Instances : row.keyId = 0 => copy[j].keyId = row.keyId /\ epochByDbId[j] = row.keyId
    BY <1>1, Numbers DEF EpochInv, Reached
  <2>8. Known'
    BY <1>1, <2>1, <2>6, <2>7 DEF EpochInv, Reads, Known, Loaded
  <2> QED BY <2>4, <2>5, <2>8
<1> QED BY <1>2, <1>3, <1>4, <1>5

LEMMA NextEpoch ==
  ASSUME EpochInv, [Next]_vars
  PROVE  EpochInv'
<1>1. TypeOK'
  BY NextTyped DEF EpochInv
<1>2. CASE UNCHANGED vars
  BY <1>1, <1>2 DEF vars, EpochInv, Reached, Reads, Known, Pending, Loaded
<1>3. CASE Next
  BY <1>1, <1>3, LoadEpoch, ClientEpoch, MessageEpoch, StoreEpoch DEF Next, EpochInv
<1> QED BY <1>2, <1>3

LEMMA LoadedKnows ==
  ASSUME EpochInv
  PROVE  EpochKnown
<1>1. \A j \in Instances : Announced(j, row.keyId) <=> Tells(queue[j], row.keyId)
  BY UnheardCarries DEF EpochInv, TypeOK
<1> QED BY <1>1 DEF EpochInv, Known, Pending, EpochKnown

\* A loaded copy has the room's epoch, or is still to be told, or the telling
\* was lost.
THEOREM EpochIsKnown == Spec => []EpochKnown
BY InitEpoch, NextEpoch, LoadedKnows, PTL DEF Spec
=============================================================================

--------------------------- MODULE PresenceProofs ---------------------------
(***************************************************************************)
(* What holds of Presence for any devices, sockets and bounds: its type    *)
(* correctness, that nobody's clock is ahead of its owner's, that the      *)
(* server has no entry it would not clear, and that who types is shown to  *)
(* whoever is in the room or is being sent it.                             *)
(***************************************************************************)
EXTENDS Presence, TLAPS

-----------------------------------------------------------------------------
(* Lemmas: queues.                                                          *)

\* x is in the queue.
In(q, x) == \E k \in 1 .. Len(q) : q[k] = x

LEMMA InAppended ==
  ASSUME NEW S, NEW q \in Seq(S), NEW y \in S
  PROVE  Append(q, y) \in Seq(S) /\ \A x : In(Append(q, y), x) => In(q, x) \/ x = y
<1>1. /\ Append(q, y) \in Seq(S) /\ Len(Append(q, y)) = Len(q) + 1 /\ Len(q) \in Nat
      /\ \A n \in 1 .. Len(q) : Append(q, y)[n] = q[n]
      /\ Append(q, y)[Len(q) + 1] = y
  OBVIOUS
<1>2. \A n \in 1 .. Len(q) + 1 : n \in 1 .. Len(q) \/ n = Len(q) + 1
  BY <1>1
<1>3. ASSUME NEW x, In(Append(q, y), x) PROVE In(q, x) \/ x = y
  BY <1>1, <1>2, <1>3, Zenon DEF In
<1> QED BY <1>1, <1>3

LEMMA InTail ==
  ASSUME NEW S, NEW q \in Seq(S), q # <<>>
  PROVE  /\ Tail(q) \in Seq(S) /\ Head(q) \in S /\ In(q, Head(q))
         /\ \A x : In(Tail(q), x) => In(q, x)
<1>1. /\ Tail(q) \in Seq(S) /\ Head(q) \in S /\ Len(Tail(q)) = Len(q) - 1 /\ Len(q) \in Nat /\ Len(q) > 0
      /\ \A n \in 1 .. Len(q) - 1 : Tail(q)[n] = q[n + 1]
      /\ Head(q) = q[1]
  OBVIOUS
<1>2. 1 \in 1 .. Len(q) /\ \A n \in 1 .. Len(q) - 1 : n + 1 \in 1 .. Len(q)
  BY <1>1
<1>3. ASSUME NEW x, In(Tail(q), x) PROVE In(q, x)
  BY <1>1, <1>2, <1>3, Zenon DEF In
<1>4. In(q, Head(q))
  BY <1>1, <1>2, Zenon DEF In
<1> QED BY <1>1, <1>3, <1>4

LEMMA InEmpty == \A x : ~In(<<>>, x)
BY DEF In

LEMMA InOne ==
  ASSUME NEW S, NEW y \in S
  PROVE  <<y>> \in Seq(S) /\ \A x : In(<<y>>, x) => x = y
BY DEF In

\* The table f with v at a and b.
Put(f, a, b, v) == [f EXCEPT ![a][b] = v]

-----------------------------------------------------------------------------
(* Types.                                                                   *)

States  == {"none", "here", "typing"}
Clocked == [clock : Nat, state : States]

\* A frame has entries of talkers.
Frames == UNION {[T -> Clocked] : T \in SUBSET Talkers}

\* A socket's queue.
Queues == Seq(Clocked)

\* What is known, and what is under way.
Knowing  == know \in [Observers -> [Talkers -> Clocked]]
ToServer == toServer \in [Devices -> [Sockets -> Seq(Clocked)]]
Silent   == \A d \in Devices \ Talkers : \A n \in Sockets : toServer[d][n] = <<>>
ToClient == toClient \in [Devices -> Seq(Frames)]

\* A device that is up uses a socket of its own.
Newest ==
  /\ newest \in [Devices -> Nat] /\ up \in [Devices -> BOOLEAN]
  /\ \A d \in Devices : up[d] => newest[d] \in Sockets

Types == Knowing /\ ToServer /\ Silent /\ ToClient /\ Newest

\* Entries, and frames with one of them.
LEMMA Entries ==
  /\ Unknown \in Clocked /\ Announced \in Clocked /\ Unknown.clock = 0 /\ Announced.clock = 1
  /\ Unknown.state = "none"
  /\ \A e \in Clocked :
       /\ e.clock \in Nat /\ Removed(e) \in Clocked /\ Removed(e).clock = e.clock /\ Removed(e).state = "none"
       /\ Later(e) \in Clocked /\ Later(e).clock >= e.clock
<1>1. Unknown \in Clocked /\ Announced \in Clocked /\ Unknown.clock = 0 /\ Announced.clock = 1 /\ Unknown.state = "none"
  BY DEF Unknown, Announced, Clocked, States
<1>2. ASSUME NEW e \in Clocked
      PROVE  e.clock \in Nat /\ Removed(e) \in Clocked /\ Removed(e).clock = e.clock /\ Removed(e).state = "none"
  BY DEF Removed, Clocked, States
<1>3. ASSUME NEW e \in Clocked
      PROVE  Later(e) \in Clocked /\ Later(e).clock >= e.clock
  <2> DEFINE c == IF e.clock < MaxClock THEN e.clock + 1 ELSE e.clock
  <2>1. c \in Nat /\ c >= e.clock
    BY DEF Clocked
  <2>2. Later(e) = [e EXCEPT !.clock = c]
    BY DEF Later
  <2> HIDE DEF c
  <2> QED BY <2>1, <2>2 DEF Clocked
<1> QED BY <1>1, <1>2, <1>3

LEMMA OneEntry ==
  ASSUME NEW t \in Talkers, NEW e \in Clocked
  PROVE  Only(t, e) \in Frames /\ DOMAIN Only(t, e) = {t} /\ Only(t, e)[t] = e
<1>1. Only(t, e) \in [{t} -> Clocked] /\ DOMAIN Only(t, e) = {t} /\ Only(t, e)[t] = e
  BY DEF Only
<1>2. [{t} -> Clocked] \in {[T -> Clocked] : T \in SUBSET Talkers}
  BY Zenon
<1> QED BY <1>1, <1>2, Zenon DEF Frames

\* An entry of what o knows is changed.
LEMMA EntryChanges ==
  ASSUME Knowing, NEW o \in Observers, NEW t \in Talkers, NEW e \in Clocked,
         know' = Put(know, o, t, e)
  PROVE  /\ Knowing'
         /\ \A p \in Observers : \A s \in Talkers : know'[p][s] = IF p = o /\ s = t THEN e ELSE know[p][s]
<1>1. know' = [know EXCEPT ![o] = [know[o] EXCEPT ![t] = e]]
  BY DEF Put
<1>2. know[o] \in [Talkers -> Clocked]
  BY DEF Knowing
<1>3. [know[o] EXCEPT ![t] = e] \in [Talkers -> Clocked]
  BY <1>2
<1>4. Knowing'
  BY <1>1, <1>3, Zenon DEF Knowing
<1>5. know'[o] = [know[o] EXCEPT ![t] = e] /\ \A p \in Observers \ {o} : know'[p] = know[p]
  BY <1>1, Zenon DEF Knowing
<1>6. \A s \in Talkers : [know[o] EXCEPT ![t] = e][s] = IF s = t THEN e ELSE know[o][s]
  BY <1>2
<1>7. \A s \in Talkers : know'[o][s] = IF s = t THEN e ELSE know[o][s]
  BY <1>5, <1>6
<1>8. \A p \in Observers \ {o} : \A s \in Talkers : know'[p][s] = know[p][s]
  BY <1>5
<1> QED BY <1>4, <1>7, <1>8

\* All that o knows is changed.
LEMMA RowChanges ==
  ASSUME Knowing, NEW o \in Observers, NEW row \in [Talkers -> Clocked],
         know' = [know EXCEPT ![o] = row]
  PROVE  /\ Knowing'
         /\ \A s \in Talkers : know'[o][s] = row[s]
         /\ \A p \in Observers \ {o} : \A s \in Talkers : know'[p][s] = know[p][s]
<1>1. Knowing' /\ know'[o] = row /\ \A p \in Observers \ {o} : know'[p] = know[p]
  BY Zenon DEF Knowing
<1> QED BY <1>1

\* The queue of one socket is changed.
LEMMA SocketChanges ==
  ASSUME ToServer, NEW d \in Devices, NEW n \in Sockets, NEW q \in Queues,
         toServer' = Put(toServer, d, n, q)
  PROVE  /\ ToServer'
         /\ \A e \in Devices : \A m \in Sockets : toServer'[e][m] = IF e = d /\ m = n THEN q ELSE toServer[e][m]
<1>1. toServer' = [toServer EXCEPT ![d] = [toServer[d] EXCEPT ![n] = q]]
  BY DEF Put
<1>2. toServer[d] \in [Sockets -> Seq(Clocked)]
  BY Zenon DEF ToServer
<1>3. [toServer[d] EXCEPT ![n] = q] \in [Sockets -> Seq(Clocked)]
  BY <1>2, Zenon DEF Queues
<1>4. ToServer'
  BY <1>1, <1>3, Zenon DEF ToServer
<1>5. toServer'[d] = [toServer[d] EXCEPT ![n] = q] /\ \A e \in Devices \ {d} : toServer'[e] = toServer[e]
  BY <1>1, Zenon DEF ToServer
<1>6. \A m \in Sockets : [toServer[d] EXCEPT ![n] = q][m] = IF m = n THEN q ELSE toServer[d][m]
  BY <1>2
<1>7. \A m \in Sockets : toServer'[d][m] = IF m = n THEN q ELSE toServer[d][m]
  BY <1>5, <1>6
<1>8. \A e \in Devices \ {d} : \A m \in Sockets : toServer'[e][m] = toServer[e][m]
  BY <1>5
<1> QED BY <1>4, <1>7, <1>8

LEMMA NoQueue == <<>> \in Queues
BY DEF Queues

\* A frame is sent to all, or to one.
LEMMA FanOutTyped ==
  ASSUME ToClient, NEW frame \in Frames, NEW except, FanOut(frame, except)
  PROVE  /\ ToClient'
         /\ \A d \in Devices : \A g : In(toClient'[d], g) => In(toClient[d], g) \/ g = frame
<1>1. \A d \in Devices : toClient[d] \in Seq(Frames)
  BY Zenon DEF ToClient
<1>2. \A d \in Devices : toClient'[d] = toClient[d] \/ toClient'[d] = Append(toClient[d], frame)
  BY DEF FanOut
<1>3. \A d \in Devices : Append(toClient[d], frame) \in Seq(Frames)
                         /\ \A g : In(Append(toClient[d], frame), g) => In(toClient[d], g) \/ g = frame
  BY <1>1, InAppended
<1>4. ToClient'
  BY <1>1, <1>3 DEF FanOut, ToClient
<1>5. ASSUME NEW d \in Devices, NEW g, In(toClient'[d], g) PROVE In(toClient[d], g) \/ g = frame
  BY <1>2, <1>3, <1>5
<1> QED BY <1>4, <1>5

LEMMA QueueChanges ==
  ASSUME ToClient, NEW d \in Devices, NEW q \in Seq(Frames), toClient' = [toClient EXCEPT ![d] = q]
  PROVE  ToClient' /\ \A e \in Devices : toClient'[e] = IF e = d THEN q ELSE toClient[e]
BY Zenon DEF ToClient
-----------------------------------------------------------------------------
(* Clocks.                                                                  *)

\* Nobody knows of a later clock than the owner's, and none is under way.
Leads ==
  /\ \A o \in Observers : \A t \in Talkers : know[o][t].clock <= know[t][t].clock
  /\ \A d \in Devices : \A g : In(toClient[d], g) => \A t \in DOMAIN g : g[t].clock <= know[t][t].clock
  /\ \A t \in Talkers : \A n \in Sockets : \A e : In(toServer[t][n], e) => e.clock <= know[t][t].clock

ClockInv == Types /\ Leads

\* What a step may do: owners' clocks rise, entries stay behind them, and what
\* is sent is not ahead.
Rise    == \A t \in Talkers : know'[t][t].clock >= know[t][t].clock
Behind  == \A o \in Observers : \A t \in Talkers : know'[o][t].clock <= know'[t][t].clock
FramesOld ==
  \A d \in Devices : \A g : In(toClient'[d], g) => In(toClient[d], g) \/ \A t \in DOMAIN g : g[t].clock <= know[t][t].clock
SentOld ==
  \A t \in Talkers : \A n \in Sockets : \A e :
    In(toServer'[t][n], e) => In(toServer[t][n], e) \/ e.clock <= know'[t][t].clock

LEMMA Parties == Talkers \subseteq Devices /\ Devices \subseteq Observers /\ Server \in Observers /\ Server \notin Devices
BY PresenceAssumption DEF Observers

\* Whatever is known or under way has a number for a clock.
LEMMA ClocksAreNumbers ==
  ASSUME Types
  PROVE  /\ \A o \in Observers : \A t \in Talkers : know[o][t] \in Clocked /\ know[o][t].clock \in Nat
         /\ \A d \in Devices : \A g : In(toClient[d], g) =>
              g \in Frames /\ \A t \in DOMAIN g : t \in Talkers /\ g[t] \in Clocked /\ g[t].clock \in Nat
         /\ \A d \in Devices : \A n \in Sockets : toServer[d][n] \in Seq(Clocked)
         /\ \A d \in Devices : \A n \in Sockets : \A e : In(toServer[d][n], e) => e \in Clocked /\ e.clock \in Nat
<1>1. \A o \in Observers : \A t \in Talkers : know[o][t] \in Clocked
  BY Zenon DEF Types, Knowing
<1>2. ASSUME NEW d \in Devices, NEW g, In(toClient[d], g)
      PROVE  g \in Frames /\ \A t \in DOMAIN g : t \in Talkers /\ g[t] \in Clocked
  <2>1. toClient[d] \in Seq(Frames)
    BY Zenon DEF Types, ToClient
  <2>2. g \in Frames
    BY <1>2, <2>1 DEF In
  <2>3. PICK T \in SUBSET Talkers : g \in [T -> Clocked]
    BY <2>2, Zenon DEF Frames
  <2> QED BY <2>2, <2>3
<1>3. \A d \in Devices : \A n \in Sockets : toServer[d][n] \in Seq(Clocked)
  BY Zenon DEF Types, ToServer
<1>4. ASSUME NEW d \in Devices, NEW n \in Sockets, NEW e, In(toServer[d][n], e) PROVE e \in Clocked
  BY <1>3, <1>4 DEF In
<1> QED BY <1>1, <1>2, <1>3, <1>4, Entries

LEMMA LeadsKept ==
  ASSUME ClockInv, Types', Rise, Behind, FramesOld, SentOld
  PROVE  ClockInv'
<1>1. \A t \in Talkers : know[t][t].clock \in Nat /\ know'[t][t].clock \in Nat /\ know'[t][t].clock >= know[t][t].clock
  <2>1. \A t \in Talkers : know[t][t].clock \in Nat
    BY ClocksAreNumbers, Parties DEF ClockInv
  <2>2. \A t \in Talkers : know'[t][t] \in Clocked
    BY Parties, Zenon DEF Types, Knowing
  <2> QED BY <2>1, <2>2, Entries DEF Rise
<1>2. ASSUME NEW d \in Devices, NEW g, In(toClient'[d], g), NEW t \in DOMAIN g
      PROVE  g[t].clock <= know'[t][t].clock
  <2>1. g[t].clock <= know[t][t].clock
    BY <1>2 DEF FramesOld, ClockInv, Leads
  <2>2. t \in Talkers /\ g[t].clock \in Nat
    <3>1. toClient'[d] \in Seq(Frames)
      BY Zenon DEF Types, ToClient
    <3>2. g \in Frames
      BY <1>2, <3>1 DEF In
    <3>3. PICK T \in SUBSET Talkers : g \in [T -> Clocked]
      BY <3>2, Zenon DEF Frames
    <3>4. t \in Talkers /\ g[t] \in Clocked
      BY <3>3
    <3> QED BY <3>4, Entries
  <2> QED BY <1>1, <2>1, <2>2
<1>3. ASSUME NEW t \in Talkers, NEW n \in Sockets, NEW e, In(toServer'[t][n], e)
      PROVE  e.clock <= know'[t][t].clock
  <2>1. CASE e.clock <= know'[t][t].clock
    BY <2>1
  <2>2. CASE In(toServer[t][n], e)
    <3>1. e.clock <= know[t][t].clock /\ e.clock \in Nat
      BY <2>2, ClocksAreNumbers, Parties DEF ClockInv, Leads
    <3> QED BY <1>1, <3>1
  <2> QED BY <1>3, <2>1, <2>2 DEF SentOld
<1>4. Leads'
  BY <1>2, <1>3 DEF Leads, Behind
<1> QED BY <1>4 DEF ClockInv

\* Only what the invariant does not speak of is changed.
LEMMA NothingSent ==
  ASSUME ClockInv, UNCHANGED <<know, toServer>>, ToClient', Newest', FramesOld
  PROVE  ClockInv'
<1>1. Types'
  BY DEF ClockInv, Types, Knowing, ToServer, Silent
<1>2. Rise /\ Behind /\ SentOld
  BY ClocksAreNumbers, Parties DEF ClockInv, Leads, Rise, Behind, SentOld
<1> QED BY <1>1, <1>2, LeadsKept

LEMMA InitClock ==
  ASSUME Init
  PROVE  ClockInv
<1>1. know = [o \in Observers |-> [t \in Talkers |-> IF o = t THEN Announced ELSE Unknown]]
  BY DEF Init
<1>2. \A o \in Observers : [t \in Talkers |-> IF o = t THEN Announced ELSE Unknown] \in [Talkers -> Clocked]
  BY Entries
<1>3. Knowing
  BY <1>1, <1>2, Zenon DEF Knowing
<1>4. \A o \in Observers : \A t \in Talkers : know[o][t] = IF o = t THEN Announced ELSE Unknown
  BY <1>1
<1>5. \A d \in Devices : \A n \in Sockets : toServer[d][n] = <<>>
  BY DEF Init
<1>6. <<>> \in Seq(Clocked) /\ <<>> \in Seq(Frames)
  OBVIOUS
<1>7. [n \in Sockets |-> <<>>] \in [Sockets -> Seq(Clocked)]
  BY <1>6
<1>8. ToServer /\ Silent
  BY <1>5, <1>7, Zenon DEF Init, ToServer, Silent
<1>9. ToClient
  BY <1>6, Zenon DEF Init, ToClient
<1>10. \A d \in Devices : toClient[d] = <<>> /\ ~up[d]
  BY Zenon DEF Init
<1>11. newest \in [Devices -> Nat] /\ up \in [Devices -> BOOLEAN]
  BY DEF Init
<1>12. Leads
  BY <1>4, <1>5, <1>10, InEmpty, Entries, Parties DEF Leads
<1> QED BY <1>3, <1>8, <1>9, <1>10, <1>11, <1>12 DEF ClockInv, Types, Newest

-----------------------------------------------------------------------------
(* The device.                                                              *)

LEMMA OpenClock ==
  ASSUME ClockInv, NEW d \in Devices, Open(d)
  PROVE  ClockInv'
<1> DEFINE m == newest[d] + 1
<1>1. m \in Nat /\ m \in 1 .. MaxSockets[d] /\ newest[d] \in Nat
  <2>1. newest[d] \in Nat /\ newest[d] < MaxSockets[d]
    BY DEF Open, ClockInv, Types, Newest
  <2>2. MaxSockets[d] \in Nat
    BY PresenceAssumption
  <2> QED BY <2>1, <2>2
<1>2. m \in Sockets
  <2> HIDE DEF m
  <2> QED BY <1>1, Zenon DEF Sockets
<1>3. /\ know' = know /\ toClient' = toClient
      /\ newest' = [newest EXCEPT ![d] = m] /\ up' = [up EXCEPT ![d] = TRUE]
      /\ toServer' = IF d \in Talkers THEN Put(toServer, d, m, <<know[d][d]>>) ELSE toServer
  BY DEF Open, Put
<1> HIDE DEF m
<1>4. newest' \in [Devices -> Nat] /\ \A e \in Devices : newest'[e] = IF e = d THEN m ELSE newest[e]
  BY <1>1, <1>3 DEF ClockInv, Types, Newest
<1>5. up' \in [Devices -> BOOLEAN] /\ \A e \in Devices : up'[e] => e = d \/ up[e]
  BY <1>3, Zenon DEF ClockInv, Types, Newest
<1>6. Newest'
  BY <1>2, <1>4, <1>5 DEF ClockInv, Types, Newest
<1>7. /\ ToServer' /\ Silent'
      /\ \A t \in Talkers : \A n \in Sockets : \A e :
           In(toServer'[t][n], e) => In(toServer[t][n], e) \/ (t = d /\ e = know[d][d])
  <2>1. CASE d \notin Talkers
    BY <1>3, <2>1 DEF ClockInv, Types, ToServer, Silent
  <2>2. CASE d \in Talkers
    <3>1. know[d][d] \in Clocked
      BY <2>2, ClocksAreNumbers, Parties DEF ClockInv
    <3>2. <<know[d][d]>> \in Queues /\ \A e : In(<<know[d][d]>>, e) => e = know[d][d]
      BY <3>1, InOne DEF Queues
    <3>3. /\ ToServer'
          /\ \A e \in Devices : \A n \in Sockets :
               toServer'[e][n] = IF e = d /\ n = m THEN <<know[d][d]>> ELSE toServer[e][n]
      BY <1>2, <1>3, <2>2, <3>2, SocketChanges DEF ClockInv, Types
    <3>4. Silent'
      BY <2>2, <3>3 DEF ClockInv, Types, Silent
    <3> QED BY <3>2, <3>3, <3>4, Parties
  <2> QED BY <2>1, <2>2
<1>8. Types'
  BY <1>3, <1>6, <1>7 DEF ClockInv, Types, Knowing, ToClient
<1>9. Rise /\ Behind /\ FramesOld
  BY <1>3, ClocksAreNumbers, Parties DEF ClockInv, Leads, Rise, Behind, FramesOld
<1>10. SentOld
  <2>1. d \in Talkers => know[d][d].clock <= know[d][d].clock
    BY ClocksAreNumbers, Parties DEF ClockInv
  <2> QED BY <1>3, <1>7, <2>1 DEF SentOld
<1> QED BY <1>8, <1>9, <1>10, LeadsKept

LEMMA DownClock ==
  ASSUME ClockInv, NEW d \in Devices, Down(d)
  PROVE  ClockInv'
<1>1. /\ up' = [up EXCEPT ![d] = FALSE] /\ toClient' = [toClient EXCEPT ![d] = <<>>]
      /\ UNCHANGED <<know, toServer, newest>>
  BY DEF Down
<1>2. up' \in [Devices -> BOOLEAN] /\ \A e \in Devices : up'[e] => up[e]
  BY <1>1, Zenon DEF ClockInv, Types, Newest
<1>3. Newest'
  BY <1>1, <1>2 DEF ClockInv, Types, Newest
<1>4. <<>> \in Seq(Frames)
  OBVIOUS
<1>5. ToClient' /\ \A e \in Devices : toClient'[e] = IF e = d THEN <<>> ELSE toClient[e]
  BY <1>1, <1>4, QueueChanges DEF ClockInv, Types
<1>6. FramesOld
  BY <1>5, InEmpty DEF FramesOld
<1> QED BY <1>1, <1>3, <1>5, <1>6, NothingSent

\* The device changes its own entry: the clock rises.
LEMMA TypeClock ==
  ASSUME ClockInv, NEW d \in Talkers, NEW state \in {"here", "typing"}, Type(d, state)
  PROVE  ClockInv'
<1> DEFINE e == [clock |-> know[d][d].clock + 1, state |-> state]
<1>1. d \in Devices /\ d \in Observers /\ know[d][d] \in Clocked /\ know[d][d].clock \in Nat
  BY ClocksAreNumbers, Parties DEF ClockInv
<1>2. e \in Clocked /\ e.clock = know[d][d].clock + 1
  BY <1>1 DEF Clocked, States
<1>3. know' = Put(know, d, d, e) /\ UNCHANGED <<newest, up, toClient>>
  BY DEF Type, Put
<1>4. toServer' = IF up[d] THEN Put(toServer, d, newest[d], Append(toServer[d][newest[d]], know'[d][d])) ELSE toServer
  BY DEF Type, Put
<1> HIDE DEF e
<1>5. Knowing' /\ \A p \in Observers : \A t \in Talkers : know'[p][t] = IF p = d /\ t = d THEN e ELSE know[p][t]
  BY <1>1, <1>2, <1>3, EntryChanges DEF ClockInv, Types
<1>6. know'[d][d] = e
  BY <1>1, <1>5
<1>7. /\ ToServer' /\ Silent'
      /\ \A t \in Talkers : \A n \in Sockets : \A x :
           In(toServer'[t][n], x) => In(toServer[t][n], x) \/ (t = d /\ x = e)
  <2>1. CASE ~up[d]
    BY <1>4, <2>1 DEF ClockInv, Types, ToServer, Silent
  <2>2. CASE up[d]
    <3> DEFINE m == newest[d]
               q == Append(toServer[d][m], e)
    <3>1. m \in Sockets
      BY <1>1, <2>2 DEF ClockInv, Types, Newest
    <3>2. toServer[d][m] \in Seq(Clocked)
      BY <1>1, <3>1, ClocksAreNumbers DEF ClockInv
    <3>3. toServer' = Put(toServer, d, m, q)
      BY <1>4, <1>6, <2>2
    <3>4. q \in Queues /\ \A x : In(q, x) => In(toServer[d][m], x) \/ x = e
      BY <1>2, <3>2, InAppended DEF Queues
    <3> HIDE DEF m, q
    <3>5. /\ ToServer'
          /\ \A c \in Devices : \A n \in Sockets : toServer'[c][n] = IF c = d /\ n = m THEN q ELSE toServer[c][n]
      BY <1>1, <3>1, <3>3, <3>4, SocketChanges DEF ClockInv, Types
    <3>6. Silent'
      BY <3>5 DEF ClockInv, Types, Silent
    <3> QED BY <3>4, <3>5, <3>6, Parties
  <2> QED BY <2>1, <2>2
<1>8. Types'
  BY <1>3, <1>5, <1>7 DEF ClockInv, Types, ToClient, Newest
<1>9. Rise
  BY <1>1, <1>2, <1>5, ClocksAreNumbers, Parties DEF ClockInv, Rise
<1>10. Behind
  BY <1>1, <1>2, <1>5, ClocksAreNumbers, Parties DEF ClockInv, Leads, Behind
<1>11. FramesOld
  BY <1>3 DEF FramesOld
<1>12. e.clock <= e.clock
  BY <1>1, <1>2
<1>13. SentOld
  BY <1>6, <1>7, <1>12 DEF SentOld
<1> QED BY <1>8, <1>9, <1>10, <1>11, <1>13, LeadsKept

LEMMA RenewClock ==
  ASSUME ClockInv, NEW d \in Talkers, Renew(d)
  PROVE  ClockInv'
<1> DEFINE e == [know[d][d] EXCEPT !.clock = @ + 1]
<1>1. d \in Devices /\ d \in Observers /\ know[d][d] \in Clocked /\ know[d][d].clock \in Nat
  BY ClocksAreNumbers, Parties DEF ClockInv
<1>2. e \in Clocked /\ e.clock = know[d][d].clock + 1
  BY <1>1 DEF Clocked
<1>3. know' = Put(know, d, d, e) /\ UNCHANGED <<newest, up, toClient, toServer>>
  BY DEF Renew, Put
<1> HIDE DEF e
<1>4. Knowing' /\ \A p \in Observers : \A t \in Talkers : know'[p][t] = IF p = d /\ t = d THEN e ELSE know[p][t]
  BY <1>1, <1>2, <1>3, EntryChanges DEF ClockInv, Types
<1>5. Types'
  BY <1>3, <1>4 DEF ClockInv, Types, ToClient, Newest, ToServer, Silent
<1>6. Rise
  BY <1>1, <1>2, <1>4, ClocksAreNumbers, Parties DEF ClockInv, Rise
<1>7. Behind
  BY <1>1, <1>2, <1>4, ClocksAreNumbers, Parties DEF ClockInv, Leads, Behind
<1>8. FramesOld /\ SentOld
  BY <1>3 DEF FramesOld, SentOld
<1> QED BY <1>5, <1>6, <1>7, <1>8, LeadsKept

\* What the device gets, it takes as it is, but for its own entry.
LEMMA DeliverClock ==
  ASSUME ClockInv, NEW d \in Devices, Deliver(d)
  PROVE  ClockInv'
<1> DEFINE frame == Head(toClient[d])
           Taken(t) == t \in DOMAIN frame /\ Replaces(frame[t], know[d][t])
           row == [t \in Talkers |-> IF ~Taken(t) THEN know[d][t]
                                     ELSE IF t = d THEN Later(know[d][t]) ELSE frame[t]]
<1>1. toClient[d] \in Seq(Frames) /\ toClient[d] # <<>> /\ d \in Observers
  BY Parties DEF Deliver, ClockInv, Types, ToClient
<1>2. Tail(toClient[d]) \in Seq(Frames) /\ In(toClient[d], frame) /\ \A g : In(Tail(toClient[d]), g) => In(toClient[d], g)
  BY <1>1, InTail
<1>3. know' = [know EXCEPT ![d] = row] /\ toClient' = [toClient EXCEPT ![d] = Tail(toClient[d])]
      /\ UNCHANGED <<newest, up, toServer>>
  BY DEF Deliver
<1>4. \A t \in DOMAIN frame : frame[t] \in Clocked /\ frame[t].clock \in Nat /\ frame[t].clock <= know[t][t].clock
  BY <1>2, ClocksAreNumbers DEF ClockInv, Leads
<1>5. \A t \in Talkers : know[d][t] \in Clocked /\ know[d][t].clock \in Nat /\ know[d][t].clock <= know[t][t].clock
  BY <1>1, ClocksAreNumbers DEF ClockInv, Leads
<1> HIDE DEF frame
<1>6. \A t \in Talkers : row[t] = IF ~Taken(t) THEN know[d][t] ELSE IF t = d THEN Later(know[d][t]) ELSE frame[t]
  OBVIOUS
<1>7. row \in [Talkers -> Clocked]
  BY <1>4, <1>5, Entries
<1>8. \A t \in Talkers :
        /\ t = d => row[t].clock >= know[t][t].clock
        /\ t # d => row[t].clock <= know[t][t].clock
  <2>1. ASSUME NEW t \in Talkers, t = d PROVE row[t].clock >= know[t][t].clock
    BY <1>5, <1>6, <2>1, Entries
  <2>2. ASSUME NEW t \in Talkers, t # d PROVE row[t].clock <= know[t][t].clock
    BY <1>4, <1>5, <1>6, <2>2
  <2> QED BY <2>1, <2>2
<1> HIDE DEF row
<1>9. Knowing' /\ (\A t \in Talkers : know'[d][t] = row[t])
      /\ \A p \in Observers \ {d} : \A t \in Talkers : know'[p][t] = know[p][t]
  BY <1>1, <1>3, <1>7, RowChanges DEF ClockInv, Types
<1>10. ToClient' /\ \A c \in Devices : toClient'[c] = IF c = d THEN Tail(toClient[d]) ELSE toClient[c]
  BY <1>2, <1>3, QueueChanges DEF ClockInv, Types
<1>11. Types'
  BY <1>3, <1>9, <1>10 DEF ClockInv, Types, Newest, ToServer, Silent
<1>12. \A t \in Talkers : know'[t][t].clock \in Nat /\ know'[t][t].clock >= know[t][t].clock
  <2>1. \A t \in Talkers : know'[t][t] \in Clocked
    BY <1>9, Parties, Zenon DEF Knowing
  <2> QED BY <1>8, <1>9, <2>1, ClocksAreNumbers, Parties, Entries DEF ClockInv
<1>13. Rise
  BY <1>12 DEF Rise
<1>14. ASSUME NEW o \in Observers, NEW t \in Talkers PROVE know'[o][t].clock <= know'[t][t].clock
  <2>1. CASE o = t
    BY <1>12, <2>1
  <2>2. CASE o # t
    <3>1. know'[o][t].clock <= know[t][t].clock
      BY <1>8, <1>9, <2>2 DEF ClockInv, Leads
    <3>2. know'[o][t].clock \in Nat
      <4>1. know'[o][t] \in Clocked
        BY <1>9, Zenon DEF Knowing
      <4> QED BY <4>1, Entries
    <3> QED BY <1>12, <3>1, <3>2, ClocksAreNumbers, Parties DEF ClockInv
  <2> QED BY <2>1, <2>2
<1>15. Behind
  BY <1>14 DEF Behind
<1>16. FramesOld /\ SentOld
  BY <1>2, <1>3, <1>10 DEF FramesOld, SentOld
<1> QED BY <1>11, <1>13, <1>15, <1>16, LeadsKept

LEMMA LeaveClock ==
  ASSUME ClockInv, NEW d \in Devices, Leave(d)
  PROVE  ClockInv'
<1> DEFINE row == [t \in Talkers |-> IF t = d THEN know[d][t] ELSE Unknown]
<1>1. /\ know' = [know EXCEPT ![d] = row] /\ toClient' = [toClient EXCEPT ![d] = <<>>]
      /\ up' = [up EXCEPT ![d] = FALSE] /\ UNCHANGED <<newest, toServer>>
  BY DEF Leave
<1>2. \A t \in Talkers : know[d][t] \in Clocked /\ know[t][t].clock \in Nat /\ know[d][t].clock <= know[t][t].clock
  BY ClocksAreNumbers, Parties DEF ClockInv, Leads
<1>3. row \in [Talkers -> Clocked] /\ \A t \in Talkers : row[t] = IF t = d THEN know[d][t] ELSE Unknown
  BY <1>2, Entries
<1> HIDE DEF row
<1>4. Knowing' /\ (\A t \in Talkers : know'[d][t] = row[t])
      /\ \A p \in Observers \ {d} : \A t \in Talkers : know'[p][t] = know[p][t]
  BY <1>1, <1>3, RowChanges, Parties DEF ClockInv, Types
<1>5. \A t \in Talkers : know'[t][t] = know[t][t]
  BY <1>3, <1>4, Parties
<1>6. <<>> \in Seq(Frames)
  OBVIOUS
<1>7. ToClient' /\ \A c \in Devices : toClient'[c] = IF c = d THEN <<>> ELSE toClient[c]
  BY <1>1, <1>6, QueueChanges DEF ClockInv, Types
<1>8. up' \in [Devices -> BOOLEAN] /\ \A e \in Devices : up'[e] => up[e]
  BY <1>1, Zenon DEF ClockInv, Types, Newest
<1>9. Types'
  BY <1>1, <1>4, <1>7, <1>8 DEF ClockInv, Types, Newest, ToServer, Silent
<1>10. Rise
  BY <1>2, <1>5 DEF Rise
<1>11. Behind
  <2>1. \A t \in Talkers : Unknown.clock <= know[t][t].clock
    BY <1>2, Entries
  <2> QED BY <1>3, <1>4, <1>5, <1>2, <2>1 DEF ClockInv, Leads, Behind
<1>12. FramesOld /\ SentOld
  BY <1>1, <1>7, InEmpty DEF FramesOld, SentOld
<1> QED BY <1>9, <1>10, <1>11, <1>12, LeadsKept

-----------------------------------------------------------------------------
(* The gateway.                                                             *)

\* The snapshot is of what the server knows.
LEMMA JoinClock ==
  ASSUME ClockInv, NEW d \in Devices, NEW n \in Sockets, Join(d, n)
  PROVE  ClockInv'
<1> DEFINE present == {t \in Talkers : know[Server][t].state # "none"}
           frame   == [t \in present |-> know[Server][t]]
<1>1. UNCHANGED <<know, newest, up, toServer>>
      /\ \/ toClient' = toClient
         \/ toClient' = [toClient EXCEPT ![d] = Append(toClient[d], frame)]
  BY DEF Join
<1>2. Newest'
  BY <1>1 DEF ClockInv, Types, Newest
<1>3. \A t \in present : frame[t] = know[Server][t] /\ know[Server][t] \in Clocked /\ know[Server][t].clock <= know[t][t].clock
  BY ClocksAreNumbers, Parties DEF ClockInv, Leads
<1>4. frame \in [present -> Clocked] /\ DOMAIN frame = present /\ present \in SUBSET Talkers
  BY <1>3
<1> HIDE DEF present, frame
<1>5. frame \in Frames
  BY <1>4, Zenon DEF Frames
<1>6. \A t \in DOMAIN frame : frame[t].clock <= know[t][t].clock
  BY <1>3, <1>4
<1>7. CASE toClient' = toClient
  BY <1>1, <1>2, <1>7, NothingSent DEF ClockInv, Types, ToClient, FramesOld
<1>8. CASE toClient' = [toClient EXCEPT ![d] = Append(toClient[d], frame)]
  <2>1. toClient[d] \in Seq(Frames)
    BY Zenon DEF ClockInv, Types, ToClient
  <2>2. /\ Append(toClient[d], frame) \in Seq(Frames)
        /\ \A g : In(Append(toClient[d], frame), g) => In(toClient[d], g) \/ g = frame
    BY <1>5, <2>1, InAppended
  <2>3. ToClient' /\ \A c \in Devices : toClient'[c] = IF c = d THEN Append(toClient[d], frame) ELSE toClient[c]
    BY <1>8, <2>2, QueueChanges DEF ClockInv, Types
  <2>4. FramesOld
    BY <1>6, <2>2, <2>3 DEF FramesOld
  <2> QED BY <1>1, <1>2, <2>3, <2>4, NothingSent
<1> QED BY <1>1, <1>7, <1>8

\* The server's entry of t becomes one that is not ahead of its owner's, and
\* may be passed on; frames may leave the queues to the server.
LEMMA ServerTakes ==
  ASSUME ClockInv, NEW t \in Talkers, NEW e \in Clocked, e.clock <= know[t][t].clock, NEW except,
         know' = Put(know, Server, t, e),
         FanOut(Only(t, e), except) \/ toClient' = toClient,
         UNCHANGED <<newest, up>>, ToServer', Silent',
         \A c \in Devices : \A m \in Sockets : \A x : In(toServer'[c][m], x) => In(toServer[c][m], x)
  PROVE  ClockInv'
<1>1. Only(t, e) \in Frames /\ DOMAIN Only(t, e) = {t} /\ Only(t, e)[t] = e
  BY OneEntry
<1>2. ToClient' /\ \A d \in Devices : \A g : In(toClient'[d], g) => In(toClient[d], g) \/ g = Only(t, e)
  <2>1. CASE toClient' = toClient
    BY <2>1 DEF ClockInv, Types, ToClient
  <2>2. CASE FanOut(Only(t, e), except)
    BY <1>1, <2>2, FanOutTyped DEF ClockInv, Types
  <2> QED BY <2>1, <2>2
<1>3. Knowing' /\ \A o \in Observers : \A s \in Talkers : know'[o][s] = IF o = Server /\ s = t THEN e ELSE know[o][s]
  BY EntryChanges, Parties DEF ClockInv, Types
<1>4. \A s \in Talkers : know'[s][s] = know[s][s] /\ know[s][s].clock \in Nat
  BY <1>3, Parties, ClocksAreNumbers DEF ClockInv
<1>5. Types'
  BY <1>2, <1>3 DEF ClockInv, Types, Newest
<1>6. Rise
  BY <1>4 DEF Rise
<1>7. Behind
  BY <1>3, <1>4 DEF ClockInv, Leads, Behind
<1>8. FramesOld
  <2>1. \A s \in DOMAIN Only(t, e) : Only(t, e)[s].clock <= know[s][s].clock
    BY <1>1
  <2> QED BY <1>2, <2>1 DEF FramesOld
<1>9. SentOld
  BY Parties DEF SentOld
<1> QED BY <1>5, <1>6, <1>7, <1>8, <1>9, LeadsKept

\* Nothing is known or passed on; frames may leave the queues to the server.
LEMMA ServerDrops ==
  ASSUME ClockInv, UNCHANGED <<know, toClient, newest, up>>, ToServer', Silent',
         \A c \in Devices : \A m \in Sockets : \A x : In(toServer'[c][m], x) => In(toServer[c][m], x)
  PROVE  ClockInv'
<1>1. Types'
  BY DEF ClockInv, Types, Newest, Knowing, ToClient
<1>2. Rise /\ Behind /\ FramesOld
  BY ClocksAreNumbers, Parties DEF ClockInv, Leads, Rise, Behind, FramesOld
<1>3. SentOld
  BY Parties DEF SentOld
<1> QED BY <1>1, <1>2, <1>3, LeadsKept

LEMMA ArriveClock ==
  ASSUME ClockInv, NEW d \in Devices, NEW n \in Sockets, Arrive(d, n)
  PROVE  ClockInv'
<1> DEFINE q == toServer[d][n]
           new == Head(q)
<1>1. q \in Seq(Clocked) /\ q # <<>> /\ toServer' = Put(toServer, d, n, Tail(q)) /\ UNCHANGED <<newest, up>>
  BY ClocksAreNumbers DEF Arrive, ClockInv, Put
<1>2. Tail(q) \in Seq(Clocked) /\ new \in Clocked /\ In(q, new) /\ \A x : In(Tail(q), x) => In(q, x)
  BY <1>1, InTail
<1>3. d \in Talkers
  BY <1>1 DEF ClockInv, Types, Silent
<1>4. new.clock <= know[d][d].clock
  BY <1>2, <1>3 DEF ClockInv, Leads
<1>5. \/ know' = Put(know, Server, d, new) /\ (FanOut(Only(d, new), <<d, n>>) \/ toClient' = toClient)
      \/ UNCHANGED <<know, toClient>>
  BY DEF Arrive, Put
<1> HIDE DEF q, new
<1>6. ToServer' /\ \A c \in Devices : \A m \in Sockets : toServer'[c][m] = IF c = d /\ m = n THEN Tail(q) ELSE toServer[c][m]
  <2>1. Tail(q) \in Queues /\ toServer' = Put(toServer, d, n, Tail(q)) /\ ToServer
    BY <1>1, <1>2 DEF Queues, ClockInv, Types
  <2> QED BY <2>1, SocketChanges
<1>7. Silent'
  BY <1>3, <1>6 DEF ClockInv, Types, Silent
<1>8. \A c \in Devices : \A m \in Sockets : \A x : In(toServer'[c][m], x) => In(toServer[c][m], x)
  BY <1>2, <1>6 DEF q
<1>9. CASE UNCHANGED <<know, toClient>>
  BY <1>1, <1>6, <1>7, <1>8, <1>9, ServerDrops
<1>10. CASE know' = Put(know, Server, d, new) /\ (FanOut(Only(d, new), <<d, n>>) \/ toClient' = toClient)
  BY <1>1, <1>2, <1>3, <1>4, <1>6, <1>7, <1>8, <1>10, ServerTakes
<1> QED BY <1>5, <1>9, <1>10

LEMMA DisconnectClock ==
  ASSUME ClockInv, NEW d \in Devices, NEW n \in Sockets, HandleDisconnect(d, n)
  PROVE  ClockInv'
<1>1. toServer' = Put(toServer, d, n, <<>>) /\ UNCHANGED <<newest, up>>
  BY DEF HandleDisconnect, Put
<1>2. ToServer
  BY DEF ClockInv, Types
<1>3. ToServer' /\ \A c \in Devices : \A m \in Sockets : toServer'[c][m] = IF c = d /\ m = n THEN <<>> ELSE toServer[c][m]
  BY <1>1, <1>2, NoQueue, SocketChanges
<1>4. Silent' /\ \A c \in Devices : \A m \in Sockets : \A x : In(toServer'[c][m], x) => In(toServer[c][m], x)
  BY <1>3, InEmpty DEF ClockInv, Types, Silent
<1>5. CASE d \in Talkers /\ Clears(d, n)
  <2> DEFINE e == Removed(know[Server][d])
  <2>1. know' = Put(know, Server, d, e) /\ FanOut(Only(d, e), <<d, n>>)
    BY <1>5 DEF HandleDisconnect, Put
  <2>2. e \in Clocked /\ e.clock <= know[d][d].clock
    BY <1>5, ClocksAreNumbers, Parties, Entries DEF ClockInv, Leads
  <2> HIDE DEF e
  <2> QED BY <1>1, <1>3, <1>4, <1>5, <2>1, <2>2, ServerTakes
<1>6. CASE ~(d \in Talkers /\ Clears(d, n))
  BY <1>1, <1>3, <1>4, <1>6, ServerDrops DEF HandleDisconnect
<1> QED BY <1>5, <1>6

LEMMA ExpireClock ==
  ASSUME ClockInv, NEW o \in Observers, NEW t \in Talkers, Expire(o, t)
  PROVE  ClockInv'
<1> DEFINE e == Removed(know[o][t])
<1>1. know' = Put(know, o, t, e) /\ UNCHANGED <<newest, up, toServer>> /\ o # t
      /\ IF o = Server THEN FanOut(Only(t, e), <<>>) ELSE toClient' = toClient
  BY DEF Expire, Put
<1>2. e \in Clocked /\ e.clock <= know[t][t].clock
  BY ClocksAreNumbers, Entries DEF ClockInv, Leads
<1>3. ToServer' /\ Silent' /\ \A c \in Devices : \A m \in Sockets : \A x : In(toServer'[c][m], x) => In(toServer[c][m], x)
  BY <1>1 DEF ClockInv, Types, ToServer, Silent
<1> HIDE DEF e
<1>4. CASE o = Server
  BY <1>1, <1>2, <1>3, <1>4, ServerTakes
<1>5. CASE o # Server
  <2>1. Knowing' /\ \A p \in Observers : \A s \in Talkers : know'[p][s] = IF p = o /\ s = t THEN e ELSE know[p][s]
    BY <1>1, <1>2, EntryChanges DEF ClockInv, Types
  <2>2. \A s \in Talkers : know'[s][s] = know[s][s] /\ know[s][s].clock \in Nat
    BY <1>1, <2>1, Parties, ClocksAreNumbers DEF ClockInv
  <2>3. Types'
    BY <1>1, <1>3, <1>5, <2>1 DEF ClockInv, Types, Newest, ToClient
  <2>4. Rise
    BY <2>2 DEF Rise
  <2>5. Behind
    BY <1>2, <2>1, <2>2 DEF ClockInv, Leads, Behind
  <2>6. FramesOld /\ SentOld
    BY <1>1, <1>3, <1>5, Parties DEF FramesOld, SentOld
  <2> QED BY <2>3, <2>4, <2>5, <2>6, LeadsKept
<1> QED BY <1>4, <1>5

LEMMA NextClock ==
  ASSUME ClockInv, [Next]_vars
  PROVE  ClockInv'
<1>1. ASSUME UNCHANGED <<know, toClient, toServer, newest, up>> PROVE ClockInv'
  BY <1>1, ServerDrops DEF ClockInv, Types, ToServer, Silent
<1>2. CASE UNCHANGED vars
  BY <1>1, <1>2 DEF vars
<1>3. CASE SweepHeartbeats
  BY <1>1, <1>3 DEF SweepHeartbeats
<1>4. ASSUME NEW d \in Devices, Open(d) \/ Down(d) \/ Deliver(d) \/ Leave(d) PROVE ClockInv'
  BY <1>4, OpenClock, DownClock, DeliverClock, LeaveClock
<1>5. ASSUME NEW d \in Devices, NEW n \in Sockets, Join(d, n) \/ Arrive(d, n) \/ HandleDisconnect(d, n) \/ Pong(d, n)
      PROVE  ClockInv'
  <2>1. CASE Pong(d, n)
    BY <1>1, <2>1 DEF Pong
  <2> QED BY <1>5, <2>1, JoinClock, ArriveClock, DisconnectClock
<1>6. ASSUME NEW t \in Talkers,
             Renew(t) \/ (\E state \in {"here", "typing"} : Type(t, state)) \/ \E o \in Observers : Expire(o, t)
      PROVE  ClockInv'
  BY <1>6, RenewClock, TypeClock, ExpireClock
<1> QED BY <1>2, <1>3, <1>4, <1>5, <1>6 DEF Next

LEMMA LeadsSaysSo ==
  ASSUME ClockInv
  PROVE  OwnerLeads
<1>1. ASSUME NEW t \in Talkers, NEW d \in Devices, NEW k \in DOMAIN toClient[d], t \in DOMAIN toClient[d][k]
      PROVE  toClient[d][k][t].clock <= know[t][t].clock
  <2>1. toClient[d] \in Seq(Frames)
    BY Zenon DEF ClockInv, Types, ToClient
  <2>2. k \in 1 .. Len(toClient[d])
    BY <2>1
  <2>3. In(toClient[d], toClient[d][k])
    BY <2>2, Zenon DEF In
  <2> QED BY <1>1, <2>3 DEF ClockInv, Leads
<1> QED BY <1>1 DEF ClockInv, Leads, OwnerLeads

\* Nobody's clock is ahead of its owner's, in any copy or frame.
THEOREM OwnerAlwaysLeads == Spec => []OwnerLeads
BY InitClock, NextClock, LeadsSaysSo, PTL DEF Spec

-----------------------------------------------------------------------------
(* Entries the server has.                                                  *)

Noted == tracked \in [Devices -> [Sockets -> BOOLEAN]]

TrackInv == ClockInv /\ Noted /\ ServerTracks

\* One note is set to v.
LEMMA NoteChanges ==
  ASSUME Noted, NEW d \in Devices, NEW n \in Sockets, NEW v \in BOOLEAN,
         tracked' = Put(tracked, d, n, v)
  PROVE  /\ Noted'
         /\ tracked'[d][n] = v
         /\ \A m \in Sockets \ {n} : tracked'[d][m] = tracked[d][m]
         /\ \A c \in Devices \ {d} : tracked'[c] = tracked[c]
<1>1. tracked' = [tracked EXCEPT ![d] = [tracked[d] EXCEPT ![n] = v]]
  BY DEF Put
<1>2. tracked[d] \in [Sockets -> BOOLEAN]
  BY Zenon DEF Noted
<1>3. [tracked[d] EXCEPT ![n] = v] \in [Sockets -> BOOLEAN]
  BY <1>2, Zenon
<1>4. Noted' /\ tracked'[d] = [tracked[d] EXCEPT ![n] = v] /\ \A c \in Devices \ {d} : tracked'[c] = tracked[c]
  BY <1>1, <1>3, Zenon DEF Noted
<1>5. [tracked[d] EXCEPT ![n] = v][n] = v /\ \A m \in Sockets \ {n} : [tracked[d] EXCEPT ![n] = v][m] = tracked[d][m]
  BY <1>2, Zenon
<1> QED BY <1>4, <1>5, Zenon

\* The notes are left alone, and the server has nothing new.
LEMMA TracksStill ==
  ASSUME TrackInv, tracked' = tracked,
         \A t \in Talkers : know'[Server][t] = know[Server][t] \/ know'[Server][t].state = "none"
  PROVE  Noted' /\ ServerTracks'
<1>1. ASSUME NEW t \in Talkers, know'[Server][t].state # "none" PROVE \E n \in Sockets : tracked[t][n]
  <2>1. know[Server][t].state # "none"
    BY <1>1
  <2> QED BY <2>1 DEF TrackInv, ServerTracks
<1> QED BY <1>1 DEF TrackInv, ServerTracks, Noted

\* What a device does is not known to the server yet.
LEMMA DeviceTracks ==
  ASSUME TrackInv, NEW d \in Devices,
         Open(d) \/ Down(d) \/ Deliver(d) \/ Leave(d)
           \/ (d \in Talkers /\ (Renew(d) \/ \E state \in {"here", "typing"} : Type(d, state)))
  PROVE  Noted' /\ ServerTracks'
<1>1. know \in [Observers -> [Talkers -> Clocked]] /\ d # Server /\ Server \in Observers
  BY Parties DEF TrackInv, ClockInv, Types, Knowing
<1>2. tracked' = tracked
  BY DEF Open, Down, Deliver, Leave, Renew, Type
<1>3. know'[Server] = know[Server]
  <2>1. CASE Open(d) \/ Down(d)
    BY <2>1 DEF Open, Down
  <2>2. CASE Deliver(d)
    BY <1>1, <2>2, Zenon DEF Deliver
  <2>3. CASE Leave(d)
    BY <1>1, <2>3, Zenon DEF Leave
  <2>4. CASE Renew(d)
    BY <1>1, <2>4, Zenon DEF Renew
  <2>5. ASSUME NEW state \in {"here", "typing"}, Type(d, state) PROVE know'[Server] = know[Server]
    BY <1>1, <2>5, Zenon DEF Type
  <2> QED BY <2>1, <2>2, <2>3, <2>4, <2>5
<1> QED BY <1>2, <1>3, TracksStill

\* An entry of the server is changed.
LEMMA ServerEntry ==
  ASSUME TrackInv, NEW d \in Talkers, NEW e \in Clocked, know' = Put(know, Server, d, e)
  PROVE  \A t \in Talkers : know'[Server][t] = IF t = d THEN e ELSE know[Server][t]
<1>1. Knowing /\ Server \in Observers
  BY Parties DEF TrackInv, ClockInv, Types
<1>2. \A p \in Observers : \A s \in Talkers : know'[p][s] = IF p = Server /\ s = d THEN e ELSE know[p][s]
  BY <1>1, EntryChanges
<1> QED BY <1>1, <1>2

\* An entry the server takes is noted for the socket it came from.
LEMMA ArriveTracks ==
  ASSUME TrackInv, NEW d \in Devices, NEW n \in Sockets, Arrive(d, n)
  PROVE  Noted' /\ ServerTracks'
<1> DEFINE new == Head(toServer[d][n])
           old == know[Server][d]
<1>1. CASE UNCHANGED <<know, tracked>>
  BY <1>1, TracksStill
<1>2. CASE ~(UNCHANGED <<know, tracked>>)
  <2>1. /\ know' = Put(know, Server, d, new)
        /\ tracked' = Put(tracked, d, n, tracked[d][n] \/ Tracks(old, new))
    BY <1>2 DEF Arrive, Put
  <2>2. d \in Talkers
    BY DEF Arrive, TrackInv, ClockInv, Types, Silent
  <2>3. new \in Clocked
    <3>1. toServer[d][n] \in Seq(Clocked) /\ toServer[d][n] # <<>>
      BY ClocksAreNumbers DEF Arrive, TrackInv, ClockInv
    <3> QED BY <3>1, InTail
  <2>4. \A t \in Talkers : know'[Server][t] = IF t = d THEN new ELSE know[Server][t]
    BY <2>1, <2>2, <2>3, ServerEntry
  <2> DEFINE v == tracked[d][n] \/ Tracks(old, new)
  <2>5. v \in BOOLEAN /\ tracked' = Put(tracked, d, n, v)
    BY <2>1
  <2>6. v <=> tracked[d][n] \/ new.state # "none"
    BY DEF Tracks
  <2> HIDE DEF v, new, old
  <2>7. Noted' /\ tracked'[d][n] = v
        /\ (\A m \in Sockets \ {n} : tracked'[d][m] = tracked[d][m])
        /\ \A c \in Devices \ {d} : tracked'[c] = tracked[c]
    BY <2>5, NoteChanges DEF TrackInv
  <2>8. ASSUME NEW t \in Talkers, know'[Server][t].state # "none" PROVE \E m \in Sockets : tracked'[t][m]
    <3>1. CASE t = d
      <4>1. new.state # "none"
        BY <2>4, <2>8, <3>1
      <4> QED BY <2>6, <2>7, <3>1, <4>1
    <3>2. CASE t # d
      <4>1. PICK m \in Sockets : tracked[t][m]
        BY <2>4, <2>8, <3>2 DEF TrackInv, ServerTracks
      <4>2. tracked'[t] = tracked[t]
        BY <2>7, <3>2, Parties
      <4> QED BY <4>1, <4>2
    <3> QED BY <3>1, <3>2
  <2> QED BY <2>7, <2>8 DEF ServerTracks
<1> QED BY <1>1, <1>2

\* The note of a socket goes with it, and so does the entry it announced.
LEMMA DisconnectTracks ==
  ASSUME TrackInv, NEW d \in Devices, NEW n \in Sockets, HandleDisconnect(d, n)
  PROVE  Noted' /\ ServerTracks'
<1>1. tracked' = Put(tracked, d, n, FALSE)
  BY DEF HandleDisconnect, Forgets, Put
<1>2. Noted' /\ tracked'[d][n] = FALSE
      /\ (\A m \in Sockets \ {n} : tracked'[d][m] = tracked[d][m])
      /\ \A c \in Devices \ {d} : tracked'[c] = tracked[c]
  BY <1>1, NoteChanges DEF TrackInv
<1>3. /\ \A t \in Talkers \ {d} : know'[Server][t] = know[Server][t]
      /\ d \in Talkers => know'[Server][d] = know[Server][d] \/ know'[Server][d].state = "none"
      /\ d \in Talkers /\ tracked[d][n] => know'[Server][d].state = "none"
  <2>1. CASE d \in Talkers /\ Clears(d, n)
    <3> DEFINE e == Removed(know[Server][d])
    <3>1. know' = Put(know, Server, d, e)
      BY <2>1 DEF HandleDisconnect, Put
    <3>2. e \in Clocked /\ e.state = "none"
      BY <2>1, ClocksAreNumbers, Parties, Entries DEF TrackInv, ClockInv
    <3> HIDE DEF e
    <3>3. \A t \in Talkers : know'[Server][t] = IF t = d THEN e ELSE know[Server][t]
      BY <2>1, <3>1, <3>2, ServerEntry
    <3> QED BY <2>1, <3>2, <3>3
  <2>2. CASE ~(d \in Talkers /\ Clears(d, n))
    <3>1. know' = know
      BY <2>2 DEF HandleDisconnect
    <3> QED BY <2>2, <3>1 DEF Clears
  <2> QED BY <2>1, <2>2
<1>4. ASSUME NEW t \in Talkers, know'[Server][t].state # "none" PROVE \E m \in Sockets : tracked'[t][m]
  <2>1. know[Server][t].state # "none"
    BY <1>3, <1>4
  <2>2. PICK m \in Sockets : tracked[t][m]
    BY <2>1 DEF TrackInv, ServerTracks
  <2>3. CASE t = d
    <3>1. m # n
      BY <1>3, <1>4, <2>2, <2>3
    <3> QED BY <1>2, <2>2, <2>3, <3>1
  <2>4. CASE t # d
    <3>1. tracked'[t] = tracked[t]
      BY <1>2, <2>4, Parties
    <3> QED BY <2>2, <3>1
  <2> QED BY <2>3, <2>4
<1> QED BY <1>2, <1>4 DEF ServerTracks

LEMMA ExpireTracks ==
  ASSUME TrackInv, NEW o \in Observers, NEW t \in Talkers, Expire(o, t)
  PROVE  Noted' /\ ServerTracks'
<1> DEFINE e == Removed(know[o][t])
<1>1. know' = Put(know, o, t, e) /\ tracked' = tracked
  BY DEF Expire, Put
<1>2. e \in Clocked /\ e.state = "none"
  BY ClocksAreNumbers, Entries DEF TrackInv, ClockInv
<1> HIDE DEF e
<1>3. \A p \in Observers : \A s \in Talkers : know'[p][s] = IF p = o /\ s = t THEN e ELSE know[p][s]
  BY <1>1, <1>2, EntryChanges DEF TrackInv, ClockInv, Types
<1>4. \A s \in Talkers : know'[Server][s] = know[Server][s] \/ know'[Server][s].state = "none"
  BY <1>2, <1>3, Parties
<1> QED BY <1>1, <1>4, TracksStill

LEMMA NextTracks ==
  ASSUME TrackInv, [Next]_vars
  PROVE  TrackInv'
<1>1. ClockInv'
  BY NextClock DEF TrackInv
<1>2. SUFFICES Noted' /\ ServerTracks'
  BY <1>1 DEF TrackInv
<1>3. ASSUME UNCHANGED <<know, tracked>> PROVE Noted' /\ ServerTracks'
  BY <1>3, TracksStill
<1>4. CASE UNCHANGED vars
  BY <1>3, <1>4 DEF vars
<1>5. CASE SweepHeartbeats
  BY <1>3, <1>5 DEF SweepHeartbeats
<1>6. ASSUME NEW d \in Devices, Open(d) \/ Down(d) \/ Deliver(d) \/ Leave(d) PROVE Noted' /\ ServerTracks'
  BY <1>6, DeviceTracks
<1>7. ASSUME NEW d \in Devices, NEW n \in Sockets, Join(d, n) \/ Arrive(d, n) \/ HandleDisconnect(d, n) \/ Pong(d, n)
      PROVE  Noted' /\ ServerTracks'
  <2>1. CASE Join(d, n) \/ Pong(d, n)
    BY <1>3, <2>1 DEF Join, Pong
  <2> QED BY <1>7, <2>1, ArriveTracks, DisconnectTracks
<1>8. ASSUME NEW t \in Talkers,
             Renew(t) \/ (\E state \in {"here", "typing"} : Type(t, state)) \/ \E o \in Observers : Expire(o, t)
      PROVE  Noted' /\ ServerTracks'
  BY <1>8, DeviceTracks, ExpireTracks, Parties
<1> QED BY <1>4, <1>5, <1>6, <1>7, <1>8 DEF Next

LEMMA InitTracks ==
  ASSUME Init
  PROVE  TrackInv
<1>1. ClockInv
  BY InitClock
<1>2. \A t \in Talkers : know[Server][t] = Unknown
  BY Parties DEF Init
<1>3. [n \in Sockets |-> FALSE] \in [Sockets -> BOOLEAN]
  BY Zenon
<1>4. Noted
  BY <1>3, Zenon DEF Init, Noted
<1> QED BY <1>1, <1>2, <1>4, Entries DEF TrackInv, ServerTracks

\* Whatever the server has, a socket among its clients has announced.
THEOREM ServerAlwaysTracks == Spec => []ServerTracks
BY InitTracks, NextTracks, PTL DEF Spec, TrackInv

-----------------------------------------------------------------------------
(* Types of everything, within the bounds.  An owner's clock is bounded by  *)
(* its guards, and every other one by the owner's.                          *)

Places == {"none", "admitting", "joined", "terminated", "closed"}

Rooms    == room \in [Devices -> [Sockets -> Places]]
Bounded  == \A t \in Talkers : know[t][t].clock <= MaxClock
\* A socket that was not opened yet is nothing to the server.
Unopened == \A d \in Devices : \A n \in Sockets : n > newest[d] => room[d][n] = "none"
\* Who is noted is among the clients, or was until the sweep.
NotedIn  == \A d \in Devices : \A n \in Sockets : tracked[d][n] => room[d][n] \in {"joined", "terminated"}
Flags    ==
  /\ engine \in [Devices -> BOOLEAN] /\ alive \in [Devices -> [Sockets -> BOOLEAN]]
  /\ spoke \in [Talkers -> BOOLEAN] /\ newest \in [Devices -> Sockets \cup {0}]

RoomsInv == Rooms /\ Unopened /\ NotedIn
TypeInv  == TrackInv /\ Bounded /\ RoomsInv /\ Flags

\* The place of one socket is changed.
LEMMA RoomChanges ==
  ASSUME Rooms, NEW d \in Devices, NEW n \in Sockets, NEW p \in Places, room' = Put(room, d, n, p)
  PROVE  /\ Rooms'
         /\ \A c \in Devices : \A m \in Sockets : room'[c][m] = IF c = d /\ m = n THEN p ELSE room[c][m]
<1>1. room' = [room EXCEPT ![d] = [room[d] EXCEPT ![n] = p]]
  BY DEF Put
<1>2. room[d] \in [Sockets -> Places]
  BY Zenon DEF Rooms
<1>3. [room[d] EXCEPT ![n] = p] \in [Sockets -> Places]
  BY <1>2, Zenon
<1>4. Rooms' /\ room'[d] = [room[d] EXCEPT ![n] = p] /\ \A c \in Devices \ {d} : room'[c] = room[c]
  BY <1>1, <1>3, Zenon DEF Rooms
<1>5. \A m \in Sockets : room'[d][m] = IF m = n THEN p ELSE room[d][m]
  BY <1>2, <1>4
<1> QED BY <1>4, <1>5

\* Nothing the server has made of the sockets is changed.
LEMMA RoomsStill ==
  ASSUME RoomsInv, UNCHANGED <<room, newest, tracked>>
  PROVE  RoomsInv'
BY DEF RoomsInv, Rooms, Unopened, NotedIn

LEMMA OpenRooms ==
  ASSUME TypeInv, NEW d \in Devices, Open(d)
  PROVE  RoomsInv' /\ newest' \in [Devices -> Sockets \cup {0}]
<1> DEFINE m == newest[d] + 1
<1>1. newest[d] \in Nat /\ m \in Nat /\ m \in 1 .. MaxSockets[d]
  <2>1. newest[d] \in Nat /\ newest[d] < MaxSockets[d]
    BY DEF Open, TypeInv, TrackInv, ClockInv, Types, Newest
  <2>2. MaxSockets[d] \in Nat
    BY PresenceAssumption
  <2> QED BY <2>1, <2>2
<1>2. m > newest[d] /\ \A k \in Nat : k > m => k > newest[d]
  BY <1>1
<1>3. /\ newest' = [newest EXCEPT ![d] = m] /\ tracked' = tracked
      /\ room' = Put(room, d, m, "admitting")
  BY DEF Open, Put
<1> HIDE DEF m
<1>4. m \in Sockets
  BY <1>1, Zenon DEF Sockets
<1>5. Sockets \subseteq Nat
  <2>1. ASSUME NEW n \in Sockets PROVE n \in Nat
    <3>1. PICK c \in Devices : n \in 1 .. MaxSockets[c]
      BY Zenon DEF Sockets
    <3>2. MaxSockets[c] \in Nat
      BY PresenceAssumption
    <3> QED BY <3>1, <3>2
  <2> QED BY <2>1
<1>6. /\ newest' \in [Devices -> Sockets \cup {0}]
      /\ \A c \in Devices : newest'[c] = IF c = d THEN m ELSE newest[c]
  BY <1>3, <1>4 DEF TypeInv, Flags
<1>7. /\ Rooms'
      /\ \A c \in Devices : \A n \in Sockets : room'[c][n] = IF c = d /\ n = m THEN "admitting" ELSE room[c][n]
  BY <1>3, <1>4, RoomChanges DEF TypeInv, RoomsInv, Places
<1>8. Unopened'
  <2>1. ASSUME NEW c \in Devices, NEW n \in Sockets, n > newest'[c] PROVE room'[c][n] = "none"
    <3>1. CASE c = d
      <4>1. n > m /\ n \in Nat
        BY <1>5, <1>6, <2>1, <3>1
      <4>2. n # m /\ n > newest[d]
        BY <1>1, <1>2, <4>1
      <4> QED BY <1>7, <3>1, <4>2 DEF TypeInv, RoomsInv, Unopened
    <3>2. CASE c # d
      BY <1>6, <1>7, <2>1, <3>2 DEF TypeInv, RoomsInv, Unopened
    <3> QED BY <3>1, <3>2
  <2> QED BY <2>1 DEF Unopened
<1>9. NotedIn'
  <2>1. ~tracked[d][m]
    BY <1>2, <1>4 DEF TypeInv, RoomsInv, Unopened, NotedIn
  <2> QED BY <1>3, <1>7, <2>1 DEF TypeInv, RoomsInv, NotedIn
<1> QED BY <1>6, <1>7, <1>8, <1>9 DEF RoomsInv

LEMMA JoinRooms ==
  ASSUME TypeInv, NEW d \in Devices, NEW n \in Sockets, Join(d, n)
  PROVE  RoomsInv'
<1>1. room[d][n] = "admitting" /\ room' = Put(room, d, n, "joined") /\ UNCHANGED <<newest, tracked>>
  BY DEF Join, Put
<1>2. /\ Rooms'
      /\ \A c \in Devices : \A m \in Sockets : room'[c][m] = IF c = d /\ m = n THEN "joined" ELSE room[c][m]
  BY <1>1, RoomChanges DEF TypeInv, RoomsInv, Places
<1>3. Unopened'
  BY <1>1, <1>2 DEF TypeInv, RoomsInv, Unopened
<1>4. NotedIn'
  BY <1>1, <1>2 DEF TypeInv, RoomsInv, NotedIn
<1> QED BY <1>2, <1>3, <1>4 DEF RoomsInv

LEMMA ArriveRooms ==
  ASSUME TypeInv, NEW d \in Devices, NEW n \in Sockets, Arrive(d, n)
  PROVE  RoomsInv'
<1>1. UNCHANGED <<room, newest>>
  BY DEF Arrive
<1>2. CASE tracked' = tracked
  BY <1>1, <1>2, RoomsStill DEF TypeInv
<1>3. CASE tracked' # tracked
  <2> DEFINE v == tracked[d][n] \/ Tracks(know[Server][d], Head(toServer[d][n]))
  <2>1. Joined(d, n) /\ tracked' = Put(tracked, d, n, v) /\ v \in BOOLEAN
    BY <1>3 DEF Arrive, Put
  <2> HIDE DEF v
  <2>2. /\ \A m \in Sockets \ {n} : tracked'[d][m] = tracked[d][m]
        /\ \A c \in Devices \ {d} : tracked'[c] = tracked[c]
    BY <2>1, NoteChanges DEF TypeInv, TrackInv
  <2>3. ASSUME NEW c \in Devices, NEW m \in Sockets, tracked'[c][m] PROVE room'[c][m] \in {"joined", "terminated"}
    <3>1. CASE c = d /\ m = n
      BY <1>1, <2>1, <3>1 DEF Joined
    <3>2. CASE c = d /\ m # n
      BY <1>1, <2>2, <2>3, <3>2 DEF TypeInv, RoomsInv, NotedIn
    <3>3. CASE c # d
      <4>1. tracked'[c] = tracked[c]
        BY <2>2, <3>3
      <4> QED BY <1>1, <2>3, <4>1 DEF TypeInv, RoomsInv, NotedIn
    <3> QED BY <3>1, <3>2, <3>3
  <2>4. NotedIn'
    BY <2>3 DEF NotedIn
  <2> QED BY <1>1, <2>4 DEF TypeInv, RoomsInv, Rooms, Unopened
<1> QED BY <1>2, <1>3

LEMMA DisconnectRooms ==
  ASSUME TypeInv, NEW d \in Devices, NEW n \in Sockets, HandleDisconnect(d, n)
  PROVE  RoomsInv'
<1>1. /\ room[d][n] # "none" /\ room' = Put(room, d, n, "closed") /\ newest' = newest
      /\ tracked' = Put(tracked, d, n, FALSE)
  BY DEF HandleDisconnect, Forgets, Put
<1>2. /\ Rooms'
      /\ \A c \in Devices : \A m \in Sockets : room'[c][m] = IF c = d /\ m = n THEN "closed" ELSE room[c][m]
  BY <1>1, RoomChanges DEF TypeInv, RoomsInv, Places
<1>3. Unopened'
  BY <1>1, <1>2 DEF TypeInv, RoomsInv, Unopened
<1>4. /\ tracked'[d][n] = FALSE
      /\ \A m \in Sockets \ {n} : tracked'[d][m] = tracked[d][m]
      /\ \A c \in Devices \ {d} : tracked'[c] = tracked[c]
  BY <1>1, NoteChanges DEF TypeInv, TrackInv
<1>5. ASSUME NEW c \in Devices, NEW m \in Sockets, tracked'[c][m] PROVE room'[c][m] \in {"joined", "terminated"}
  <2>1. ~(c = d /\ m = n)
    BY <1>4, <1>5
  <2>2. tracked[c][m]
    <3>1. CASE c = d
      BY <1>4, <1>5, <2>1, <3>1
    <3>2. CASE c # d
      <4>1. tracked'[c] = tracked[c]
        BY <1>4, <3>2
      <4> QED BY <1>5, <4>1
    <3> QED BY <3>1, <3>2
  <2> QED BY <1>2, <2>1, <2>2 DEF TypeInv, RoomsInv, NotedIn
<1> QED BY <1>2, <1>3, <1>5 DEF RoomsInv, NotedIn

LEMMA SweepRooms ==
  ASSUME TypeInv, SweepHeartbeats
  PROVE  RoomsInv'
<1>1. room' = [d \in Devices |-> [n \in Sockets |-> IF Joined(d, n) /\ ~alive[d][n] THEN "terminated" ELSE room[d][n]]]
      /\ UNCHANGED <<newest, tracked>>
  BY DEF SweepHeartbeats
<1>2. \A d \in Devices : \A n \in Sockets : room[d][n] \in Places
  BY Zenon DEF TypeInv, RoomsInv, Rooms
<1>3. \A d \in Devices : [n \in Sockets |-> IF Joined(d, n) /\ ~alive[d][n] THEN "terminated" ELSE room[d][n]]
        \in [Sockets -> Places]
  BY <1>2 DEF Places
<1>4. Rooms'
  BY <1>1, <1>3, Zenon DEF Rooms
<1>5. \A d \in Devices : \A n \in Sockets : room'[d][n] = IF Joined(d, n) /\ ~alive[d][n] THEN "terminated" ELSE room[d][n]
  BY <1>1
<1>6. Unopened' /\ NotedIn'
  BY <1>1, <1>5 DEF TypeInv, RoomsInv, Unopened, NotedIn, Joined
<1> QED BY <1>4, <1>6 DEF RoomsInv

LEMMA NextRooms ==
  ASSUME TypeInv, [Next]_vars
  PROVE  RoomsInv' /\ newest' \in [Devices -> Sockets \cup {0}]
<1>1. ASSUME UNCHANGED <<room, newest, tracked>> PROVE RoomsInv' /\ newest' \in [Devices -> Sockets \cup {0}]
  BY <1>1, RoomsStill DEF TypeInv, Flags
<1>2. CASE UNCHANGED vars
  BY <1>1, <1>2 DEF vars
<1>3. CASE SweepHeartbeats
  BY <1>3, SweepRooms DEF SweepHeartbeats, TypeInv, Flags
<1>4. ASSUME NEW d \in Devices, Open(d) \/ Down(d) \/ Deliver(d) \/ Leave(d)
      PROVE  RoomsInv' /\ newest' \in [Devices -> Sockets \cup {0}]
  <2>1. CASE Down(d) \/ Deliver(d) \/ Leave(d)
    BY <1>1, <2>1 DEF Down, Deliver, Leave
  <2> QED BY <1>4, <2>1, OpenRooms
<1>5. ASSUME NEW d \in Devices, NEW n \in Sockets, Join(d, n) \/ Arrive(d, n) \/ HandleDisconnect(d, n) \/ Pong(d, n)
      PROVE  RoomsInv' /\ newest' \in [Devices -> Sockets \cup {0}]
  <2>1. newest' = newest
    BY <1>5 DEF Join, Arrive, HandleDisconnect, Pong
  <2>2. CASE Pong(d, n)
    BY <1>1, <2>2 DEF Pong
  <2> QED BY <1>5, <2>1, <2>2, JoinRooms, ArriveRooms, DisconnectRooms DEF TypeInv, Flags
<1>6. ASSUME NEW t \in Talkers,
             Renew(t) \/ (\E state \in {"here", "typing"} : Type(t, state)) \/ \E o \in Observers : Expire(o, t)
      PROVE  RoomsInv' /\ newest' \in [Devices -> Sockets \cup {0}]
  BY <1>1, <1>6 DEF Renew, Type, Expire
<1> QED BY <1>2, <1>3, <1>4, <1>5, <1>6 DEF Next

LEMMA LaterBounded ==
  ASSUME NEW e \in Clocked, e.clock <= MaxClock
  PROVE  Later(e).clock <= MaxClock /\ Later(e).state = e.state
<1> DEFINE c == IF e.clock < MaxClock THEN e.clock + 1 ELSE e.clock
<1>1. c <= MaxClock
  BY PresenceAssumption DEF Clocked
<1>2. Later(e) = [e EXCEPT !.clock = c]
  BY DEF Later
<1> HIDE DEF c
<1> QED BY <1>1, <1>2 DEF Clocked

\* What a delivery makes of the device's own entry.
LEMMA OwnDelivered ==
  ASSUME ClockInv, NEW d \in Talkers, Deliver(d)
  PROVE  know'[d][d] = know[d][d] \/ know'[d][d] = Later(know[d][d])
<1>1. know \in [Observers -> [Talkers -> Clocked]] /\ d \in Observers
  BY Parties DEF ClockInv, Types, Knowing
<1> DEFINE frame == Head(toClient[d])
           Taken(t) == t \in DOMAIN frame /\ Replaces(frame[t], know[d][t])
           row == [t \in Talkers |-> IF ~Taken(t) THEN know[d][t]
                                     ELSE IF t = d THEN Later(know[d][t]) ELSE frame[t]]
<1>2. know' = [know EXCEPT ![d] = row]
  BY DEF Deliver
<1>3. row[d] = IF ~Taken(d) THEN know[d][d] ELSE Later(know[d][d])
  OBVIOUS
<1> HIDE DEF row, Taken
<1>4. know'[d] = row
  BY <1>1, <1>2, Zenon
<1> QED BY <1>3, <1>4

LEMMA NextBounded ==
  ASSUME TypeInv, [Next]_vars
  PROVE  Bounded'
<1>1. ASSUME \A t \in Talkers : know'[t][t] = know[t][t] PROVE Bounded'
  BY <1>1 DEF TypeInv, Bounded
<1>2. know \in [Observers -> [Talkers -> Clocked]]
  BY DEF TypeInv, TrackInv, ClockInv, Types, Knowing
<1>3. \A t \in Talkers : t \in Devices /\ t \in Observers /\ t # Server /\ know[t][t] \in Clocked /\ know[t][t].clock \in Nat
  BY ClocksAreNumbers, Parties DEF TypeInv, TrackInv, ClockInv
<1>4. CASE UNCHANGED vars \/ SweepHeartbeats
  BY <1>1, <1>4 DEF vars, SweepHeartbeats
<1>5. ASSUME NEW d \in Devices, Open(d) \/ Down(d) \/ Deliver(d) \/ Leave(d) PROVE Bounded'
  <2>1. CASE Open(d) \/ Down(d)
    BY <1>1, <2>1 DEF Open, Down
  <2>2. CASE Leave(d)
    <3> DEFINE row == [t \in Talkers |-> IF t = d THEN know[d][t] ELSE Unknown]
    <3>1. know' = [know EXCEPT ![d] = row] /\ \A t \in Talkers : t = d => row[t] = know[d][t]
      BY <2>2 DEF Leave
    <3> HIDE DEF row
    <3>2. know'[d] = row /\ \A c \in Observers \ {d} : know'[c] = know[c]
      BY <1>2, <3>1, Parties, Zenon
    <3> QED BY <1>1, <1>3, <3>1, <3>2
  <2>3. CASE Deliver(d)
    <3>1. \A c \in Observers \ {d} : know'[c] = know[c]
      BY <1>2, <2>3, Parties, Zenon DEF Deliver
    <3>2. d \in Talkers => know'[d][d] = know[d][d] \/ know'[d][d] = Later(know[d][d])
      BY <2>3, OwnDelivered DEF TypeInv, TrackInv
    <3>3. \A t \in Talkers : know'[t][t] = know[t][t] \/ know'[t][t] = Later(know[t][t])
      BY <1>3, <3>1, <3>2
    <3> QED BY <1>3, <3>3, LaterBounded DEF TypeInv, Bounded
  <2> QED BY <1>5, <2>1, <2>2, <2>3
<1>6. ASSUME NEW d \in Devices, NEW n \in Sockets, Join(d, n) \/ Arrive(d, n) \/ HandleDisconnect(d, n) \/ Pong(d, n)
      PROVE  Bounded'
  <2>1. \A c \in Observers \ {Server} : know'[c] = know[c]
    <3>1. CASE Join(d, n) \/ Pong(d, n)
      BY <3>1 DEF Join, Pong
    <3>2. CASE Arrive(d, n)
      BY <1>2, <3>2, Zenon DEF Arrive
    <3>3. CASE HandleDisconnect(d, n)
      BY <1>2, <3>3, Zenon DEF HandleDisconnect
    <3> QED BY <1>6, <3>1, <3>2, <3>3
  <2> QED BY <1>1, <1>3, <2>1
<1>7. ASSUME NEW t \in Talkers, NEW e \in Clocked, e.clock <= MaxClock, know' = Put(know, t, t, e) PROVE Bounded'
  <2>1. Knowing /\ t \in Observers
    BY Parties DEF TypeInv, TrackInv, ClockInv, Types
  <2>2. \A p \in Observers : \A s \in Talkers : know'[p][s] = IF p = t /\ s = t THEN e ELSE know[p][s]
    BY <1>7, <2>1, EntryChanges
  <2> QED BY <1>3, <1>7, <2>2 DEF TypeInv, Bounded
<1>8. ASSUME NEW t \in Talkers, Renew(t) PROVE Bounded'
  <2> DEFINE e == [know[t][t] EXCEPT !.clock = @ + 1]
  <2>1. e \in Clocked /\ e.clock = know[t][t].clock + 1
    BY <1>3 DEF Clocked
  <2>2. know' = Put(know, t, t, e) /\ know[t][t].clock < MaxClock
    BY <1>8 DEF Renew, Put
  <2> HIDE DEF e
  <2>3. e.clock <= MaxClock
    BY <1>3, <2>1, <2>2, PresenceAssumption
  <2> QED BY <1>7, <2>1, <2>2, <2>3
<1>9. ASSUME NEW t \in Talkers, NEW state \in {"here", "typing"}, Type(t, state) PROVE Bounded'
  <2> DEFINE e == [clock |-> know[t][t].clock + 1, state |-> state]
  <2>1. e \in Clocked /\ e.clock = know[t][t].clock + 1
    BY <1>3 DEF Clocked, States
  <2>2. know' = Put(know, t, t, e) /\ know[t][t].clock < MaxClock
    BY <1>9 DEF Type, Put
  <2> HIDE DEF e
  <2>3. e.clock <= MaxClock
    BY <1>3, <2>1, <2>2, PresenceAssumption
  <2> QED BY <1>7, <2>1, <2>2, <2>3
<1>10. ASSUME NEW t \in Talkers, NEW o \in Observers, Expire(o, t) PROVE Bounded'
  <2> DEFINE e == Removed(know[o][t])
  <2>1. know' = Put(know, o, t, e) /\ o # t
    BY <1>10 DEF Expire, Put
  <2>2. e \in Clocked
    BY ClocksAreNumbers, Entries DEF TypeInv, TrackInv, ClockInv
  <2> HIDE DEF e
  <2>3. \A p \in Observers : \A s \in Talkers : know'[p][s] = IF p = o /\ s = t THEN e ELSE know[p][s]
    BY <2>1, <2>2, EntryChanges DEF TypeInv, TrackInv, ClockInv, Types
  <2> QED BY <1>1, <1>3, <2>1, <2>3
<1> QED BY <1>4, <1>5, <1>6, <1>8, <1>9, <1>10 DEF Next

LEMMA NextFlags ==
  ASSUME TypeInv, [Next]_vars
  PROVE  Flags'
<1>1. newest' \in [Devices -> Sockets \cup {0}]
  BY NextRooms
<1>2. engine' \in [Devices -> BOOLEAN]
  <2>1. CASE engine' = engine
    BY <2>1 DEF TypeInv, Flags
  <2>2. ASSUME NEW d \in Devices, Leave(d) PROVE engine' \in [Devices -> BOOLEAN]
    <3>1. engine' = [engine EXCEPT ![d] = FALSE]
      BY <2>2 DEF Leave
    <3> QED BY <3>1, Zenon DEF TypeInv, Flags
  <2>3. engine' = engine \/ \E d \in Devices : Leave(d)
    <3>1. CASE UNCHANGED vars \/ SweepHeartbeats
      BY <3>1 DEF vars, SweepHeartbeats
    <3>2. ASSUME NEW d \in Devices, Open(d) \/ Down(d) \/ Deliver(d) PROVE engine' = engine
      BY <3>2 DEF Open, Down, Deliver
    <3>3. ASSUME NEW d \in Devices, NEW n \in Sockets, Join(d, n) \/ Arrive(d, n) \/ HandleDisconnect(d, n) \/ Pong(d, n)
          PROVE  engine' = engine
      BY <3>3 DEF Join, Arrive, HandleDisconnect, Pong
    <3>4. ASSUME NEW t \in Talkers, \/ Renew(t) \/ \E o \in Observers : Expire(o, t)
                                   \/ \E state \in {"here", "typing"} : Type(t, state)
          PROVE  engine' = engine
      BY <3>4 DEF Renew, Expire, Type
    <3> QED BY <3>1, <3>2, <3>3, <3>4 DEF Next
  <2> QED BY <2>1, <2>2, <2>3
<1>3. alive' \in [Devices -> [Sockets -> BOOLEAN]]
  <2>1. ASSUME NEW d \in Devices, NEW n \in Sockets, NEW v \in BOOLEAN, alive' = [alive EXCEPT ![d][n] = v]
        PROVE  alive' \in [Devices -> [Sockets -> BOOLEAN]]
    <3>1. alive[d] \in [Sockets -> BOOLEAN]
      BY Zenon DEF TypeInv, Flags
    <3>2. [alive[d] EXCEPT ![n] = v] \in [Sockets -> BOOLEAN]
      BY <3>1, Zenon
    <3>3. alive' = [alive EXCEPT ![d] = [alive[d] EXCEPT ![n] = v]]
      BY <2>1
    <3> QED BY <3>2, <3>3, Zenon DEF TypeInv, Flags
  <2>2. \/ alive' = alive
        \/ \E d \in Devices, n \in Sockets : Join(d, n) \/ HandleDisconnect(d, n) \/ Pong(d, n)
        \/ SweepHeartbeats
    <3>1. CASE UNCHANGED vars
      BY <3>1 DEF vars
    <3>2. ASSUME NEW d \in Devices, Open(d) \/ Down(d) \/ Deliver(d) \/ Leave(d) PROVE alive' = alive
      BY <3>2 DEF Open, Down, Deliver, Leave
    <3>3. ASSUME NEW d \in Devices, NEW n \in Sockets, Arrive(d, n) PROVE alive' = alive
      BY <3>3 DEF Arrive
    <3>4. ASSUME NEW t \in Talkers, \/ Renew(t) \/ \E o \in Observers : Expire(o, t)
                                   \/ \E state \in {"here", "typing"} : Type(t, state)
          PROVE  alive' = alive
      BY <3>4 DEF Renew, Expire, Type
    <3> QED BY <3>1, <3>2, <3>3, <3>4 DEF Next
  <2>4. ASSUME NEW d \in Devices, NEW n \in Sockets, Join(d, n) \/ HandleDisconnect(d, n) \/ Pong(d, n)
        PROVE  alive' \in [Devices -> [Sockets -> BOOLEAN]]
    <3>1. alive' = [alive EXCEPT ![d][n] = TRUE] \/ alive' = [alive EXCEPT ![d][n] = FALSE]
      BY <2>4 DEF Join, HandleDisconnect, Pong
    <3> QED BY <2>1, <3>1
  <2>3. CASE SweepHeartbeats
    <3>1. [n \in Sockets |-> FALSE] \in [Sockets -> BOOLEAN]
      BY Zenon
    <3>2. alive' = [d \in Devices |-> [n \in Sockets |-> FALSE]]
      BY <2>3 DEF SweepHeartbeats
    <3> QED BY <3>1, <3>2, Zenon
  <2> QED BY <2>2, <2>3, <2>4 DEF TypeInv, Flags
<1>4. spoke' \in [Talkers -> BOOLEAN]
  <2>1. up \in [Devices -> BOOLEAN] /\ spoke \in [Talkers -> BOOLEAN]
    BY DEF TypeInv, TrackInv, ClockInv, Types, Newest, Flags
  <2>2. \/ spoke' = spoke
        \/ \E d \in Devices : spoke' = [t \in Talkers |-> t # d /\ spoke[t]]
        \/ \E t \in Talkers : \E v \in BOOLEAN : spoke' = [spoke EXCEPT ![t] = v]
    <3>1. CASE UNCHANGED vars \/ SweepHeartbeats
      BY <3>1 DEF vars, SweepHeartbeats
    <3>2. ASSUME NEW d \in Devices, Open(d) \/ Down(d) \/ Deliver(d) \/ Leave(d)
          PROVE  spoke' = spoke \/ spoke' = [t \in Talkers |-> t # d /\ spoke[t]]
      BY <3>2 DEF Open, Down, Deliver, Leave
    <3>3. ASSUME NEW d \in Devices, NEW n \in Sockets, Join(d, n) \/ Arrive(d, n) \/ HandleDisconnect(d, n) \/ Pong(d, n)
          PROVE  spoke' = spoke \/ (d \in Talkers /\ spoke' = [spoke EXCEPT ![d] = FALSE])
      BY <3>3 DEF Join, Arrive, HandleDisconnect, Pong
    <3>4. ASSUME NEW t \in Talkers, Renew(t) \/ \E o \in Observers : Expire(o, t)
          PROVE  spoke' = spoke \/ spoke' = [spoke EXCEPT ![t] = FALSE]
      BY <3>4 DEF Renew, Expire
    <3>5. ASSUME NEW t \in Talkers, NEW state \in {"here", "typing"}, Type(t, state)
          PROVE  \E v \in BOOLEAN : spoke' = [spoke EXCEPT ![t] = v]
      <4>1. spoke' = [spoke EXCEPT ![t] = up[t] /\ Joined(t, newest[t])]
        BY <3>5 DEF Type
      <4>2. (up[t] /\ Joined(t, newest[t])) \in BOOLEAN
        BY <2>1, Parties
      <4> QED BY <4>1, <4>2
    <3> QED BY <3>1, <3>2, <3>3, <3>4, <3>5 DEF Next
  <2>3. \A d \in Devices : [t \in Talkers |-> t # d /\ spoke[t]] \in [Talkers -> BOOLEAN]
    BY <2>1
  <2> QED BY <2>1, <2>2, <2>3, Zenon
<1> QED BY <1>1, <1>2, <1>3, <1>4 DEF Flags

LEMMA InitTypes ==
  ASSUME Init
  PROVE  TypeInv
<1>1. TrackInv
  BY InitTracks
<1>2. [n \in Sockets |-> "none"] \in [Sockets -> Places] /\ [n \in Sockets |-> FALSE] \in [Sockets -> BOOLEAN]
  BY DEF Places
<1>3. Rooms
  BY <1>2, Zenon DEF Init, Rooms
<1>4. Flags
  BY <1>2, Zenon DEF Init, Flags
<1>5. Unopened /\ NotedIn
  BY DEF Init, Unopened, NotedIn
<1>6. \A t \in Talkers : know[t][t] = Announced
  BY Parties DEF Init
<1>7. Bounded
  BY <1>6, Entries, PresenceAssumption DEF Bounded
<1> QED BY <1>1, <1>3, <1>4, <1>5, <1>7 DEF TypeInv, RoomsInv

LEMMA NextTypes ==
  ASSUME TypeInv, [Next]_vars
  PROVE  TypeInv'
BY NextTracks, NextRooms, NextBounded, NextFlags DEF TypeInv

\* The owner's bound is everybody's.
LEMMA TypesSaySo ==
  ASSUME TypeInv
  PROVE  TypeOK
<1>1. ASSUME NEW e \in Clocked, NEW t \in Talkers, e.clock <= know[t][t].clock PROVE e \in Entry
  <2>1. know[t][t].clock \in Nat /\ know[t][t].clock <= MaxClock
    BY ClocksAreNumbers, Parties DEF TypeInv, TrackInv, ClockInv, Bounded
  <2>2. e.clock \in Nat /\ e.clock <= MaxClock
    BY <1>1, <2>1, Entries, PresenceAssumption
  <2>3. e.clock \in 0 .. MaxClock
    BY <2>2, PresenceAssumption
  <2> QED BY <2>3 DEF Entry, Clocked, States
<1>2. know \in [Observers -> [Talkers -> Entry]]
  <2>1. \A o \in Observers : \A t \in Talkers : know[o][t] \in Entry
    BY <1>1, ClocksAreNumbers DEF TypeInv, TrackInv, ClockInv, Leads
  <2>2. know \in [Observers -> [Talkers -> Clocked]]
    BY DEF TypeInv, TrackInv, ClockInv, Types, Knowing
  <2>3. \A o \in Observers : know[o] \in [Talkers -> Entry]
    BY <2>1, <2>2
  <2> QED BY <2>2, <2>3, Zenon
<1>3. toServer \in [Devices -> [Sockets -> Seq(Entry)]]
  <2>1. ASSUME NEW d \in Devices, NEW n \in Sockets PROVE toServer[d][n] \in Seq(Entry)
    <3>1. toServer[d][n] \in Seq(Clocked)
      BY ClocksAreNumbers DEF TypeInv, TrackInv, ClockInv
    <3>2. CASE d \notin Talkers
      <4>1. toServer[d][n] = <<>>
        BY <3>2 DEF TypeInv, TrackInv, ClockInv, Types, Silent
      <4> QED BY <4>1
    <3>3. CASE d \in Talkers
      <4>1. ASSUME NEW k \in 1 .. Len(toServer[d][n]) PROVE toServer[d][n][k] \in Entry
        <5>1. In(toServer[d][n], toServer[d][n][k])
          BY Zenon DEF In
        <5>2. toServer[d][n][k] \in Clocked /\ toServer[d][n][k].clock <= know[d][d].clock
          BY <3>1, <3>3, <5>1 DEF TypeInv, TrackInv, ClockInv, Leads
        <5> QED BY <1>1, <3>3, <5>2
      <4> QED BY <3>1, <4>1
    <3> QED BY <3>2, <3>3
  <2>2. toServer \in [Devices -> [Sockets -> Seq(Clocked)]]
    BY DEF TypeInv, TrackInv, ClockInv, Types, ToServer
  <2>3. \A d \in Devices : toServer[d] \in [Sockets -> Seq(Clocked)]
    BY <2>2, Zenon
  <2>4. \A d \in Devices : toServer[d] \in [Sockets -> Seq(Entry)]
    BY <2>1, <2>3
  <2> QED BY <2>2, <2>4, Zenon
<1>4. ASSUME NEW d \in Devices, NEW k \in DOMAIN toClient[d]
      PROVE  DOMAIN toClient[d][k] \subseteq Talkers /\ toClient[d][k] \in [DOMAIN toClient[d][k] -> Entry]
  <2> DEFINE g == toClient[d][k]
  <2>1. toClient[d] \in Seq(Frames)
    BY Zenon DEF TypeInv, TrackInv, ClockInv, Types, ToClient
  <2>2. k \in 1 .. Len(toClient[d])
    BY <2>1
  <2>3. In(toClient[d], g) /\ g \in Frames
    BY <2>1, <2>2 DEF In
  <2> HIDE DEF g
  <2>4. PICK T \in SUBSET Talkers : g \in [T -> Clocked]
    BY <2>3, Zenon DEF Frames
  <2>5. \A t \in DOMAIN g : t \in Talkers /\ g[t] \in Clocked /\ g[t].clock <= know[t][t].clock
    BY <2>3, ClocksAreNumbers DEF TypeInv, TrackInv, ClockInv, Leads
  <2>6. g \in [DOMAIN g -> Entry] /\ DOMAIN g \subseteq Talkers
    BY <1>1, <2>4, <2>5
  <2> QED BY <2>6 DEF g
<1> QED BY <1>2, <1>3, <1>4 DEF TypeOK, TypeInv, TrackInv, Noted, ClockInv, Types, Newest, Flags, RoomsInv, Rooms, Places, NotedIn

\* Every variable keeps its type, for any devices, sockets and bounds.
THEOREM TypeCorrect == Spec => []TypeOK
BY InitTypes, NextTypes, TypesSaySo, PTL DEF Spec

-----------------------------------------------------------------------------
(* Who types is shown typing.  For a talker that has typed since it joined  *)
(* there is a latest word of its own: nothing anywhere is newer, it is on   *)
(* its way to the server or the server has it, and once the server has it,  *)
(* everybody in the room has it or is being sent it.                        *)

LEMMA InKept ==
  ASSUME NEW S, NEW q \in Seq(S), NEW y \in S
  PROVE  In(Append(q, y), y) /\ \A x : In(q, x) => In(Append(q, y), x)
<1>1. /\ Len(Append(q, y)) = Len(q) + 1 /\ Len(q) \in Nat
      /\ \A n \in 1 .. Len(q) : Append(q, y)[n] = q[n]
      /\ Append(q, y)[Len(q) + 1] = y
  OBVIOUS
<1>2. Len(q) + 1 \in 1 .. Len(q) + 1 /\ \A n \in 1 .. Len(q) : n \in 1 .. Len(q) + 1
  BY <1>1
<1>3. ASSUME NEW x, In(q, x) PROVE In(Append(q, y), x)
  BY <1>1, <1>2, <1>3, Zenon DEF In
<1>4. In(Append(q, y), y)
  BY <1>1, <1>2, Zenon DEF In
<1> QED BY <1>3, <1>4

LEMMA InHeadOrTail ==
  ASSUME NEW S, NEW q \in Seq(S), NEW x, In(q, x)
  PROVE  x = Head(q) \/ In(Tail(q), x)
<1>1. PICK k \in 1 .. Len(q) : q[k] = x
  BY DEF In
<1>2. CASE k = 1
  BY <1>1, <1>2
<1>3. CASE k # 1
  <2>1. k - 1 \in 1 .. Len(Tail(q)) /\ Tail(q)[k - 1] = q[k]
    BY <1>3
  <2> QED BY <1>1, <2>1, Zenon DEF In
<1> QED BY <1>2, <1>3

\* Who is in the room gets what is passed on, after what it was sent before.
LEMMA FanOutReaches ==
  ASSUME ToClient, NEW frame \in Frames, NEW except, FanOut(frame, except), NEW d \in Devices
  PROVE  /\ \A g : In(toClient[d], g) => In(toClient'[d], g)
         /\ up[d] /\ Joined(d, newest[d]) /\ <<d, newest[d]>> # except => In(toClient'[d], frame)
<1>1. toClient[d] \in Seq(Frames)
  BY Zenon DEF ToClient
<1>2. toClient'[d] = IF up[d] /\ Joined(d, newest[d]) /\ <<d, newest[d]>> # except
                     THEN Append(toClient[d], frame) ELSE toClient[d]
  BY DEF FanOut
<1> QED BY <1>1, <1>2, InKept

-----------------------------------------------------------------------------
Below(x, e) == x = e \/ x.clock < e.clock

\* d has the word e of t, or is being sent it.
Reached(d, t, e) ==
  know[d][t] = e \/ \E g \in Frames : In(toClient[d], g) /\ t \in DOMAIN g /\ g[t] = e

\* e is the latest word of t.
Shown(t, e) ==
  /\ e.clock > 0 /\ e.state # "none" /\ e.state = know[t][t].state
  /\ \A o \in Observers \ {t} : Below(know[o][t], e)
  /\ \A d \in Devices : \A g : In(toClient[d], g) /\ t \in DOMAIN g => Below(g[t], e)
  /\ \A n \in Sockets : \A x : In(toServer[t][n], x) => Below(x, e)
  /\ know[Server][t] = e \/ In(toServer[t][newest[t]], e)
  /\ know[Server][t] = e => \A d \in Devices \ {t} : up[d] /\ Joined(d, newest[d]) => Reached(d, t, e)

Live(t) == spoke[t] /\ up[t] /\ Joined(t, newest[t])

\* Who has typed since its socket joined is not being admitted again.
Admitted == \A t \in Talkers : spoke[t] /\ up[t] => room[t][newest[t]] # "admitting"
AllShown == \A t \in Talkers : Live(t) => \E e \in Clocked : Shown(t, e)

ReachInv == TypeInv /\ Admitted /\ AllShown

LEMMA Shape ==
  ASSUME TypeInv
  PROVE  /\ Knowing /\ ToServer /\ ToClient /\ Noted /\ Rooms /\ ClockInv /\ TrackInv
         /\ up \in [Devices -> BOOLEAN] /\ newest \in [Devices -> Nat] /\ spoke \in [Talkers -> BOOLEAN]
         /\ \A d \in Devices : up[d] => newest[d] \in Sockets
         /\ \A d \in Devices : toClient[d] \in Seq(Frames)
         /\ \A d \in Devices : \A n \in Sockets : toServer[d][n] \in Seq(Clocked)
BY Zenon DEF TypeInv, TrackInv, ClockInv, Types, Newest, RoomsInv, Flags, ToClient, ToServer

\* What a step has to leave for a word to stay the latest.
LEMMA ShownAgain ==
  ASSUME NEW t \in Talkers, NEW e \in Clocked, newest'[t] = newest[t],
         e.clock > 0, e.state # "none", e.state = know'[t][t].state,
         \A o \in Observers \ {t} : Below(know'[o][t], e),
         \A d \in Devices : \A g : In(toClient'[d], g) /\ t \in DOMAIN g => Below(g[t], e),
         \A n \in Sockets : \A x : In(toServer'[t][n], x) => Below(x, e),
         know'[Server][t] = e \/ In(toServer'[t][newest[t]], e),
         know'[Server][t] = e => \A d \in Devices \ {t} : up'[d] /\ Joined(d, newest[d])' => Reached(d, t, e)'
  PROVE  Shown(t, e)'
BY DEF Shown, Below, In

\* A step that is about others, for the latest word of t.
LEMMA AboutOthers ==
  ASSUME NEW t \in Talkers, NEW e \in Clocked, Shown(t, e), newest' = newest, up' = up,
         \A c \in Devices : Joined(c, newest[c])' => Joined(c, newest[c]),
         know'[t][t].state = know[t][t].state,
         \A o \in Observers \ {t} : know'[o][t] = know[o][t],
         \A n \in Sockets : \A x : In(toServer'[t][n], x) => In(toServer[t][n], x),
         In(toServer[t][newest[t]], e) => In(toServer'[t][newest[t]], e),
         \A d \in Devices : \A g : In(toClient'[d], g) => In(toClient[d], g) \/ t \notin DOMAIN g,
         \A d \in Devices : \A g : In(toClient[d], g) => In(toClient'[d], g)
  PROVE  Shown(t, e)'
<1>1. know'[Server][t] = know[Server][t] /\ \A d \in Devices \ {t} : know'[d][t] = know[d][t]
  BY Parties
<1>2. \A o \in Observers \ {t} : Below(know[o][t], e)'
  BY DEF Shown, Below
<1>3. \A d \in Devices : \A g : In(toClient'[d], g) /\ t \in DOMAIN g => Below(g[t], e)
  BY DEF Shown
<1>4. \A n \in Sockets : \A x : In(toServer'[t][n], x) => Below(x, e)
  BY DEF Shown
<1>5. \A d \in Devices \ {t} : Reached(d, t, e) => Reached(d, t, e)'
  BY <1>1 DEF Reached
<1>6. know'[Server][t] = e => \A d \in Devices \ {t} : up'[d] /\ Joined(d, newest[d])' => Reached(d, t, e)'
  BY <1>1, <1>5 DEF Shown
<1>7. know'[Server][t] = e \/ In(toServer'[t][newest[t]], e)
  BY <1>1 DEF Shown
<1> QED BY <1>2, <1>3, <1>4, <1>6, <1>7, ShownAgain DEF Shown, Below

\* Passing on an entry of somebody else is about others.
LEMMA OthersFrame ==
  ASSUME ToClient, NEW s \in Talkers, NEW t \in Talkers \ {s}, NEW x \in Clocked, NEW except,
         FanOut(Only(s, x), except) \/ toClient' = toClient
  PROVE  /\ \A d \in Devices : \A g : In(toClient'[d], g) => In(toClient[d], g) \/ t \notin DOMAIN g
         /\ \A d \in Devices : \A g : In(toClient[d], g) => In(toClient'[d], g)
<1>1. Only(s, x) \in Frames /\ t \notin DOMAIN Only(s, x)
  BY OneEntry
<1>2. CASE FanOut(Only(s, x), except)
  BY <1>1, <1>2, FanOutTyped, FanOutReaches
<1>3. CASE toClient' = toClient
  BY <1>3
<1> QED BY <1>2, <1>3

-----------------------------------------------------------------------------
LEMMA OpenShows ==
  ASSUME ReachInv, NEW t \in Talkers, NEW d \in Devices, Open(d), Live(t)'
  PROVE  \E e \in Clocked : Shown(t, e)'
<1> DEFINE m == newest[d] + 1
<1>1. /\ newest' = [newest EXCEPT ![d] = m] /\ up' = [up EXCEPT ![d] = TRUE]
      /\ room' = Put(room, d, m, "admitting")
      /\ toServer' = IF d \in Talkers THEN Put(toServer, d, m, <<know[d][d]>>) ELSE toServer
      /\ spoke' = [s \in Talkers |-> s # d /\ spoke[s]]
      /\ UNCHANGED <<know, toClient>>
  BY DEF Open, Put
<1>2. t # d /\ spoke[t] /\ t \in Devices
  BY <1>1, Parties DEF Live
<1>3. m \in Sockets /\ newest'[d] = m
  <2>1. RoomsInv' /\ newest' \in [Devices -> Sockets \cup {0}]
    BY OpenRooms DEF ReachInv
  <2>2. newest'[d] = m /\ newest[d] \in Nat
    BY <1>1, Shape DEF ReachInv
  <2>3. m # 0
    BY <2>2
  <2> QED BY <2>1, <2>2, <2>3
<1> HIDE DEF m
<1>4. /\ newest'[t] = newest[t] /\ up'[t] = up[t]
      /\ \A c \in Devices \ {d} : newest'[c] = newest[c] /\ up'[c] = up[c]
  BY <1>1, <1>2, Shape DEF ReachInv
<1>5. \A c \in Devices : \A n \in Sockets : room'[c][n] = IF c = d /\ n = m THEN "admitting" ELSE room[c][n]
  <2>1. Rooms /\ "admitting" \in Places
    BY Shape DEF ReachInv, Places
  <2> QED BY <1>1, <1>3, <2>1, RoomChanges
<1>6. toServer'[t] = toServer[t]
  <2>1. ToServer
    BY Shape DEF ReachInv
  <2> QED BY <1>1, <1>2, <2>1, Zenon DEF ToServer, Put
<1>7. up[t] /\ newest[t] \in Sockets
  BY <1>2, <1>4, Shape DEF Live, ReachInv
<1>8. PICK e \in Clocked : Shown(t, e)
  BY <1>2, <1>4, <1>5, <1>7 DEF Live, Joined, ReachInv, AllShown
<1>9. ASSUME NEW c \in Devices \ {t}, up'[c], Joined(c, newest[c])'
      PROVE  up[c] /\ Joined(c, newest[c])
  <2>1. c # d
    BY <1>3, <1>5, <1>9 DEF Joined
  <2>2. up[c] /\ newest[c] \in Sockets
    BY <1>4, <1>9, <2>1, Shape DEF ReachInv
  <2> QED BY <1>4, <1>5, <1>9, <2>1, <2>2 DEF Joined
<1>10. \A c \in Devices : \A s, x : (Reached(c, s, x) <=> Reached(c, s, x)')
  BY <1>1 DEF Reached, In
<1>11. know'[Server][t] = e => \A c \in Devices \ {t} : up'[c] /\ Joined(c, newest[c])' => Reached(c, t, e)'
  BY <1>1, <1>8, <1>9, <1>10 DEF Shown
<1>12. Shown(t, e)'
  BY <1>1, <1>4, <1>6, <1>8, <1>11, ShownAgain DEF Shown
<1> QED BY <1>12

LEMMA DownShows ==
  ASSUME ReachInv, NEW t \in Talkers, NEW d \in Devices, Down(d), Live(t)'
  PROVE  \E e \in Clocked : Shown(t, e)'
<1>1. /\ up' = [up EXCEPT ![d] = FALSE] /\ toClient' = [toClient EXCEPT ![d] = <<>>]
      /\ UNCHANGED <<know, newest, room, toServer, spoke>>
  BY DEF Down
<1>2. ~up'[d] /\ \A c \in Devices \ {d} : up'[c] = up[c]
  BY <1>1, Shape DEF ReachInv
<1>3. t # d /\ t \in Devices
  BY <1>2, Parties DEF Live
<1>4. PICK e \in Clocked : Shown(t, e)
  BY <1>1, <1>2, <1>3 DEF Live, Joined, ReachInv, AllShown
<1>5. <<>> \in Seq(Frames)
  OBVIOUS
<1>6. \A c \in Devices : toClient'[c] = IF c = d THEN <<>> ELSE toClient[c]
  BY <1>1, <1>5, QueueChanges, Shape DEF ReachInv
<1>7. \A c \in Devices : \A g : In(toClient'[c], g) => In(toClient[c], g)
  BY <1>6, InEmpty
<1>8. \A c \in Devices \ {d} : Reached(c, t, e) => Reached(c, t, e)'
  BY <1>1, <1>6 DEF Reached
<1>9. know'[Server][t] = e => \A c \in Devices \ {t} : up'[c] /\ Joined(c, newest[c])' => Reached(c, t, e)'
  BY <1>1, <1>2, <1>4, <1>8 DEF Shown, Joined
<1>10. \A c \in Devices : \A g : In(toClient'[c], g) /\ t \in DOMAIN g => Below(g[t], e)
  BY <1>4, <1>7 DEF Shown
<1>11. Shown(t, e)'
  BY <1>1, <1>4, <1>9, <1>10, ShownAgain DEF Shown
<1> QED BY <1>11

LEMMA LeaveShows ==
  ASSUME ReachInv, NEW t \in Talkers, NEW d \in Devices, Leave(d), Live(t)'
  PROVE  \E e \in Clocked : Shown(t, e)'
<1> DEFINE row == [s \in Talkers |-> IF s = d THEN know[d][s] ELSE Unknown]
<1>1. /\ know' = [know EXCEPT ![d] = row] /\ toClient' = [toClient EXCEPT ![d] = <<>>]
      /\ up' = [up EXCEPT ![d] = FALSE] /\ UNCHANGED <<newest, room, toServer>>
      /\ spoke' = [s \in Talkers |-> s # d /\ spoke[s]]
  BY DEF Leave
<1>2. t # d /\ spoke[t] /\ t \in Devices /\ t \in Observers /\ d \in Observers /\ d # Server
  BY <1>1, Parties DEF Live
<1>3. ~up'[d] /\ \A c \in Devices \ {d} : up'[c] = up[c]
  BY <1>1, Shape DEF ReachInv
<1>4. PICK e \in Clocked : Shown(t, e)
  BY <1>1, <1>2, <1>3 DEF Live, Joined, ReachInv, AllShown
<1>5. row \in [Talkers -> Clocked] /\ row[t] = Unknown
  <2>1. \A s \in Talkers : know[d][s] \in Clocked
    BY <1>2, ClocksAreNumbers, Shape DEF ReachInv, ClockInv
  <2> QED BY <1>2, <2>1, Entries
<1> HIDE DEF row
<1>6. know'[d] = row /\ \A c \in Observers \ {d} : know'[c] = know[c]
  BY <1>1, <1>2, Shape, Zenon DEF ReachInv, Knowing
<1>7. \A c \in Observers \ {d} : know'[c][t] = know[c][t]
  BY <1>6
<1>8. \A o \in Observers \ {t} : Below(know'[o][t], e)
  <2>1. Below(Unknown, e)
    BY <1>4, Entries DEF Shown, Below
  <2> QED BY <1>4, <1>5, <1>6, <1>7, <2>1 DEF Shown
<1>9. <<>> \in Seq(Frames)
  OBVIOUS
<1>10. \A c \in Devices : toClient'[c] = IF c = d THEN <<>> ELSE toClient[c]
  BY <1>1, <1>9, QueueChanges, Shape DEF ReachInv
<1>11. \A c \in Devices : \A g : In(toClient'[c], g) => In(toClient[c], g)
  BY <1>10, InEmpty
<1>12. \A c \in Devices \ {d} : Reached(c, t, e) => Reached(c, t, e)'
  BY <1>7, <1>10, Parties DEF Reached
<1>13. know'[Server][t] = know[Server][t] /\ know'[t][t] = know[t][t]
  BY <1>2, <1>7, Parties
<1>14. know'[Server][t] = e => \A c \in Devices \ {t} : up'[c] /\ Joined(c, newest[c])' => Reached(c, t, e)'
  BY <1>1, <1>3, <1>4, <1>12, <1>13 DEF Shown, Joined
<1>15. \A c \in Devices : \A g : In(toClient'[c], g) /\ t \in DOMAIN g => Below(g[t], e)
  BY <1>4, <1>11 DEF Shown
<1>16. Shown(t, e)'
  BY <1>1, <1>4, <1>8, <1>13, <1>14, <1>15, ShownAgain DEF Shown
<1> QED BY <1>16

\* A frame that arrives has nothing newer, and takes no word away.
LEMMA DeliverShows ==
  ASSUME ReachInv, NEW t \in Talkers, NEW d \in Devices, Deliver(d), Live(t)'
  PROVE  \E e \in Clocked : Shown(t, e)'
<1> DEFINE frame == Head(toClient[d])
           Taken(s) == s \in DOMAIN frame /\ Replaces(frame[s], know[d][s])
           row == [s \in Talkers |-> IF ~Taken(s) THEN know[d][s]
                                     ELSE IF s = d THEN Later(know[d][s]) ELSE frame[s]]
<1>1. /\ know' = [know EXCEPT ![d] = row] /\ toClient' = [toClient EXCEPT ![d] = Tail(toClient[d])]
      /\ UNCHANGED <<newest, up, room, toServer, spoke>>
  BY DEF Deliver
<1>2. PICK e \in Clocked : Shown(t, e)
  BY <1>1 DEF Live, Joined, ReachInv, AllShown
<1>3. toClient[d] \in Seq(Frames) /\ toClient[d] # <<>> /\ d \in Observers /\ d # Server /\ t \in Observers
  BY Parties, Shape DEF Deliver, ReachInv
<1>4. Tail(toClient[d]) \in Seq(Frames) /\ In(toClient[d], frame) /\ \A g : In(Tail(toClient[d]), g) => In(toClient[d], g)
  BY <1>3, InTail
<1>5. \A g : In(toClient[d], g) => g = frame \/ In(Tail(toClient[d]), g)
  BY <1>3, InHeadOrTail
<1>6. \A s \in DOMAIN frame : frame[s] \in Clocked /\ frame[s].clock \in Nat
  BY <1>4, ClocksAreNumbers, Shape DEF ReachInv, ClockInv
<1>7. \A s \in Talkers : know[d][s] \in Clocked /\ know[d][s].clock \in Nat
  BY <1>3, ClocksAreNumbers, Shape DEF ReachInv, ClockInv
<1>8. t \in DOMAIN frame => Below(frame[t], e)
  BY <1>2, <1>4 DEF Shown
<1>9. /\ t # d => Below(row[t], e) /\ (know[d][t] = e \/ (t \in DOMAIN frame /\ frame[t] = e) => row[t] = e)
      /\ t = d => row[t].state = know[d][t].state
  <2>1. row[t] = IF ~Taken(t) THEN know[d][t] ELSE IF t = d THEN Later(know[d][t]) ELSE frame[t]
    OBVIOUS
  <2>2. Taken(t) <=> (t \in DOMAIN frame /\ Replaces(frame[t], know[d][t]))
    OBVIOUS
  <2> HIDE DEF row, Taken, frame
  <2>3. CASE t = d
    <3>1. Later(know[d][t]).state = know[d][t].state
      BY <1>7, <2>3, LaterBounded, Parties DEF ReachInv, TypeInv, Bounded
    <3> QED BY <2>1, <2>3, <3>1
  <2>4. CASE t # d
    <3>1. Below(know[d][t], e) /\ e.clock \in Nat /\ e.state # "none"
      BY <1>2, <1>3, <2>4, Entries DEF Shown
    <3>2. Below(row[t], e)
      BY <1>8, <2>1, <2>2, <2>4, <3>1
    <3>3. CASE know[d][t] = e
      <4>1. ~Taken(t)
        BY <1>6, <1>8, <2>2, <3>1, <3>3 DEF Replaces, Below
      <4> QED BY <2>1, <2>4, <3>2, <3>3, <4>1
    <3>4. CASE know[d][t] # e /\ t \in DOMAIN frame /\ frame[t] = e
      <4>1. Taken(t)
        BY <1>7, <2>2, <3>1, <3>4 DEF Replaces, Below
      <4> QED BY <2>1, <2>4, <3>2, <3>4, <4>1
    <3> QED BY <2>4, <3>2, <3>3, <3>4
  <2> QED BY <2>3, <2>4
<1>10. row \in [Talkers -> Clocked]
  BY <1>6, <1>7, Entries
<1> HIDE DEF row, frame
<1>11. know'[d] = row /\ \A c \in Observers \ {d} : know'[c] = know[c]
  BY <1>1, <1>3, Shape, Zenon DEF ReachInv, Knowing
<1>12. \A c \in Devices : toClient'[c] = IF c = d THEN Tail(toClient[d]) ELSE toClient[c]
  BY <1>1, <1>4, QueueChanges, Shape DEF ReachInv
<1>13. know'[t][t].state = know[t][t].state /\ know'[Server][t] = know[Server][t]
  BY <1>3, <1>9, <1>11, Parties
<1>14. \A o \in Observers \ {t} : Below(know'[o][t], e)
  BY <1>2, <1>9, <1>11 DEF Shown
<1>15. \A c \in Devices : \A g : In(toClient'[c], g) => In(toClient[c], g)
  BY <1>4, <1>12
<1>16. ASSUME NEW c \in Devices \ {t}, Reached(c, t, e) PROVE Reached(c, t, e)'
  <2>1. CASE c # d
    BY <1>11, <1>12, <1>16, <2>1, Parties DEF Reached
  <2>2. CASE c = d /\ (know[d][t] = e \/ (t \in DOMAIN frame /\ frame[t] = e))
    BY <1>9, <1>11, <1>16, <2>2 DEF Reached
  <2>3. CASE c = d /\ ~(know[d][t] = e \/ (t \in DOMAIN frame /\ frame[t] = e))
    <3>1. PICK g \in Frames : In(toClient[d], g) /\ t \in DOMAIN g /\ g[t] = e
      BY <1>16, <2>3 DEF Reached
    <3>2. In(toClient'[d], g)
      BY <1>5, <1>12, <2>3, <3>1
    <3> QED BY <2>3, <3>1, <3>2 DEF Reached
  <2> QED BY <2>1, <2>2, <2>3
<1>17. know'[Server][t] = e => \A c \in Devices \ {t} : up'[c] /\ Joined(c, newest[c])' => Reached(c, t, e)'
  BY <1>1, <1>2, <1>13, <1>16 DEF Shown, Joined
<1>18. \A c \in Devices : \A g : In(toClient'[c], g) /\ t \in DOMAIN g => Below(g[t], e)
  BY <1>2, <1>15 DEF Shown
<1>19. Shown(t, e)'
  BY <1>1, <1>2, <1>13, <1>14, <1>17, <1>18, ShownAgain DEF Shown
<1> QED BY <1>19

\* Who joins is sent what the server has.
LEMMA JoinShows ==
  ASSUME ReachInv, NEW t \in Talkers, NEW d \in Devices, NEW n \in Sockets, Join(d, n), Live(t)'
  PROVE  \E e \in Clocked : Shown(t, e)'
<1> DEFINE present == {s \in Talkers : know[Server][s].state # "none"}
           frame   == [s \in present |-> know[Server][s]]
<1>1. /\ room[d][n] = "admitting" /\ room' = Put(room, d, n, "joined")
      /\ UNCHANGED <<know, newest, up, toServer, spoke>>
      /\ toClient' = IF Using(d, n) /\ present # {}
                     THEN [toClient EXCEPT ![d] = Append(toClient[d], frame)] ELSE toClient
  BY DEF Join, Put
<1>2. \A c \in Devices : \A m \in Sockets : room'[c][m] = IF c = d /\ m = n THEN "joined" ELSE room[c][m]
  <2>1. Rooms /\ "joined" \in Places
    BY Shape DEF ReachInv, Places
  <2> QED BY <1>1, <2>1, RoomChanges
<1>3. \A c \in Devices : up[c] => newest[c] \in Sockets
  BY Shape DEF ReachInv
<1>4. ~(t = d /\ newest[t] = n) /\ Live(t)
  <2>1. up[t] /\ spoke[t] /\ room[t][newest[t]] # "admitting"
    BY <1>1 DEF Live, ReachInv, Admitted
  <2> QED BY <1>1, <1>2, <1>3, <2>1, Parties DEF Live, Joined
<1>5. PICK e \in Clocked : Shown(t, e)
  BY <1>4 DEF ReachInv, AllShown
<1>6. toClient[d] \in Seq(Frames)
  BY Shape DEF ReachInv
<1>7. /\ present \in SUBSET Talkers /\ frame \in [present -> Clocked] /\ DOMAIN frame = present
      /\ \A s \in present : frame[s] = know[Server][s]
  <2>1. \A s \in Talkers : know[Server][s] \in Clocked
    BY ClocksAreNumbers, Parties, Shape DEF ReachInv, ClockInv
  <2> QED BY <2>1
<1>8. know[Server][t] = e => t \in present
  BY <1>5 DEF Shown
<1> HIDE DEF present, frame
<1>9. frame \in Frames
  BY <1>7, Zenon DEF Frames
<1>10. /\ Append(toClient[d], frame) \in Seq(Frames)
       /\ \A g : In(Append(toClient[d], frame), g) => In(toClient[d], g) \/ g = frame
       /\ In(Append(toClient[d], frame), frame)
       /\ \A g : In(toClient[d], g) => In(Append(toClient[d], frame), g)
  BY <1>6, <1>9, InAppended, InKept
<1>11. \A c \in Devices : toClient'[c] = IF c = d /\ Using(d, n) /\ present # {}
                                         THEN Append(toClient[d], frame) ELSE toClient[c]
  <2>1. CASE Using(d, n) /\ present # {}
    <3>1. ToClient /\ toClient' = [toClient EXCEPT ![d] = Append(toClient[d], frame)]
      BY <1>1, <2>1, Shape DEF ReachInv
    <3>2. \A c \in Devices : toClient'[c] = IF c = d THEN Append(toClient[d], frame) ELSE toClient[c]
      BY <1>10, <3>1, QueueChanges
    <3> QED BY <2>1, <3>2
  <2>2. CASE ~(Using(d, n) /\ present # {})
    <3>1. toClient' = toClient
      BY <1>1, <2>2
    <3> QED BY <2>2, <3>1
  <2> QED BY <2>1, <2>2
<1>12. \A c \in Devices : \A g : In(toClient[c], g) => In(toClient'[c], g)
  BY <1>10, <1>11
<1>13. \A c \in Devices : \A g : In(toClient'[c], g) => In(toClient[c], g) \/ g = frame
  BY <1>10, <1>11
<1>14. t \in DOMAIN frame => Below(frame[t], e)
  BY <1>5, <1>7, Parties DEF Shown
<1>15. \A c \in Devices : \A g : In(toClient'[c], g) /\ t \in DOMAIN g => Below(g[t], e)
  BY <1>5, <1>13, <1>14 DEF Shown
<1>16. \A c \in Devices : Reached(c, t, e) => Reached(c, t, e)'
  BY <1>1, <1>12 DEF Reached
<1>17. ASSUME know[Server][t] = e, NEW c \in Devices \ {t}, up[c], Joined(c, newest[c])' PROVE Reached(c, t, e)'
  <2>1. CASE Joined(c, newest[c])
    BY <1>5, <1>16, <1>17, <2>1 DEF Shown
  <2>2. CASE ~Joined(c, newest[c])
    <3>1. c = d /\ newest[c] = n
      BY <1>1, <1>2, <1>3, <1>17, <2>2 DEF Joined
    <3>2. toClient'[d] = Append(toClient[d], frame)
      BY <1>8, <1>11, <1>17, <3>1 DEF Using
    <3>3. In(toClient'[c], frame) /\ t \in DOMAIN frame /\ frame[t] = e
      BY <1>7, <1>8, <1>10, <1>17, <3>1, <3>2
    <3> QED BY <1>9, <3>3 DEF Reached
  <2> QED BY <2>1, <2>2
<1>18. know'[Server][t] = e => \A c \in Devices \ {t} : up'[c] /\ Joined(c, newest[c])' => Reached(c, t, e)'
  BY <1>1, <1>17
<1>19. Shown(t, e)'
  BY <1>1, <1>5, <1>15, <1>18, ShownAgain DEF Shown
<1> QED BY <1>19

\* What the server takes of t is no newer than its latest word, and when it is
\* that word, everybody else in the room is sent it.
LEMMA ServerLearns ==
  ASSUME ReachInv, NEW t \in Talkers, NEW e \in Clocked, Shown(t, e), NEW new \in Clocked, NEW n \in Sockets,
         Below(new, e), know[Server][t] # e, know' = Put(know, Server, t, new),
         FanOut(Only(t, new), <<t, n>>), UNCHANGED <<newest, up, room>>,
         \A m \in Sockets : \A x : In(toServer'[t][m], x) => In(toServer[t][m], x),
         new = e \/ In(toServer'[t][newest[t]], e)
  PROVE  Shown(t, e)'
<1>1. Only(t, new) \in Frames /\ DOMAIN Only(t, new) = {t} /\ Only(t, new)[t] = new
  BY OneEntry
<1>2. Knowing /\ ToClient /\ Server \in Observers /\ Server # t /\ t \in Observers
  BY Shape, Parties DEF ReachInv
<1>3. Knowing' /\ \A p \in Observers : \A s \in Talkers : know'[p][s] = IF p = Server /\ s = t THEN new ELSE know[p][s]
  BY <1>2, EntryChanges
<1>4. \A d \in Devices : \A g : In(toClient'[d], g) => In(toClient[d], g) \/ g = Only(t, new)
  BY <1>1, <1>2, FanOutTyped
<1>5. \A d \in Devices : \A g : In(toClient'[d], g) /\ t \in DOMAIN g => Below(g[t], e)
  BY <1>1, <1>4 DEF Shown
<1>6. \A o \in Observers \ {t} : Below(know'[o][t], e)
  BY <1>3 DEF Shown
<1>7. ASSUME new = e, NEW d \in Devices \ {t}, up[d], Joined(d, newest[d]) PROVE Reached(d, t, e)'
  <2>1. In(toClient'[d], Only(t, new))
    BY <1>1, <1>2, <1>7, FanOutReaches
  <2> QED BY <1>1, <1>7, <2>1 DEF Reached
<1>8. know'[Server][t] = e => \A d \in Devices \ {t} : up'[d] /\ Joined(d, newest[d])' => Reached(d, t, e)'
  BY <1>2, <1>3, <1>7 DEF Joined
<1>9. e.state = know'[t][t].state /\ newest'[t] = newest[t] /\ (know'[Server][t] = e \/ In(toServer'[t][newest[t]], e))
  BY <1>2, <1>3 DEF Shown
<1>10. \A m \in Sockets : \A x : In(toServer'[t][m], x) => Below(x, e)
  BY DEF Shown
<1> QED BY <1>5, <1>6, <1>8, <1>9, <1>10, ShownAgain DEF Shown

LEMMA ArriveShows ==
  ASSUME ReachInv, NEW t \in Talkers, NEW d \in Devices, NEW n \in Sockets, Arrive(d, n), Live(t)'
  PROVE  \E e \in Clocked : Shown(t, e)'
<1> DEFINE q == toServer[d][n]
           new == Head(q)
<1>1. /\ q # <<>> /\ toServer' = Put(toServer, d, n, Tail(q))
      /\ UNCHANGED <<newest, up, room, spoke>>
  BY DEF Arrive, Put
<1>2. PICK e \in Clocked : Shown(t, e)
  BY <1>1 DEF Live, Joined, ReachInv, AllShown
<1>3. q \in Seq(Clocked) /\ ToServer /\ ToClient /\ Knowing
  BY Shape DEF ReachInv
<1>4. Tail(q) \in Seq(Clocked) /\ new \in Clocked /\ In(q, new) /\ \A x : In(Tail(q), x) => In(q, x)
  BY <1>1, <1>3, InTail
<1>5. \A x : In(q, x) => x = new \/ In(Tail(q), x)
  BY <1>3, InHeadOrTail
<1>6. d \in Talkers
  BY <1>1 DEF ReachInv, TypeInv, TrackInv, ClockInv, Types, Silent
<1>7. \A c \in Devices : \A m \in Sockets : toServer'[c][m] = IF c = d /\ m = n THEN Tail(q) ELSE toServer[c][m]
  <2>1. Tail(q) \in Queues
    BY <1>4 DEF Queues
  <2> QED BY <1>1, <1>3, <2>1, SocketChanges
<1>8. \A m \in Sockets : \A x : In(toServer'[t][m], x) => In(toServer[t][m], x)
  BY <1>4, <1>7, Parties
<1>9. \/ know' = Put(know, Server, d, new) /\ FanOut(Only(d, new), <<d, n>>) /\ Replaces(new, know[Server][d])
      \/ /\ UNCHANGED <<know, toClient>>
         /\ Joined(d, n) => ~Replaces(new, know[Server][d])
  BY DEF Arrive, PassesOn, Only, Put
<1>10. newest[t] \in Sockets /\ Joined(t, newest[t]) /\ t \in Devices
  BY <1>1, Parties, Shape DEF Live, Joined, ReachInv
<1>11. Below(know[Server][t], e) /\ e.clock \in Nat /\ e.state # "none" /\ know[Server][t].clock \in Nat
  BY <1>2, Parties, Entries, ClocksAreNumbers, Shape DEF Shown, ReachInv, ClockInv
<1>12. CASE t # d
  <2>1. /\ \A c \in Devices : \A g : In(toClient'[c], g) => In(toClient[c], g) \/ t \notin DOMAIN g
        /\ \A c \in Devices : \A g : In(toClient[c], g) => In(toClient'[c], g)
    BY <1>3, <1>4, <1>6, <1>9, <1>12, OthersFrame
  <2>2. \A o \in Observers : know'[o][t] = know[o][t]
    <3>1. CASE know' = know
      BY <3>1
    <3>2. CASE know' = Put(know, Server, d, new)
      <4>1. Knowing /\ new \in Clocked /\ d \in Talkers /\ Server \in Observers
        BY <1>3, <1>4, <1>6, Parties
      <4> HIDE DEF new
      <4>2. Knowing' /\ \A p \in Observers : \A s \in Talkers : know'[p][s] = IF p = Server /\ s = d THEN new ELSE know[p][s]
        BY <3>2, <4>1, EntryChanges
      <4> QED BY <1>12, <4>2
    <3> QED BY <1>9, <3>1, <3>2
  <2>3. \A m \in Sockets : toServer'[t][m] = toServer[t][m]
    BY <1>7, <1>10, <1>12
  <2>4. know'[t][t].state = know[t][t].state
    BY <2>2, Parties
  <2>5. Shown(t, e)'
    BY <1>1, <1>2, <1>8, <1>10, <2>1, <2>2, <2>3, <2>4, AboutOthers DEF Joined
  <2> QED BY <2>5
<1>13. CASE t = d
  <2>1. Below(new, e)
    BY <1>2, <1>4, <1>13 DEF Shown
  <2>2. know[Server][t] = e \/ new = e \/ In(toServer'[t][newest[t]], e)
    <3>1. know[Server][t] = e \/ In(toServer[t][newest[t]], e)
      BY <1>2 DEF Shown
    <3> QED BY <1>5, <1>7, <1>10, <1>13, <3>1
  <2> HIDE DEF new, q
  <2>3. know[Server][t] = e => ~Replaces(new, know[Server][t])
    BY <1>4, <1>11, <2>1, Entries DEF Replaces, Below
  <2>4. CASE know' = Put(know, Server, d, new) /\ FanOut(Only(d, new), <<d, n>>) /\ Replaces(new, know[Server][d])
    <3>1. Shown(t, e)'
      BY <1>1, <1>2, <1>4, <1>8, <1>13, <2>1, <2>2, <2>3, <2>4, ServerLearns
    <3> QED BY <3>1
  <2>5. CASE UNCHANGED <<know, toClient>> /\ (Joined(d, n) => ~Replaces(new, know[Server][d]))
    <3>1. know[Server][t] = e \/ In(toServer'[t][newest[t]], e)
      <4>1. CASE newest[t] # n
        BY <1>2, <1>7, <1>10, <1>13, <4>1 DEF Shown
      <4>2. CASE newest[t] = n /\ new = e /\ know[Server][t] # e
        <5>1. Replaces(new, know[Server][t])
          BY <1>11, <4>2 DEF Replaces, Below
        <5> QED BY <1>10, <1>13, <2>5, <4>2, <5>1
      <4> QED BY <2>2, <4>1, <4>2
    <3>2. \A c \in Devices : Reached(c, t, e) => Reached(c, t, e)'
      BY <2>5 DEF Reached
    <3>3. know'[Server][t] = e => \A c \in Devices \ {t} : up'[c] /\ Joined(c, newest[c])' => Reached(c, t, e)'
      BY <1>1, <1>2, <2>5, <3>2 DEF Shown, Joined
    <3>4. \A m \in Sockets : \A x : In(toServer'[t][m], x) => Below(x, e)
      BY <1>2, <1>8 DEF Shown
    <3>5. Shown(t, e)'
      BY <1>1, <1>2, <2>5, <3>1, <3>3, <3>4, ShownAgain DEF Shown
    <3> QED BY <3>5
  <2> QED BY <1>9, <2>4, <2>5
<1> QED BY <1>12, <1>13

\* An entry of somebody else is changed, and may be passed on.
LEMMA OthersEntry ==
  ASSUME ReachInv, NEW t \in Talkers, Live(t), NEW s \in Talkers \ {t}, NEW o \in Observers, NEW x \in Clocked,
         NEW except,
         know' = Put(know, o, s, x), FanOut(Only(s, x), except) \/ toClient' = toClient,
         UNCHANGED <<newest, up>>, \A m \in Sockets : toServer'[t][m] = toServer[t][m],
         \A c \in Devices : up[c] /\ Joined(c, newest[c])' => Joined(c, newest[c])
  PROVE  \E e \in Clocked : Shown(t, e)'
<1>1. PICK e \in Clocked : Shown(t, e)
  BY DEF ReachInv, AllShown
<1>2. Knowing /\ ToClient
  BY Shape DEF ReachInv
<1>3. Knowing' /\ \A p \in Observers : \A r \in Talkers : know'[p][r] = IF p = o /\ r = s THEN x ELSE know[p][r]
  BY <1>2, EntryChanges
<1>4. /\ \A d \in Devices : \A g : In(toClient'[d], g) => In(toClient[d], g) \/ t \notin DOMAIN g
      /\ \A d \in Devices : \A g : In(toClient[d], g) => In(toClient'[d], g)
  BY <1>2, OthersFrame
<1>5. \A p \in Observers : know'[p][t] = know[p][t]
  BY <1>3
<1>6. t \in Observers /\ newest[t] \in Sockets
  BY Parties, Shape DEF ReachInv, Live
<1>7. \A c \in Devices : Reached(c, t, e) => Reached(c, t, e)'
  BY <1>4, <1>5, Parties DEF Reached
<1>8. know'[Server][t] = e => \A c \in Devices \ {t} : up'[c] /\ Joined(c, newest[c])' => Reached(c, t, e)'
  BY <1>1, <1>5, <1>7, Parties DEF Shown
<1>9. \A o2 \in Observers \ {t} : Below(know'[o2][t], e)
  BY <1>1, <1>5 DEF Shown
<1>10. \A d \in Devices : \A g : In(toClient'[d], g) /\ t \in DOMAIN g => Below(g[t], e)
  BY <1>1, <1>4 DEF Shown
<1>11. \A m \in Sockets : \A y : In(toServer'[t][m], y) => Below(y, e)
  BY <1>1 DEF Shown
<1>12. e.state = know'[t][t].state /\ (know'[Server][t] = e \/ In(toServer'[t][newest[t]], e))
  BY <1>1, <1>5, <1>6, Parties DEF Shown
<1>13. Shown(t, e)'
  BY <1>1, <1>8, <1>9, <1>10, <1>11, <1>12, ShownAgain DEF Shown
<1> QED BY <1>13

\* Entries and frames are left alone.
LEMMA NothingShown ==
  ASSUME ReachInv, NEW t \in Talkers, Live(t), UNCHANGED <<know, toClient, newest, up>>,
         \A m \in Sockets : m = newest[t] => toServer'[t][m] = toServer[t][m],
         \A m \in Sockets : \A x : In(toServer'[t][m], x) => In(toServer[t][m], x),
         \A c \in Devices : up[c] /\ Joined(c, newest[c])' => Joined(c, newest[c])
  PROVE  \E e \in Clocked : Shown(t, e)'
<1>1. PICK e \in Clocked : Shown(t, e)
  BY DEF ReachInv, AllShown
<1>2. newest[t] \in Sockets
  BY Parties, Shape DEF ReachInv, Live
<1>3. \A c \in Devices : Reached(c, t, e) => Reached(c, t, e)'
  BY DEF Reached
<1>4. know'[Server][t] = e => \A c \in Devices \ {t} : up'[c] /\ Joined(c, newest[c])' => Reached(c, t, e)'
  BY <1>1, <1>3 DEF Shown
<1>5. \A m \in Sockets : \A y : In(toServer'[t][m], y) => Below(y, e)
  BY <1>1 DEF Shown
<1>6. Shown(t, e)'
  BY <1>1, <1>2, <1>4, <1>5, ShownAgain DEF Shown
<1> QED BY <1>6

LEMMA DisconnectShows ==
  ASSUME ReachInv, NEW t \in Talkers, NEW d \in Devices, NEW n \in Sockets, HandleDisconnect(d, n), Live(t)'
  PROVE  \E e \in Clocked : Shown(t, e)'
<1>1. /\ toServer' = Put(toServer, d, n, <<>>) /\ UNCHANGED <<newest, up>>
      /\ room' = Put(room, d, n, "closed")
  BY DEF HandleDisconnect, Put
<1>2. \A c \in Devices : \A m \in Sockets : room'[c][m] = IF c = d /\ m = n THEN "closed" ELSE room[c][m]
  <2>1. Rooms /\ "closed" \in Places
    BY Shape DEF ReachInv, Places
  <2> QED BY <1>1, <2>1, RoomChanges
<1>3. \A c \in Devices : \A m \in Sockets : toServer'[c][m] = IF c = d /\ m = n THEN <<>> ELSE toServer[c][m]
  <2>1. ToServer
    BY Shape DEF ReachInv
  <2> QED BY <1>1, <2>1, NoQueue, SocketChanges
<1>4. \A c \in Devices : up[c] /\ Joined(c, newest[c])' => Joined(c, newest[c]) /\ ~(c = d /\ newest[c] = n)
  BY <1>1, <1>2, Shape DEF ReachInv, Joined
<1>5. up[t] /\ Joined(t, newest[t]) /\ ~(t = d /\ newest[t] = n) /\ t \in Devices
  BY <1>1, <1>4, Parties DEF Live
<1>6. \A m \in Sockets : \A x : In(toServer'[t][m], x) => In(toServer[t][m], x)
  BY <1>3, <1>5, InEmpty
<1>7. \A m \in Sockets : m = newest[t] \/ t # d => toServer'[t][m] = toServer[t][m]
  BY <1>3, <1>5
<1>8. CASE d \in Talkers /\ Clears(d, n)
  <2> DEFINE x == Removed(know[Server][d])
  <2>1. know' = Put(know, Server, d, x) /\ FanOut(Only(d, x), <<d, n>>) /\ spoke' = [spoke EXCEPT ![d] = FALSE]
    BY <1>8 DEF HandleDisconnect, Put
  <2>2. x \in Clocked
    BY <1>8, ClocksAreNumbers, Parties, Entries, Shape DEF ReachInv, ClockInv
  <2>3. t # d /\ spoke[t]
    BY <2>1, <1>8, Shape DEF Live, ReachInv
  <2>4. Live(t)
    BY <1>5, <2>3 DEF Live
  <2> HIDE DEF x
  <2> QED BY <1>1, <1>4, <1>7, <1>8, <2>1, <2>2, <2>3, <2>4, Parties, OthersEntry
<1>9. CASE ~(d \in Talkers /\ Clears(d, n))
  <2>1. UNCHANGED <<know, toClient, spoke>>
    BY <1>9 DEF HandleDisconnect
  <2>2. Live(t)
    BY <1>5, <2>1 DEF Live
  <2> QED BY <1>1, <1>4, <1>6, <1>7, <2>1, <2>2, NothingShown
<1> QED BY <1>8, <1>9

LEMMA ExpireShows ==
  ASSUME ReachInv, NEW t \in Talkers, NEW o \in Observers, NEW s \in Talkers, Expire(o, s), Live(t)'
  PROVE  \E e \in Clocked : Shown(t, e)'
<1> DEFINE x == Removed(know[o][s])
<1>1. /\ know' = Put(know, o, s, x) /\ spoke' = [spoke EXCEPT ![s] = FALSE]
      /\ FanOut(Only(s, x), <<>>) \/ toClient' = toClient
      /\ UNCHANGED <<newest, up, room, toServer>>
  BY DEF Expire, Put
<1>2. x \in Clocked
  BY ClocksAreNumbers, Entries, Shape DEF ReachInv, ClockInv
<1>3. t # s /\ spoke[t]
  BY <1>1, Shape DEF Live, ReachInv
<1>4. Live(t) /\ \A c \in Devices : up[c] /\ Joined(c, newest[c])' => Joined(c, newest[c])
  BY <1>1, <1>3 DEF Live, Joined
<1> HIDE DEF x
<1> QED BY <1>1, <1>2, <1>3, <1>4, OthersEntry

LEMMA RenewShows ==
  ASSUME ReachInv, NEW t \in Talkers, NEW s \in Talkers, Renew(s), Live(t)'
  PROVE  \E e \in Clocked : Shown(t, e)'
<1> DEFINE x == [know[s][s] EXCEPT !.clock = @ + 1]
<1>1. know' = Put(know, s, s, x) /\ UNCHANGED <<newest, up, room, toServer, toClient, spoke>>
  BY DEF Renew, Put
<1>2. s \in Observers /\ t \in Observers /\ s # Server /\ t # Server /\ know[s][s] \in Clocked
  BY ClocksAreNumbers, Parties, Shape DEF ReachInv, ClockInv
<1>3. x \in Clocked /\ x.state = know[s][s].state
  BY <1>2, Entries DEF Clocked
<1>4. Live(t) /\ \A c \in Devices : up[c] /\ Joined(c, newest[c])' => Joined(c, newest[c])
  BY <1>1 DEF Live, Joined
<1> HIDE DEF x
<1>5. CASE s # t
  <2>1. \A m \in Sockets : toServer'[t][m] = toServer[t][m]
    BY <1>1
  <2> QED BY <1>1, <1>2, <1>3, <1>4, <1>5, <2>1, OthersEntry
<1>6. CASE s = t
  <2>1. PICK e \in Clocked : Shown(t, e)
    BY <1>4 DEF ReachInv, AllShown
  <2>2. Knowing
    BY Shape DEF ReachInv
  <2>3. Knowing' /\ \A p \in Observers : \A r \in Talkers : know'[p][r] = IF p = s /\ r = s THEN x ELSE know[p][r]
    BY <1>1, <1>2, <1>3, <2>2, EntryChanges
  <2>4. know'[t][t].state = know[t][t].state /\ \A o \in Observers \ {t} : know'[o][t] = know[o][t]
    BY <1>2, <1>3, <1>6, <2>3
  <2>5. \A c \in Devices \ {t} : Reached(c, t, e) => Reached(c, t, e)'
    BY <1>1, <2>4, Parties DEF Reached
  <2>6. know'[Server][t] = e => \A c \in Devices \ {t} : up'[c] /\ Joined(c, newest[c])' => Reached(c, t, e)'
    BY <1>1, <1>2, <1>4, <2>1, <2>4, <2>5, Parties DEF Shown
  <2>7. Shown(t, e)'
    BY <1>1, <1>2, <2>1, <2>4, <2>6, Parties, ShownAgain DEF Shown
  <2> QED BY <2>7
<1> QED BY <1>5, <1>6

\* What is typed is newer than all there is.
LEMMA TypeShows ==
  ASSUME ReachInv, NEW t \in Talkers, NEW s \in Talkers, NEW state \in {"here", "typing"}, Type(s, state), Live(t)'
  PROVE  \E e \in Clocked : Shown(t, e)'
<1>0. PICK x : x = [clock |-> know[s][s].clock + 1, state |-> state]
  OBVIOUS
<1>1. /\ know' = Put(know, s, s, x) /\ UNCHANGED <<newest, up, room, toClient>>
      /\ toServer' = IF up[s] THEN Put(toServer, s, newest[s], Append(toServer[s][newest[s]], know'[s][s])) ELSE toServer
      /\ spoke' = [spoke EXCEPT ![s] = up[s] /\ Joined(s, newest[s])]
  BY <1>0 DEF Type, Put
<1>2. s \in Observers /\ t \in Observers /\ s \in Devices /\ t \in Devices /\ s # Server /\ t # Server
      /\ know[s][s] \in Clocked /\ know[s][s].clock \in Nat
  BY ClocksAreNumbers, Parties, Shape DEF ReachInv, ClockInv
<1>3. x \in Clocked /\ x.state = state /\ x.clock = know[s][s].clock + 1 /\ x.clock > 0
  BY <1>0, <1>2 DEF Clocked, States
<1>4. Knowing /\ ToServer
  BY Shape DEF ReachInv
<1>5. Knowing' /\ \A p \in Observers : \A r \in Talkers : know'[p][r] = IF p = s /\ r = s THEN x ELSE know[p][r]
  BY <1>1, <1>2, <1>3, <1>4, EntryChanges
<1>6. CASE s # t
  <2>1. spoke[t] /\ Live(t) /\ \A c \in Devices : up[c] /\ Joined(c, newest[c])' => Joined(c, newest[c])
    BY <1>1, <1>6, Shape DEF Live, Joined, ReachInv
  <2>2. toServer'[t] = toServer[t]
    BY <1>1, <1>2, <1>4, <1>6, Zenon DEF ToServer, Put
  <2>3. \A m \in Sockets : toServer'[t][m] = toServer[t][m]
    BY <2>2
  <2> QED BY <1>1, <1>2, <1>3, <1>6, <2>1, <2>3, OthersEntry
<1>7. CASE s = t
  <2> DEFINE n == newest[t]
             q == Append(toServer[t][n], x)
  <2>1. up[t] /\ n \in Sockets /\ toServer[t][n] \in Seq(Clocked)
    BY <1>1, <1>2, Shape DEF Live, ReachInv
  <2>2. q \in Queues /\ In(q, x) /\ \A y : In(q, y) => In(toServer[t][n], y) \/ y = x
    BY <1>3, <2>1, InAppended, InKept DEF Queues
  <2>3. toServer' = Put(toServer, t, n, q)
    <3>1. know'[s][s] = x /\ up[s]
      BY <1>2, <1>5, <1>7, <2>1
    <3>2. toServer' = Put(toServer, s, newest[s], Append(toServer[s][newest[s]], x))
      BY <1>1, <3>1
    <3> QED BY <1>7, <3>2
  <2> HIDE DEF q, n
  <2>4. ToServer' /\ \A c \in Devices : \A m \in Sockets : toServer'[c][m] = IF c = t /\ m = n THEN q ELSE toServer[c][m]
    BY <1>2, <1>4, <2>1, <2>2, <2>3, SocketChanges
  <2>5. know'[t][t] = x /\ \A o \in Observers \ {t} : know'[o][t] = know[o][t]
    BY <1>2, <1>5, <1>7
  <2>6. ClockInv /\ Types
    BY Shape DEF ReachInv, ClockInv
  <2>7. \A o \in Observers \ {t} : Below(know'[o][t], x) /\ know[o][t] # x
    <3>1. \A o \in Observers : know[o][t].clock \in Nat /\ know[o][t].clock <= know[t][t].clock
      BY <2>6, ClocksAreNumbers DEF ClockInv, Leads
    <3> QED BY <1>2, <1>3, <1>7, <2>5, <3>1 DEF Below
  <2>8. \A c \in Devices : \A g : In(toClient'[c], g) /\ t \in DOMAIN g => Below(g[t], x)
    <3>1. \A c \in Devices : \A g : In(toClient[c], g) /\ t \in DOMAIN g =>
            g[t].clock \in Nat /\ g[t].clock <= know[t][t].clock
      BY <2>6, ClocksAreNumbers DEF ClockInv, Leads
    <3> QED BY <1>1, <1>2, <1>3, <1>7, <3>1 DEF Below
  <2>9. \A m \in Sockets : \A y : In(toServer'[t][m], y) => Below(y, x)
    <3>1. \A m \in Sockets : \A y : In(toServer[t][m], y) => y.clock \in Nat /\ y.clock <= know[t][t].clock
      BY <1>2, <2>6, ClocksAreNumbers DEF ClockInv, Leads
    <3> QED BY <1>2, <1>3, <1>7, <2>2, <2>4, <3>1 DEF Below
  <2>10. In(toServer'[t][newest[t]], x)
    BY <1>2, <2>1, <2>2, <2>4 DEF n
  <2>11. know'[Server][t] # x
    BY <1>2, <2>5, <2>7, Parties
  <2>12. Shown(t, x)'
    BY <1>1, <1>3, <2>5, <2>7, <2>8, <2>9, <2>10, <2>11, ShownAgain
  <2> QED BY <1>3, <2>12
<1> QED BY <1>6, <1>7

\* Only opening puts a socket where it is being admitted, and says that nothing
\* was typed on it.
LEMMA NextAdmitted ==
  ASSUME ReachInv, [Next]_vars
  PROVE  Admitted'
<1>1. ASSUME \A t \in Talkers : spoke'[t] /\ up'[t] =>
                \/ room'[t][newest[t]] # "admitting"
                \/ spoke[t] /\ up[t] /\ room'[t][newest[t]] = room[t][newest[t]],
             newest' = newest
      PROVE  Admitted'
  BY <1>1 DEF ReachInv, Admitted
<1>2. CASE UNCHANGED vars
  BY <1>1, <1>2 DEF vars
<1>3. \A t \in Talkers : t \in Devices /\ (up[t] => newest[t] \in Sockets)
  BY Parties, Shape DEF ReachInv
<1>4. Rooms /\ {"admitting", "joined", "closed"} \subseteq Places
  BY Shape DEF ReachInv, Places
<1>5. up \in [Devices -> BOOLEAN] /\ spoke \in [Talkers -> BOOLEAN] /\ newest \in [Devices -> Nat]
  BY Shape DEF ReachInv
<1>6. CASE SweepHeartbeats
  <2>1. \A d \in Devices : \A n \in Sockets : room'[d][n] = "terminated" \/ room'[d][n] = room[d][n]
    BY <1>6 DEF SweepHeartbeats
  <2>2. UNCHANGED <<spoke, up, newest>>
    BY <1>6 DEF SweepHeartbeats
  <2> QED BY <1>1, <1>3, <2>1, <2>2
<1>7. ASSUME NEW d \in Devices, Open(d) PROVE Admitted'
  <2>1. /\ up' = [up EXCEPT ![d] = TRUE] /\ newest' = [newest EXCEPT ![d] = newest[d] + 1]
        /\ spoke' = [t \in Talkers |-> t # d /\ spoke[t]]
        /\ room' = Put(room, d, newest[d] + 1, "admitting")
    BY <1>7 DEF Open, Put
  <2>2. room'[d] = [room[d] EXCEPT ![newest[d] + 1] = "admitting"] /\ \A c \in Devices \ {d} : room'[c] = room[c]
    BY <1>4, <2>1, Zenon DEF Rooms, Put
  <2>3. \A c \in Devices \ {d} : newest'[c] = newest[c] /\ up'[c] = up[c]
    BY <1>5, <2>1
  <2>4. ASSUME NEW t \in Talkers, spoke'[t], up'[t] PROVE room'[t][newest'[t]] # "admitting"
    <3>1. t # d /\ spoke[t]
      BY <2>1, <2>4
    <3> QED BY <1>3, <2>2, <2>3, <2>4, <3>1 DEF ReachInv, Admitted
  <2> QED BY <2>4 DEF Admitted
<1>8. ASSUME NEW d \in Devices, Down(d) \/ Deliver(d) \/ Leave(d) PROVE Admitted'
  <2>1. newest' = newest /\ room' = room
    BY <1>8 DEF Down, Deliver, Leave
  <2>2. \A t \in Talkers : spoke'[t] => spoke[t]
    BY <1>8 DEF Down, Deliver, Leave
  <2>3. \A t \in Talkers : up'[t] => up[t]
    BY <1>3, <1>5, <1>8 DEF Down, Deliver, Leave
  <2> QED BY <1>1, <2>1, <2>2, <2>3
<1>9. ASSUME NEW d \in Devices, NEW n \in Sockets, Join(d, n) PROVE Admitted'
  <2>1. room' = Put(room, d, n, "joined") /\ UNCHANGED <<newest, up, spoke>>
    BY <1>9 DEF Join, Put
  <2>2. Rooms' /\ \A c \in Devices : \A m \in Sockets : room'[c][m] = IF c = d /\ m = n THEN "joined" ELSE room[c][m]
    BY <1>4, <2>1, RoomChanges
  <2> QED BY <1>1, <1>3, <2>1, <2>2
<1>10. ASSUME NEW d \in Devices, NEW n \in Sockets, HandleDisconnect(d, n) PROVE Admitted'
  <2>1. room' = Put(room, d, n, "closed") /\ UNCHANGED <<newest, up>>
    BY <1>10 DEF HandleDisconnect, Put
  <2>2. \A t \in Talkers : spoke'[t] => spoke[t]
    <3>1. spoke' = spoke \/ spoke' = [spoke EXCEPT ![d] = FALSE]
      BY <1>10 DEF HandleDisconnect
    <3> QED BY <1>5, <3>1
  <2>3. Rooms' /\ \A c \in Devices : \A m \in Sockets : room'[c][m] = IF c = d /\ m = n THEN "closed" ELSE room[c][m]
    BY <1>4, <2>1, RoomChanges
  <2> QED BY <1>1, <1>3, <2>1, <2>2, <2>3
<1>11. ASSUME NEW d \in Devices, NEW n \in Sockets, Arrive(d, n) \/ Pong(d, n) PROVE Admitted'
  <2>1. UNCHANGED <<spoke, up, room, newest>>
    BY <1>11 DEF Arrive, Pong
  <2> QED BY <1>1, <2>1
<1>12. ASSUME NEW t \in Talkers, Renew(t) \/ \E o \in Observers : Expire(o, t) PROVE Admitted'
  <2>1. UNCHANGED <<up, room, newest>> /\ (spoke' = spoke \/ spoke' = [spoke EXCEPT ![t] = FALSE])
    BY <1>12 DEF Renew, Expire
  <2>2. \A s \in Talkers : spoke'[s] => spoke[s]
    BY <1>5, <2>1
  <2> QED BY <1>1, <2>1, <2>2
<1>13. ASSUME NEW t \in Talkers, NEW state \in {"here", "typing"}, Type(t, state) PROVE Admitted'
  <2>1. UNCHANGED <<up, room, newest>> /\ spoke' = [spoke EXCEPT ![t] = up[t] /\ Joined(t, newest[t])]
    BY <1>13 DEF Type
  <2>2. \A s \in Talkers : spoke'[s] => spoke[s] \/ room[s][newest[s]] = "joined"
    BY <1>5, <2>1 DEF Joined
  <2> QED BY <1>1, <2>1, <2>2
<1> QED BY <1>2, <1>6, <1>7, <1>8, <1>9, <1>10, <1>11, <1>12, <1>13 DEF Next

LEMMA NextShown ==
  ASSUME ReachInv, [Next]_vars
  PROVE  AllShown'
<1>1. ASSUME NEW t \in Talkers, Live(t)' PROVE \E e \in Clocked : Shown(t, e)'
  <2>1. ASSUME UNCHANGED <<know, toClient, newest, up, toServer, spoke>>,
               \A c \in Devices : up[c] /\ Joined(c, newest[c])' => Joined(c, newest[c])
        PROVE  \E e \in Clocked : Shown(t, e)'
    <3>1. Live(t)
      BY <1>1, <2>1, Parties DEF Live
    <3> QED BY <2>1, <3>1, NothingShown
  <2>2. CASE UNCHANGED vars
    BY <2>1, <2>2 DEF vars, Joined
  <2>3. CASE SweepHeartbeats
    <3>1. UNCHANGED <<know, toClient, newest, up, toServer, spoke>>
      BY <2>3 DEF SweepHeartbeats
    <3>2. \A c \in Devices : \A n \in Sockets : room'[c][n] = "terminated" \/ room'[c][n] = room[c][n]
      BY <2>3 DEF SweepHeartbeats
    <3>3. \A c \in Devices : up[c] => newest[c] \in Sockets
      BY Shape DEF ReachInv
    <3>4. \A c \in Devices : up[c] /\ Joined(c, newest[c])' => Joined(c, newest[c])
      BY <3>1, <3>2, <3>3 DEF Joined
    <3> QED BY <2>1, <3>1, <3>4
  <2>4. ASSUME NEW d \in Devices, Open(d) \/ Down(d) \/ Deliver(d) \/ Leave(d) PROVE \E e \in Clocked : Shown(t, e)'
    BY <1>1, <2>4, OpenShows, DownShows, DeliverShows, LeaveShows
  <2>5. ASSUME NEW d \in Devices, NEW n \in Sockets, Join(d, n) \/ Arrive(d, n) \/ HandleDisconnect(d, n) \/ Pong(d, n)
        PROVE  \E e \in Clocked : Shown(t, e)'
    <3>1. CASE Pong(d, n)
      BY <2>1, <3>1 DEF Pong, Joined
    <3> QED BY <1>1, <2>5, <3>1, JoinShows, ArriveShows, DisconnectShows
  <2>6. ASSUME NEW s \in Talkers,
               Renew(s) \/ (\E state \in {"here", "typing"} : Type(s, state)) \/ \E o \in Observers : Expire(o, s)
        PROVE  \E e \in Clocked : Shown(t, e)'
    BY <1>1, <2>6, RenewShows, TypeShows, ExpireShows
  <2> QED BY <2>2, <2>3, <2>4, <2>5, <2>6 DEF Next
<1> QED BY <1>1 DEF AllShown

LEMMA InitReach ==
  ASSUME Init
  PROVE  ReachInv
<1>1. \A t \in Talkers : ~spoke[t]
  BY DEF Init
<1> QED BY <1>1, InitTypes DEF ReachInv, Admitted, AllShown, Live

LEMMA NextReach ==
  ASSUME ReachInv, [Next]_vars
  PROVE  ReachInv'
BY NextTypes, NextAdmitted, NextShown DEF ReachInv

\* With nothing under way, everybody has the latest word.
LEMMA ReachSaysSo ==
  ASSUME ReachInv
  PROVE  TypingReaches
<1>1. ASSUME NEW t \in Talkers, NEW d \in Devices \ {t},
             spoke[t], up[t], Joined(t, newest[t]), toServer[t][newest[t]] = <<>>,
             up[d], Joined(d, newest[d]), toClient[d] = <<>>
      PROVE  t \in TypingPeers(d) <=> know[t][t].state = "typing"
  <2>1. PICK e \in Clocked : Shown(t, e)
    BY <1>1 DEF ReachInv, AllShown, Live
  <2>2. know[Server][t] = e
    BY <1>1, <2>1, InEmpty DEF Shown
  <2>3. know[d][t] = e
    BY <1>1, <2>1, <2>2, InEmpty DEF Shown, Reached
  <2>4. e.state = know[t][t].state
    BY <2>1 DEF Shown
  <2> QED BY <1>1, <2>3, <2>4 DEF TypingPeers
<1> QED BY <1>1 DEF TypingReaches

\* Who types while its socket is in the room is shown typing, and no longer
\* typing, to everybody whose frames have arrived.
THEOREM TypingIsShown == Spec => []TypingReaches
BY InitReach, NextReach, ReachSaysSo, PTL DEF Spec
=============================================================================

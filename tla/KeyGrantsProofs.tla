-------------------------- MODULE KeyGrantsProofs ---------------------------
(***************************************************************************)
(* What holds of KeyGrants for any devices, accounts and bounds: its type  *)
(* correctness, that an epoch has one key, and, when no two flows of a     *)
(* device publish at once, that nobody is stranded; with one device to an  *)
(* account, that the key of an epoch is not lost.                          *)
(***************************************************************************)
EXTENDS KeyGrants, TLAPS

(* An admin's flow works on an epoch there is room for: the epoch after it *)
(* exists.  With the types, this is inductive.                             *)
RoomForNext == \A d \in Device : flow[d]["enable"].at # "idle" => flow[d]["enable"].epoch < MaxEpoch
TypeInv == TypeOK /\ RoomForNext

-----------------------------------------------------------------------------
(* The values the flows are made of. *)

LEMMA IdleType ==
  /\ NoGrant \in Grant /\ NoRow \in [Epoch -> Grant] /\ NoGrants \in Grants
  /\ Idle \in Flow /\ Idle.at = "idle"
<1>1. NoGrant \in Grant BY KeyGrantsAssumption DEF NoGrant, Grant, Key, Pair
<1>2. NoRow \in [Epoch -> Grant] BY <1>1 DEF NoRow
<1>3. NoGrants \in Grants BY <1>2 DEF NoGrants, Grants
<1>4. [u \in User |-> 0] \in [User -> Pair] BY KeyGrantsAssumption DEF Pair
<1>5. Idle \in Flow BY <1>3, <1>4, KeyGrantsAssumption DEF Idle, Flow, Place, Pair, Key
<1>6. Idle.at = "idle" BY DEF Idle
<1> QED BY <1>1, <1>2, <1>3, <1>5, <1>6

LEMMA OnwardType ==
  ASSUME NEW c \in Caller, NEW p \in Pair, NEW e \in 0 .. MaxEpoch
  PROVE  Onward(c, p, e) \in Flow
<1>1. Idle \in Flow BY IdleType
<1>2. [Idle EXCEPT !.at = "asked", !.pair = p] \in Flow BY <1>1 DEF Flow, Place
<1>3. [Idle EXCEPT !.at = "members", !.epoch = e] \in Flow BY <1>1 DEF Flow, Place
<1> QED BY <1>1, <1>2, <1>3 DEF Onward, Caller

LEMMA StepType ==
  ASSUME TypeOK, NEW d \in Device, NEW c \in Caller, NEW f \in Flow, Step(d, c, f)
  PROVE  flow' \in [Device -> [Caller -> Flow]]
BY DEF TypeOK, Step

LEMMA StopAllType ==
  ASSUME TypeOK, NEW d \in Device, StopAll(d)
  PROVE  flow' \in [Device -> [Caller -> Flow]]
BY IdleType DEF TypeOK, StopAll

LEMMA KeysType ==
  ASSUME TypeOK
  PROVE  MemberKeys \in [User -> Pair]
BY KeyGrantsAssumption DEF TypeOK, MemberKeys, Pair

LEMMA WrapType ==
  ASSUME TypeOK, NEW d \in Device, NEW to \in [User -> Pair], NEW reached, NEW rows
  PROVE  Wrap(d, to, reached, rows) \in Grants
<1> SUFFICES ASSUME NEW u \in User, NEW k \in Epoch
             PROVE  (IF Pending(to, reached, rows, u, k) /\ roomKey[d][k] # 0
                     THEN Seal(roomKey[d][k], to[u]) ELSE NoGrant) \in Grant
  BY DEF Wrap, Grants
<1>1. roomKey[d][k] \in Key BY DEF TypeOK
<1>2. Seal(roomKey[d][k], to[u]) \in Grant BY <1>1 DEF Seal, Grant
<1> QED BY <1>2, IdleType

LEMMA WrapAllType ==
  ASSUME NEW key \in Key, NEW epoch, NEW to \in [User -> Pair]
  PROVE  WrapAll(key, epoch, to) \in Grants
<1> SUFFICES ASSUME NEW u \in User, NEW k \in Epoch
             PROVE  (IF k = epoch /\ to[u] # 0 THEN Seal(key, to[u]) ELSE NoGrant) \in Grant
  BY DEF WrapAll, Grants
<1>1. Seal(key, to[u]) \in Grant BY DEF Seal, Grant
<1> QED BY <1>1, IdleType

LEMMA UpsertedType ==
  ASSUME TypeOK, NEW uploaded \in Grants
  PROVE  Upserted(uploaded) \in Grants
BY DEF TypeOK, Upserted, Grants

LEMMA UnwrappedType ==
  ASSUME TypeOK, NEW d \in Device, NEW p, NEW rows \in Grants
  PROVE  Unwrapped(d, p, rows) \in [Epoch -> Key]
<1> SUFFICES ASSUME NEW k \in Epoch
             PROVE  (IF roomKey[d][k] = 0 /\ rows[account[d]][k].to = p
                     THEN rows[account[d]][k].key ELSE roomKey[d][k]) \in Key
  BY DEF Unwrapped
<1>1. account[d] \in User BY DEF TypeOK
<1>2. rows[account[d]][k] \in Grant BY <1>1 DEF Grants
<1>3. rows[account[d]][k].key \in Key BY <1>2 DEF Grant
<1>4. roomKey[d][k] \in Key BY DEF TypeOK
<1> QED BY <1>3, <1>4

-----------------------------------------------------------------------------
LEMMA TypeInit == Init => TypeInv
<1> SUFFICES ASSUME Init PROVE TypeInv OBVIOUS
<1>1. flow \in [Device -> [Caller -> Flow]] BY IdleType DEF Init
<1>2. grants \in Grants BY IdleType DEF Init
<1>3. roomKey \in [Device -> [Epoch -> Key]] BY KeyGrantsAssumption DEF Init, Key
<1>4. account \in [Device -> User] /\ members \subseteq User BY KeyGrantsAssumption DEF Init
<1>5. /\ publicKey \in [User -> Pair] /\ identity \in [Device -> Pair]
      /\ roomsList \in [Device -> 0 .. MaxEpoch] /\ claimed \in [Epoch -> Key]
      /\ cipher \in [Device -> SUBSET Epoch] /\ currentKeyId \in 0 .. MaxEpoch
  BY KeyGrantsAssumption DEF Init, Pair, Key
<1>6. /\ pairs \in Pair /\ keys \in Key /\ failures \in 0 .. MaxFailures
      /\ losses \in 0 .. MaxLosses /\ signIns \in 0 .. MaxSignIns
  BY KeyGrantsAssumption DEF Init, Pair, Key
<1>7. RoomForNext
  <2> SUFFICES ASSUME NEW d \in Device PROVE flow[d]["enable"].at = "idle" BY DEF RoomForNext
  <2>1. flow[d]["enable"] = Idle BY DEF Init, Caller
  <2> QED BY <2>1, IdleType
<1> QED BY <1>1, <1>2, <1>3, <1>4, <1>5, <1>6, <1>7 DEF TypeInv, TypeOK

LEMMA TypeStep == TypeInv /\ [Next]_vars => TypeInv'
<1> SUFFICES ASSUME TypeInv, [Next]_vars PROVE TypeInv' OBVIOUS
<1> USE DEF TypeInv
<1> DEFINE Flows == [Device -> [Caller -> Flow]]
<1>k. "layout" \in Caller /\ "room" \in Caller /\ "enable" \in Caller BY DEF Caller
<1>i. Idle \in Flow /\ Idle.at = "idle" BY IdleType
<1>f. ASSUME NEW d \in Device, NEW c \in Caller PROVE flow[d][c] \in Flow BY DEF TypeOK
\* RoomForNext after a step of one flow
<1>s. ASSUME NEW d \in Device, NEW c \in Caller, NEW f \in Flow, Step(d, c, f),
             c = "enable" /\ f.at # "idle" => f.epoch < MaxEpoch
      PROVE  RoomForNext'
  <2> SUFFICES ASSUME NEW e \in Device, flow'[e]["enable"].at # "idle"
               PROVE  flow'[e]["enable"].epoch < MaxEpoch
    BY DEF RoomForNext
  <2>1. CASE e = d /\ c = "enable" BY <1>s, <2>1, <1>k DEF Step, TypeOK
  <2>2. CASE ~(e = d /\ c = "enable")
    <3>1. flow'[e]["enable"] = flow[e]["enable"] BY <1>s, <2>2, <1>k DEF Step, TypeOK
    <3> QED BY <3>1 DEF RoomForNext
  <2> QED BY <2>1, <2>2
<1>t. ASSUME NEW d \in Device, StopAll(d) PROVE RoomForNext'
  <2> SUFFICES ASSUME NEW e \in Device, flow'[e]["enable"].at # "idle"
               PROVE  flow'[e]["enable"].epoch < MaxEpoch
    BY DEF RoomForNext
  <2>1. flow'[e]["enable"] \in {flow[e]["enable"], Idle} BY <1>t, <1>k DEF StopAll, TypeOK
  <2> QED BY <2>1, <1>i DEF RoomForNext
<1>p. ASSUME NEW d \in Device, NEW c \in Caller, NEW e \in 0 .. MaxEpoch, EnsureIdentity(d, c, e),
             c = "enable" => e < MaxEpoch
      PROVE  flow' \in Flows /\ RoomForNext' /\ pairs' \in Pair
             /\ UNCHANGED <<keys, failures, losses, signIns>>
  <2>1. UNCHANGED <<keys, failures, losses, signIns>> BY <1>p DEF EnsureIdentity
  <2>2. CASE Step(d, c, Onward(c, identity[d], e)) /\ UNCHANGED pairs
    <3> DEFINE g == Onward(c, identity[d], e)
    <3>1. identity[d] \in Pair BY DEF TypeOK
    <3>2. g \in Flow BY <3>1, OnwardType
    <3>3. c = "enable" => g.epoch = e BY <1>i DEF Onward, Flow
    <3> HIDE DEF g
    <3>4. Step(d, c, g) BY <2>2 DEF g
    <3>5. flow' \in Flows BY <3>2, <3>4, StepType
    <3>6. RoomForNext' BY <3>2, <3>3, <3>4, <1>s, <1>p
    <3> QED BY <2>1, <2>2, <3>5, <3>6 DEF TypeOK
  <2>3. CASE /\ pairs < MaxPairs /\ pairs' = pairs + 1
             /\ Step(d, c, [Idle EXCEPT !.at = "put", !.pair = pairs', !.epoch = e])
    <3> DEFINE g == [Idle EXCEPT !.at = "put", !.pair = pairs', !.epoch = e]
    <3>1. pairs' \in Pair BY <2>3, KeyGrantsAssumption DEF TypeOK, Pair
    <3>2. g \in Flow /\ g.epoch = e BY <3>1, <1>i DEF Flow, Place
    <3> HIDE DEF g
    <3>4. Step(d, c, g) BY <2>3 DEF g
    <3>5. flow' \in Flows BY <3>2, <3>4, StepType
    <3>6. RoomForNext' BY <3>2, <3>4, <1>s, <1>p
    <3> QED BY <2>1, <3>1, <3>5, <3>6
  <2> QED BY <1>p, <2>2, <2>3 DEF EnsureIdentity
<1> USE DEF serverVars, deviceVars, counters
<1>1. ASSUME NEW u \in User, JoinRoom(u) PROVE TypeInv'
  BY <1>1 DEF JoinRoom, TypeOK, RoomForNext
<1>2. ASSUME NEW d \in Device, LearnEpoch(d) PROVE TypeInv'
  BY <1>2 DEF LearnEpoch, TypeOK, RoomForNext
<1>3. ASSUME NEW d \in Device, StartLayout(d) PROVE TypeInv'
  <2>1. EnsureIdentity(d, "layout", 0) /\ 0 \in 0 .. MaxEpoch
    BY <1>3, KeyGrantsAssumption DEF StartLayout
  <2>2. /\ flow' \in Flows /\ RoomForNext' /\ pairs' \in Pair
        /\ UNCHANGED <<keys, failures, losses, signIns>>
    BY <2>1, <1>k, <1>p
  <2> QED BY <1>3, <2>2 DEF StartLayout, TypeOK
<1>4. ASSUME NEW d \in Device, StartRoom(d) PROVE TypeInv'
  <2>1. EnsureIdentity(d, "room", 0) /\ 0 \in 0 .. MaxEpoch
    BY <1>4, KeyGrantsAssumption DEF StartRoom
  <2>2. /\ flow' \in Flows /\ RoomForNext' /\ pairs' \in Pair
        /\ UNCHANGED <<keys, failures, losses, signIns>>
    BY <2>1, <1>k, <1>p
  <2>3. cipher' \in [Device -> SUBSET Epoch] BY <1>4 DEF StartRoom, TypeOK
  <2> QED BY <1>4, <2>2, <2>3 DEF StartRoom, TypeOK
<1>5. ASSUME NEW d \in Device, StartEnable(d) PROVE TypeInv'
  <2>1. EnsureIdentity(d, "enable", roomsList[d]) /\ roomsList[d] \in 0 .. MaxEpoch
        /\ roomsList[d] < MaxEpoch
    BY <1>5 DEF StartEnable, TypeOK
  <2>2. /\ flow' \in Flows /\ RoomForNext' /\ pairs' \in Pair
        /\ UNCHANGED <<keys, failures, losses, signIns>>
    BY <2>1, <1>k, <1>p
  <2> QED BY <1>5, <2>2 DEF StartEnable, TypeOK
<1>6. ASSUME NEW d \in Device, NEW c \in Caller, PutLands(d, c) PROVE TypeInv'
  <2> DEFINE g == [flow[d][c] EXCEPT !.at = "published"]
  <2>1. g \in Flow /\ g.epoch = flow[d][c].epoch BY <1>f DEF Flow, Place
  <2>2. c = "enable" => g.epoch < MaxEpoch BY <1>6, <2>1 DEF PutLands, RoomForNext
  <2> HIDE DEF g
  <2>3. Step(d, c, g) BY <1>6 DEF PutLands, g
  <2>4. flow' \in Flows /\ RoomForNext' BY <2>1, <2>2, <2>3, <1>s, StepType
  <2>5. flow[d][c].pair \in Pair BY <1>f DEF Flow
  <2>6. grants' \in Grants BY <1>6, IdleType DEF PutLands, Grants, TypeOK
  <2> QED BY <1>6, <2>4, <2>5, <2>6 DEF PutLands, TypeOK
<1>7. ASSUME NEW d \in Device, NEW c \in Caller, SetIdentity(d, c) PROVE TypeInv'
  <2> DEFINE g == Onward(c, flow[d][c].pair, flow[d][c].epoch)
  <2>1. flow[d][c].pair \in Pair /\ flow[d][c].epoch \in 0 .. MaxEpoch BY <1>f DEF Flow
  <2>2. g \in Flow BY <2>1, OnwardType
  <2>3. c = "enable" => g.epoch = flow[d][c].epoch BY <1>i DEF Onward, Flow
  <2>4. c = "enable" => g.epoch < MaxEpoch BY <1>7, <2>3 DEF SetIdentity, RoomForNext
  <2> HIDE DEF g
  <2>5. Step(d, c, g) BY <1>7 DEF SetIdentity, g
  <2>6. flow' \in Flows /\ RoomForNext' BY <2>2, <2>4, <2>5, <1>s, StepType
  <2> QED BY <1>7, <2>1, <2>6 DEF SetIdentity, TypeOK
<1>8. ASSUME NEW d \in Device, GetMyGrants(d) PROVE TypeInv'
  <2> DEFINE g == [flow[d]["room"] EXCEPT !.at = "granted", !.grants = grants]
  <2>0. flow[d]["room"] \in Flow /\ grants \in Grants BY <1>f, <1>k DEF TypeOK
  <2>1. g \in Flow BY <2>0 DEF Flow, Place
  <2> HIDE DEF g
  <2>2. Step(d, "room", g) BY <1>8 DEF GetMyGrants, g
  <2>3. flow' \in Flows /\ RoomForNext' BY <2>1, <2>2, <1>k, <1>s, StepType
  <2> QED BY <1>8, <2>3 DEF GetMyGrants, TypeOK
<1>9. ASSUME NEW d \in Device, LoadMyGrants(d) PROVE TypeInv'
  <2> DEFINE g == [Idle EXCEPT !.at = "serve"]
             rows == flow[d]["room"].grants
             un == Unwrapped(d, flow[d]["room"].pair, rows)
             got == Loaded(d, rows, un)
  <2>1. g \in Flow BY <1>i DEF Flow, Place
  <2>2. rows \in Grants BY <1>f, <1>k DEF Flow
  <2> HIDE DEF g, rows
  <2>3. un \in [Epoch -> Key] BY <2>2, UnwrappedType
  <2>4. got \subseteq Epoch BY DEF Loaded
  <2> HIDE DEF un, got
  <2>5. Step(d, "room", g) BY <1>9 DEF LoadMyGrants, g
  <2>6. flow' \in Flows /\ RoomForNext' BY <2>1, <2>5, <1>k, <1>s, StepType
  <2>7. roomKey' = [roomKey EXCEPT ![d] = un] /\ cipher' = [cipher EXCEPT ![d] = @ \union got]
    BY <1>9 DEF LoadMyGrants, un, got, rows
  <2>8. roomKey' \in [Device -> [Epoch -> Key]] BY <2>3, <2>7 DEF TypeOK
  <2>9. cipher' \in [Device -> SUBSET Epoch] BY <2>4, <2>7 DEF TypeOK
  <2> QED BY <1>9, <2>6, <2>8, <2>9 DEF LoadMyGrants, TypeOK
<1>10. ASSUME NEW d \in Device, GetPending(d) PROVE TypeInv'
  <2> DEFINE g == [Idle EXCEPT !.at = "pending", !.epoch = currentKeyId, !.to = MemberKeys]
  <2>1. g \in Flow BY <1>i, KeysType DEF Flow, Place, TypeOK
  <2> HIDE DEF g
  <2>2. Step(d, "room", g) BY <1>10 DEF GetPending, g
  <2>3. flow' \in Flows /\ RoomForNext' BY <2>1, <2>2, <1>k, <1>s, StepType
  <2> QED BY <1>10, <2>3 DEF GetPending, TypeOK
<1>11. ASSUME NEW d \in Device, WrapPending(d) PROVE TypeInv'
  <2> DEFINE w == Wrap(d, flow[d]["room"].to, flow[d]["room"].epoch, grants)
             g == IF w = NoGrants THEN Idle ELSE [Idle EXCEPT !.at = "wrapped", !.grants = w]
  <2>1. flow[d]["room"].to \in [User -> Pair] BY <1>f, <1>k DEF Flow
  <2>2. w \in Grants BY <2>1, WrapType
  <2>3. Step(d, "room", g) BY <1>11 DEF WrapPending
  <2> HIDE DEF w
  <2>4. g \in Flow BY <2>2, <1>i DEF Flow, Place
  <2> HIDE DEF g
  <2>5. flow' \in Flows /\ RoomForNext' BY <2>3, <2>4, <1>k, <1>s, StepType
  <2> QED BY <1>11, <2>5 DEF WrapPending, TypeOK
<1>12. ASSUME NEW d \in Device, UploadGrants(d) PROVE TypeInv'
  <2>1. flow[d]["room"].grants \in Grants BY <1>f, <1>k DEF Flow
  <2>2. grants' \in Grants BY <1>12, <2>1, UpsertedType DEF UploadGrants
  <2>3. Step(d, "room", Idle) BY <1>12 DEF UploadGrants, Stop
  <2>4. flow' \in Flows /\ RoomForNext' BY <2>3, <1>i, <1>k, <1>s, StepType
  <2> QED BY <1>12, <2>2, <2>4 DEF UploadGrants, TypeOK
<1>13. ASSUME NEW d \in Device, MintKey(d) PROVE TypeInv'
  <2> DEFINE e == flow[d]["enable"].epoch
             w == WrapAll(keys', e + 1, MemberKeys)
             g == [Idle EXCEPT !.at = "claim", !.key = keys', !.epoch = e, !.grants = w]
  <2>1. e \in 0 .. MaxEpoch BY <1>f, <1>k DEF Flow
  <2>2. e < MaxEpoch BY <1>13 DEF MintKey, RoomForNext
  <2>3. keys' \in Key BY <1>13, KeyGrantsAssumption DEF MintKey, TypeOK, Key
  <2>4. w \in Grants BY <2>3, KeysType, WrapAllType
  <2>5. Step(d, "enable", g) BY <1>13 DEF MintKey
  <2> HIDE DEF w
  <2>6. g \in Flow /\ g.epoch = e BY <2>1, <2>3, <2>4, <1>i DEF Flow, Place
  <2> HIDE DEF g
  <2>7. flow' \in Flows /\ RoomForNext' BY <2>2, <2>5, <2>6, <1>k, <1>s, StepType
  <2> QED BY <1>13, <2>3, <2>7 DEF MintKey, TypeOK
<1>14. ASSUME NEW d \in Device, ClaimEpoch(d) PROVE TypeInv'
  <2> DEFINE f == flow[d]["enable"]
             g == [f EXCEPT !.at = "committed"]
  <2>1. f \in Flow BY <1>f, <1>k
  <2>2. f.epoch < MaxEpoch BY <1>14 DEF ClaimEpoch, RoomForNext
  <2>3. g \in Flow /\ g.epoch = f.epoch BY <2>1 DEF Flow, Place
  <2>4. Step(d, "enable", g) BY <1>14 DEF ClaimEpoch
  <2>5. flow' \in Flows /\ RoomForNext' BY <2>2, <2>3, <2>4, <1>k, <1>s, StepType
  <2>6. grants' \in Grants BY <1>14, <2>1, UpsertedType DEF ClaimEpoch, Flow
  <2>7. currentKeyId = f.epoch /\ f.epoch \in 0 .. MaxEpoch /\ f.key \in Key
    BY <1>14, <2>1 DEF ClaimEpoch, Wins, Flow
  <2>8. currentKeyId' \in 0 .. MaxEpoch
    <3>1. currentKeyId' = currentKeyId + 1 BY <1>14 DEF ClaimEpoch
    <3>2. currentKeyId \in 0 .. MaxEpoch /\ currentKeyId < MaxEpoch BY <2>2, <2>7
    <3> QED BY <3>1, <3>2, KeyGrantsAssumption
  <2>9. claimed' \in [Epoch -> Key] BY <1>14, <2>7 DEF ClaimEpoch, TypeOK
  <2> QED BY <1>14, <2>5, <2>6, <2>8, <2>9 DEF ClaimEpoch, TypeOK
<1>15. ASSUME NEW d \in Device, LoseClaim(d) PROVE TypeInv'
  <2>1. Step(d, "enable", Idle) BY <1>15 DEF LoseClaim, Stop
  <2>2. flow' \in Flows /\ RoomForNext' BY <2>1, <1>i, <1>k, <1>s, StepType
  <2> QED BY <1>15, <2>2 DEF LoseClaim, TypeOK
<1>16. ASSUME NEW d \in Device, CacheRoomKey(d) PROVE TypeInv'
  <2> DEFINE g == [Idle EXCEPT !.at = "listing"]
  <2>1. Step(d, "enable", g) BY <1>16 DEF CacheRoomKey
  <2>a. flow[d]["enable"].epoch < MaxEpoch /\ flow[d]["enable"].epoch \in 0 .. MaxEpoch
    BY <1>16, <1>f, <1>k DEF CacheRoomKey, RoomForNext, Flow
  <2>b. g \in Flow /\ g.epoch < MaxEpoch
    BY <2>a, <1>i, IdleType, KeyGrantsAssumption DEF Flow, Place, Idle
  <2> HIDE DEF g
  <2>2. flow' \in Flows /\ RoomForNext' BY <2>1, <2>b, <1>k, <1>s, StepType
  <2>3. flow[d]["enable"].key \in Key BY <1>f, <1>k DEF Flow
  <2>4. roomKey' \in [Device -> [Epoch -> Key]] BY <1>16, <2>3 DEF CacheRoomKey, TypeOK
  <2> QED BY <1>16, <2>2, <2>4 DEF CacheRoomKey, TypeOK
<1>17. ASSUME NEW d \in Device, NEW c \in Caller, RequestLost(d, c) PROVE TypeInv'
  <2>1. Step(d, c, Idle) BY <1>17 DEF RequestLost, Stop
  <2>2. flow' \in Flows /\ RoomForNext' BY <2>1, <1>i, <1>k, <1>s, StepType
  <2>3. failures' \in 0 .. MaxFailures BY <1>17, KeyGrantsAssumption DEF RequestLost, TypeOK
  <2> QED BY <1>17, <2>2, <2>3 DEF RequestLost, TypeOK
<1>18. ASSUME NEW d \in Device, AppCrash(d) PROVE TypeInv'
  <2>1. StopAll(d) BY <1>18 DEF AppCrash
  <2>2. flow' \in Flows /\ RoomForNext' BY <2>1, <1>t, StopAllType
  <2>3. failures' \in 0 .. MaxFailures BY <1>18, KeyGrantsAssumption DEF AppCrash, TypeOK
  <2>4. cipher' \in [Device -> SUBSET Epoch] BY <1>18 DEF AppCrash, TypeOK
  <2> QED BY <1>18, <2>2, <2>3, <2>4 DEF AppCrash, TypeOK
<1>19. ASSUME NEW d \in Device, Reinstall(d) PROVE TypeInv'
  <2>1. StopAll(d) BY <1>19 DEF Reinstall
  <2>2. flow' \in Flows /\ RoomForNext' BY <2>1, <1>t, StopAllType
  <2>3. losses' \in 0 .. MaxLosses BY <1>19, KeyGrantsAssumption DEF Reinstall, TypeOK
  <2>4. [k \in Epoch |-> 0] \in [Epoch -> Key] /\ 0 \in Pair /\ 0 \in 0 .. MaxEpoch
    BY KeyGrantsAssumption DEF Key, Pair
  <2>5. /\ cipher' \in [Device -> SUBSET Epoch] /\ identity' \in [Device -> Pair]
        /\ roomKey' \in [Device -> [Epoch -> Key]] /\ roomsList' \in [Device -> 0 .. MaxEpoch]
    BY <1>19, <2>4 DEF Reinstall, TypeOK
  <2> QED BY <1>19, <2>2, <2>3, <2>5 DEF Reinstall, TypeOK
<1>20. ASSUME NEW d \in Device, NEW u \in User, SignIn(d, u) PROVE TypeInv'
  <2>1. StopAll(d) BY <1>20 DEF SignIn
  <2>2. flow' \in Flows /\ RoomForNext' BY <2>1, <1>t, StopAllType
  <2>3. signIns' \in 0 .. MaxSignIns BY <1>20, KeyGrantsAssumption DEF SignIn, TypeOK
  <2>4. /\ cipher' \in [Device -> SUBSET Epoch] /\ roomsList' \in [Device -> 0 .. MaxEpoch]
        /\ account' \in [Device -> User]
    BY <1>20, KeyGrantsAssumption DEF SignIn, TypeOK
  <2> QED BY <1>20, <2>2, <2>3, <2>4 DEF SignIn, TypeOK
<1>21. ASSUME NEW d \in Device, NoRecipients(d) PROVE TypeInv'
  <2>1. Step(d, "enable", Idle) BY <1>21 DEF NoRecipients, Stop
  <2>2. flow' \in Flows /\ RoomForNext' BY <2>1, <1>i, <1>k, <1>s, StepType
  <2> QED BY <1>21, <2>2 DEF NoRecipients, TypeOK
<1>22. ASSUME NEW d \in Device, FetchRooms(d) PROVE TypeInv'
  <2>1. Step(d, "enable", Idle) BY <1>22 DEF FetchRooms, Stop
  <2>2. flow' \in Flows /\ RoomForNext' BY <2>1, <1>i, <1>k, <1>s, StepType
  <2>3. roomsList' \in [Device -> 0 .. MaxEpoch] BY <1>22 DEF FetchRooms, TypeOK
  <2> QED BY <1>22, <2>2, <2>3 DEF FetchRooms, TypeOK
<1>23. CASE UNCHANGED vars BY <1>23 DEF vars, TypeOK, RoomForNext
<1> QED
  BY <1>1, <1>2, <1>3, <1>4, <1>5, <1>6, <1>7, <1>8, <1>9, <1>10, <1>11, <1>12, <1>13, <1>14,
     <1>15, <1>16, <1>17, <1>18, <1>19, <1>20, <1>21, <1>22, <1>23 DEF Next

(* The variables keep their types. *)
THEOREM TypeCorrect == Spec => []TypeOK
<1>1. TypeInv => TypeOK BY DEF TypeInv
<1> QED BY <1>1, TypeInit, TypeStep, PTL DEF Spec

-----------------------------------------------------------------------------
(* One key per epoch.  Besides the stores and the server's rows, the       *)
(* grants that are on their way carry the claimed key; an epoch that has   *)
(* not been reached has none, so the claim that reaches it meets no copy;  *)
(* and the claim under way carries its own key, for that epoch alone.      *)
Sound(rows) == \A u \in User, k \in Epoch : rows[u][k].key \in {0, claimed[k]}
StoresSound == \A d \in Device, k \in Epoch : roomKey[d][k] \in {0, claimed[k]}
Unclaimed   == \A k \in Epoch : k > currentKeyId => claimed[k] = 0
FlowsSound  == \A d \in Device : Sound(flow[d]["room"].grants)
ClaimSound(f) ==
  /\ f.at = "claim" => \A u \in User, k \in Epoch :
                          f.grants[u][k].key \in {0, IF k = f.epoch + 1 THEN f.key ELSE 0}
  /\ f.at = "committed" => f.key = claimed[f.epoch + 1] /\ f.epoch < currentKeyId
ClaimsSound == \A d \in Device : ClaimSound(flow[d]["enable"])
KeyInv == TypeInv /\ Sound(grants) /\ StoresSound /\ Unclaimed /\ FlowsSound /\ ClaimsSound

LEMMA NoGrantsSound == Sound(NoGrants) /\ Idle.grants = NoGrants
<1>1. NoGrant.key = 0 BY DEF NoGrant
<1> QED BY <1>1 DEF Sound, NoGrants, NoRow, Idle

LEMMA KeyInit == Init => KeyInv
<1> SUFFICES ASSUME Init PROVE KeyInv OBVIOUS
<1>1. TypeInv BY TypeInit
<1>2. \A d \in Device : flow[d]["room"] = Idle /\ flow[d]["enable"] = Idle BY DEF Init, Caller
<1>3. Sound(grants) BY NoGrantsSound DEF Init
<1>4. StoresSound /\ Unclaimed BY DEF Init, StoresSound, Unclaimed
<1>5. FlowsSound BY <1>2, NoGrantsSound DEF FlowsSound
<1>6. ClaimsSound BY <1>2, IdleType DEF ClaimsSound, ClaimSound
<1> QED BY <1>1, <1>3, <1>4, <1>5, <1>6 DEF KeyInv

(* A step of one flow that leaves the server's epoch and keys alone. *)
LEMMA FlowStep ==
  ASSUME KeyInv, NEW d \in Device, NEW c \in Caller, NEW g, Step(d, c, g),
         UNCHANGED <<claimed, currentKeyId>>,
         c = "room" => Sound(g.grants), c = "enable" => ClaimSound(g)
  PROVE  FlowsSound' /\ ClaimsSound'
<1>k. "room" \in Caller /\ "enable" \in Caller BY DEF Caller
<1>1. ASSUME NEW e \in Device, NEW b \in Caller
      PROVE  flow'[e][b] = IF e = d /\ b = c THEN g ELSE flow[e][b]
  BY DEF KeyInv, TypeInv, TypeOK, Step
<1>2. ASSUME NEW e \in Device PROVE Sound(flow[e]["room"].grants) /\ ClaimSound(flow[e]["enable"])
  BY DEF KeyInv, FlowsSound, ClaimsSound
<1>3. ASSUME NEW e \in Device PROVE Sound(flow'[e]["room"].grants)
  <2>1. CASE e = d /\ c = "room" BY <1>1, <1>k, <2>1
  <2>2. CASE ~(e = d /\ c = "room")
    <3>1. flow'[e]["room"] = flow[e]["room"] BY <1>1, <1>k, <2>2
    <3> QED BY <1>2, <3>1
  <2> QED BY <2>1, <2>2
<1>4. ASSUME NEW e \in Device PROVE ClaimSound(flow'[e]["enable"])
  <2>1. CASE e = d /\ c = "enable" BY <1>1, <1>k, <2>1
  <2>2. CASE ~(e = d /\ c = "enable")
    <3>1. flow'[e]["enable"] = flow[e]["enable"] BY <1>1, <1>k, <2>2
    <3> QED BY <1>2, <3>1
  <2> QED BY <2>1, <2>2
<1>5. FlowsSound' BY <1>3 DEF FlowsSound, Sound
<1>6. ClaimsSound' BY <1>4 DEF ClaimsSound, ClaimSound
<1> QED BY <1>5, <1>6

(* The flows of a device end. *)
LEMMA FlowsEnd ==
  ASSUME KeyInv, NEW d \in Device, StopAll(d), UNCHANGED <<claimed, currentKeyId>>
  PROVE  FlowsSound' /\ ClaimsSound'
<1>k. "room" \in Caller /\ "enable" \in Caller BY DEF Caller
<1>1. ASSUME NEW e \in Device, NEW b \in Caller PROVE flow'[e][b] \in {flow[e][b], Idle}
  BY DEF KeyInv, TypeInv, TypeOK, StopAll
<1>2. Sound(Idle.grants) /\ ClaimSound(Idle) BY NoGrantsSound, IdleType DEF ClaimSound
<1>3. ASSUME NEW e \in Device PROVE Sound(flow'[e]["room"].grants)
  BY <1>1, <1>2, <1>k DEF KeyInv, FlowsSound
<1>4. ASSUME NEW e \in Device PROVE ClaimSound(flow'[e]["enable"])
  BY <1>1, <1>2, <1>k DEF KeyInv, ClaimsSound
<1>5. FlowsSound' BY <1>3 DEF FlowsSound, Sound
<1>6. ClaimsSound' BY <1>4 DEF ClaimsSound, ClaimSound
<1> QED BY <1>5, <1>6

(* What is made of sound grants and sound stores is sound. *)
LEMMA UpsertedSound ==
  ASSUME Sound(grants), NEW rows, Sound(rows)
  PROVE  Sound(Upserted(rows))
BY DEF Sound, Upserted

LEMMA WrapSound ==
  ASSUME StoresSound, NEW d \in Device, NEW to, NEW reached, NEW rows
  PROVE  Sound(Wrap(d, to, reached, rows))
<1> SUFFICES ASSUME NEW u \in User, NEW k \in Epoch
             PROVE  Wrap(d, to, reached, rows)[u][k].key \in {0, claimed[k]}
  BY DEF Sound
<1>1. Wrap(d, to, reached, rows)[u][k] \in {Seal(roomKey[d][k], to[u]), NoGrant}
  BY DEF Wrap
<1>2. Seal(roomKey[d][k], to[u]).key = roomKey[d][k] /\ NoGrant.key = 0 BY DEF Seal, NoGrant
<1> QED BY <1>1, <1>2 DEF StoresSound

LEMMA UnwrappedSound ==
  ASSUME TypeOK, StoresSound, NEW d \in Device, NEW p, NEW rows, Sound(rows)
  PROVE  \A k \in Epoch : Unwrapped(d, p, rows)[k] \in {0, claimed[k]}
<1>1. account[d] \in User BY DEF TypeOK
<1> QED BY <1>1 DEF StoresSound, Sound, Unwrapped

LEMMA KeyStep == KeyInv /\ [Next]_vars => KeyInv'
<1> SUFFICES ASSUME KeyInv, [Next]_vars PROVE KeyInv' OBVIOUS
<1>a. TypeInv' BY TypeStep DEF KeyInv
<1>b. Sound(grants) /\ StoresSound /\ Unclaimed /\ FlowsSound /\ ClaimsSound /\ TypeInv BY DEF KeyInv
<1>c. TypeOK BY <1>b DEF TypeInv
<1>k. "layout" \in Caller /\ "room" \in Caller /\ "enable" \in Caller BY DEF Caller
<1>i. Idle.grants = NoGrants /\ Sound(Idle.grants) /\ ClaimSound(Idle)
  BY NoGrantsSound, IdleType DEF ClaimSound
\* the server and the stores are as they were
<1>q. ASSUME UNCHANGED <<grants, roomKey, claimed, currentKeyId>>, FlowsSound', ClaimsSound'
      PROVE  KeyInv'
  BY <1>q, <1>a, <1>b DEF KeyInv, Sound, StoresSound, Unclaimed
<1>o. ASSUME NEW c \in Caller, NEW p, NEW e
      PROVE  Sound(Onward(c, p, e).grants) /\ ClaimSound(Onward(c, p, e))
  <2>1. Onward(c, p, e).grants = Idle.grants /\ Onward(c, p, e).at \in {"idle", "asked", "members"}
    BY IdleType DEF Onward, Caller, Flow
  <2> QED BY <2>1, <1>i DEF ClaimSound
<1>p. ASSUME NEW d \in Device, NEW c \in Caller, NEW e, EnsureIdentity(d, c, e),
             UNCHANGED <<claimed, currentKeyId>>
      PROVE  FlowsSound' /\ ClaimsSound'
  <2>1. CASE Step(d, c, Onward(c, identity[d], e)) BY <2>1, <1>o, <1>p, FlowStep
  <2>2. CASE Step(d, c, [Idle EXCEPT !.at = "put", !.pair = pairs', !.epoch = e])
    <3> DEFINE g == [Idle EXCEPT !.at = "put", !.pair = pairs', !.epoch = e]
    <3>1. g.at = "put" /\ g.grants = Idle.grants BY IdleType DEF Flow
    <3> HIDE DEF g
    <3>2. Sound(g.grants) /\ ClaimSound(g) BY <3>1, <1>i DEF ClaimSound
    <3>3. Step(d, c, g) BY <2>2 DEF g
    <3> QED BY <3>2, <3>3, <1>p, FlowStep
  <2> QED BY <1>p, <2>1, <2>2 DEF EnsureIdentity
<1> USE DEF serverVars, deviceVars, counters
<1>1. ASSUME NEW u \in User, JoinRoom(u) PROVE KeyInv'
  BY <1>1, <1>a, <1>b DEF JoinRoom, KeyInv, Sound, StoresSound, Unclaimed, FlowsSound, ClaimsSound, ClaimSound
<1>2. ASSUME NEW d \in Device, LearnEpoch(d) PROVE KeyInv'
  BY <1>2, <1>a, <1>b DEF LearnEpoch, KeyInv, Sound, StoresSound, Unclaimed, FlowsSound, ClaimsSound, ClaimSound
<1>3. ASSUME NEW d \in Device, StartLayout(d) PROVE KeyInv'
  BY <1>3, <1>k, <1>p, <1>q DEF StartLayout
<1>4. ASSUME NEW d \in Device, StartRoom(d) PROVE KeyInv'
  BY <1>4, <1>k, <1>p, <1>q DEF StartRoom
<1>5. ASSUME NEW d \in Device, StartEnable(d) PROVE KeyInv'
  BY <1>5, <1>k, <1>p, <1>q DEF StartEnable
<1>6. ASSUME NEW d \in Device, NEW c \in Caller, PutLands(d, c) PROVE KeyInv'
  <2> DEFINE g == [flow[d][c] EXCEPT !.at = "published"]
  <2>1. flow[d][c] \in Flow BY <1>c DEF TypeOK
  <2>2. g.at = "published" /\ g.grants = flow[d][c].grants BY <2>1 DEF Flow
  <2> HIDE DEF g
  <2>3. Step(d, c, g) BY <1>6 DEF PutLands, g
  <2>4. c = "room" => Sound(g.grants) BY <2>2, <1>b DEF FlowsSound
  <2>5. ClaimSound(g) BY <2>2 DEF ClaimSound
  <2>6. FlowsSound' /\ ClaimsSound' BY <1>6, <2>3, <2>4, <2>5, FlowStep DEF PutLands
  <2>7. NoGrant.key = 0 BY DEF NoGrant
  <2>8. Sound(grants)' BY <1>6, <1>b, <1>c, <2>7 DEF PutLands, Sound, NoRow, TypeOK, Grants
  <2>9. StoresSound' /\ Unclaimed' BY <1>6, <1>b DEF PutLands, StoresSound, Unclaimed
  <2> QED BY <1>a, <2>6, <2>8, <2>9 DEF KeyInv
<1>7. ASSUME NEW d \in Device, NEW c \in Caller, SetIdentity(d, c) PROVE KeyInv'
  BY <1>7, <1>o, <1>q, FlowStep DEF SetIdentity
<1>8. ASSUME NEW d \in Device, GetMyGrants(d) PROVE KeyInv'
  <2> DEFINE g == [flow[d]["room"] EXCEPT !.at = "granted", !.grants = grants]
  <2>1. flow[d]["room"] \in Flow BY <1>c, <1>k DEF TypeOK
  <2>2. g.grants = grants BY <2>1 DEF Flow
  <2> HIDE DEF g
  <2>3. Step(d, "room", g) BY <1>8 DEF GetMyGrants, g
  <2> QED BY <1>8, <1>b, <1>k, <1>q, <2>2, <2>3, FlowStep DEF GetMyGrants
<1>9. ASSUME NEW d \in Device, LoadMyGrants(d) PROVE KeyInv'
  <2> DEFINE g == [Idle EXCEPT !.at = "serve"]
             un == Unwrapped(d, flow[d]["room"].pair, flow[d]["room"].grants)
  <2>1. \A k \in Epoch : un[k] \in {0, claimed[k]}
    BY <1>b, <1>c, UnwrappedSound DEF FlowsSound
  <2>2. Sound(g.grants) BY <1>i, IdleType DEF Flow
  <2> HIDE DEF g, un
  <2>3. Step(d, "room", g) BY <1>9 DEF LoadMyGrants, g
  <2>4. FlowsSound' /\ ClaimsSound' BY <1>9, <1>k, <2>2, <2>3, FlowStep DEF LoadMyGrants
  <2>5. roomKey' = [roomKey EXCEPT ![d] = un] BY <1>9 DEF LoadMyGrants, un
  <2>6. StoresSound' BY <1>9, <1>b, <1>c, <2>1, <2>5 DEF LoadMyGrants, StoresSound, TypeOK
  <2>7. Sound(grants)' /\ Unclaimed' BY <1>9, <1>b DEF LoadMyGrants, Sound, Unclaimed
  <2> QED BY <1>a, <2>4, <2>6, <2>7 DEF KeyInv
<1>10. ASSUME NEW d \in Device, GetPending(d) PROVE KeyInv'
  <2> DEFINE g == [Idle EXCEPT !.at = "pending", !.epoch = currentKeyId, !.to = MemberKeys]
  <2>1. Sound(g.grants) BY <1>i, IdleType DEF Flow
  <2> HIDE DEF g
  <2>2. Step(d, "room", g) BY <1>10 DEF GetPending, g
  <2> QED BY <1>10, <1>k, <1>q, <2>1, <2>2, FlowStep DEF GetPending
<1>11. ASSUME NEW d \in Device, WrapPending(d) PROVE KeyInv'
  <2> DEFINE w == Wrap(d, flow[d]["room"].to, flow[d]["room"].epoch, grants)
             g == IF w = NoGrants THEN Idle ELSE [Idle EXCEPT !.at = "wrapped", !.grants = w]
  <2>1. Sound(w) BY <1>b, WrapSound
  <2>2. Step(d, "room", g) BY <1>11 DEF WrapPending
  <2> HIDE DEF w
  <2>3. Sound(g.grants) BY <1>i, <2>1, IdleType DEF Flow
  <2> HIDE DEF g
  <2> QED BY <1>11, <1>k, <1>q, <2>2, <2>3, FlowStep DEF WrapPending
<1>12. ASSUME NEW d \in Device, UploadGrants(d) PROVE KeyInv'
  <2>1. Sound(Upserted(flow[d]["room"].grants)) BY <1>b, UpsertedSound DEF FlowsSound
  <2>2. Sound(grants)' BY <1>12, <2>1 DEF UploadGrants, Sound
  <2>3. Step(d, "room", Idle) BY <1>12 DEF UploadGrants, Stop
  <2>4. FlowsSound' /\ ClaimsSound' BY <1>12, <1>i, <1>k, <2>3, FlowStep DEF UploadGrants
  <2>5. StoresSound' /\ Unclaimed' BY <1>12, <1>b DEF UploadGrants, StoresSound, Unclaimed
  <2> QED BY <1>a, <2>2, <2>4, <2>5 DEF KeyInv
<1>13. ASSUME NEW d \in Device, MintKey(d) PROVE KeyInv'
  <2> DEFINE e == flow[d]["enable"].epoch
             w == WrapAll(keys', e + 1, MemberKeys)
             g == [Idle EXCEPT !.at = "claim", !.key = keys', !.epoch = e, !.grants = w]
  <2>1. ASSUME NEW u \in User, NEW k \in Epoch
        PROVE  w[u][k].key \in {0, IF k = e + 1 THEN keys' ELSE 0}
    <3>1. w[u][k] \in {NoGrant, IF k = e + 1 THEN Seal(keys', MemberKeys[u]) ELSE NoGrant} BY DEF WrapAll
    <3>2. NoGrant.key = 0 /\ Seal(keys', MemberKeys[u]).key = keys' BY DEF NoGrant, Seal
    <3> QED BY <3>1, <3>2
  <2>2. Step(d, "enable", g) BY <1>13 DEF MintKey
  <2> HIDE DEF w, e
  <2>3. g.at = "claim" /\ g.key = keys' /\ g.epoch = e /\ g.grants = w BY IdleType DEF Flow
  <2> HIDE DEF g
  <2>4. ClaimSound(g) BY <2>1, <2>3 DEF ClaimSound
  <2> QED BY <1>13, <1>k, <1>q, <2>2, <2>4, FlowStep DEF MintKey
<1>14. ASSUME NEW d \in Device, ClaimEpoch(d) PROVE KeyInv'
  <2> DEFINE f == flow[d]["enable"]
             g == [f EXCEPT !.at = "committed"]
             n == f.epoch + 1
  <2>1. f \in Flow BY <1>c, <1>k DEF TypeOK
  <2>2. f.epoch < MaxEpoch BY <1>14, <1>b DEF ClaimEpoch, TypeInv, RoomForNext
  <2>3. /\ f.at = "claim" /\ currentKeyId = f.epoch /\ currentKeyId' = currentKeyId + 1
        /\ claimed' = [claimed EXCEPT ![n] = f.key] /\ grants' = Upserted(f.grants)
        /\ roomKey' = roomKey
    BY <1>14 DEF ClaimEpoch, Wins
  <2>4. Step(d, "enable", g) BY <1>14 DEF ClaimEpoch
  <2>5. g.at = "committed" /\ g.key = f.key /\ g.epoch = f.epoch BY <2>1 DEF Flow
  <2>6. f.epoch \in 0 .. MaxEpoch /\ currentKeyId \in Int BY <2>1, <1>c DEF Flow, TypeOK
  <2>7. ClaimSound(f) BY <1>b DEF ClaimsSound
  <2> HIDE DEF g, f
  <2>8. n \in Epoch /\ n > currentKeyId /\ n = currentKeyId' BY <2>2, <2>3, <2>6, KeyGrantsAssumption DEF Epoch
  <2>9. claimed[n] = 0 /\ claimed'[n] = f.key BY <2>3, <2>8, <1>b, <1>c DEF Unclaimed, TypeOK
  <2>10. \A k \in Epoch : k # n => claimed'[k] = claimed[k] BY <2>3, <1>c DEF TypeOK
  <2> HIDE DEF n
  <2>11. StoresSound' BY <1>b, <2>3, <2>9, <2>10 DEF StoresSound
  <2>12. Unclaimed'
    <3> SUFFICES ASSUME NEW k \in Epoch, k > currentKeyId' PROVE claimed'[k] = 0 BY DEF Unclaimed
    <3>1. k # n /\ k > currentKeyId BY <2>3, <2>6, <2>8 DEF Epoch
    <3> QED BY <3>1, <1>b, <2>10 DEF Unclaimed
  <2>13. Sound(grants)'
    <3> SUFFICES ASSUME NEW u \in User, NEW k \in Epoch
                 PROVE  Upserted(f.grants)[u][k].key \in {0, claimed'[k]}
      BY <2>3 DEF Sound
    <3>1. Upserted(f.grants)[u][k] \in {f.grants[u][k], grants[u][k]} BY DEF Upserted
    <3>2. f.grants[u][k].key \in {0, IF k = n THEN f.key ELSE 0} BY <2>3, <2>7 DEF ClaimSound, n
    <3>3. grants[u][k].key \in {0, claimed[k]} BY <1>b DEF Sound
    <3> QED BY <3>1, <3>2, <3>3, <2>9, <2>10
  <2>14. ASSUME NEW e \in Device, NEW c \in Caller
         PROVE  flow'[e][c] = IF e = d /\ c = "enable" THEN g ELSE flow[e][c]
    BY <2>4, <1>c, <1>k DEF Step, TypeOK
  <2>15. FlowsSound'
    <3> SUFFICES ASSUME NEW e \in Device, NEW u \in User, NEW k \in Epoch
                 PROVE  flow'[e]["room"].grants[u][k].key \in {0, claimed'[k]}
      BY DEF FlowsSound, Sound
    <3>1. flow'[e]["room"] = flow[e]["room"] BY <2>14, <1>k
    <3>2. flow[e]["room"].grants[u][k].key \in {0, claimed[k]} BY <1>b DEF FlowsSound, Sound
    <3> QED BY <3>1, <3>2, <2>9, <2>10
  <2>16. ClaimsSound'
    <3> SUFFICES ASSUME NEW e \in Device PROVE ClaimSound(flow[e]["enable"])' BY DEF ClaimsSound
    <3>1. CASE e = d
      <4>1. flow'[e]["enable"] = g BY <2>14, <3>1, <1>k
      <4>2. g.key = claimed'[g.epoch + 1] /\ g.epoch < currentKeyId'
        BY <2>3, <2>5, <2>6, <2>9 DEF n
      <4> QED BY <4>1, <4>2, <2>5 DEF ClaimSound
    <3>2. CASE e # d
      <4> DEFINE h == flow[e]["enable"]
      <4>1. flow'[e]["enable"] = h BY <2>14, <3>2, <1>k
      <4>2. h.epoch \in 0 .. MaxEpoch BY <1>c, <1>k DEF TypeOK, Flow
      <4>3. ClaimSound(h) BY <1>b DEF ClaimsSound
      <4> HIDE DEF h
      <4>4. ASSUME h.at = "committed" PROVE h.key = claimed'[h.epoch + 1] /\ h.epoch < currentKeyId'
        <5>1. h.key = claimed[h.epoch + 1] /\ h.epoch < currentKeyId BY <4>3, <4>4 DEF ClaimSound
        <5>2. h.epoch + 1 \in Epoch /\ h.epoch + 1 # n
          <6>1. currentKeyId \in 0 .. MaxEpoch /\ MaxEpoch \in Nat BY <1>c, KeyGrantsAssumption DEF TypeOK
          <6>2. n > currentKeyId /\ h.epoch \in Nat /\ h.epoch < currentKeyId BY <5>1, <4>2, <2>8
          <6>3. n \in Int BY <2>8 DEF Epoch
          <6> QED BY <6>1, <6>2, <6>3 DEF Epoch
        <5> QED BY <5>1, <5>2, <4>2, <2>3, <2>6, <2>10
      <4>5. h.at = "claim" => \A u \in User, k \in Epoch :
                                h.grants[u][k].key \in {0, IF k = h.epoch + 1 THEN h.key ELSE 0}
        BY <4>3 DEF ClaimSound
      <4>6. h.at = "committed" => h.key = claimed'[h.epoch + 1] /\ h.epoch < currentKeyId' BY <4>4
      <4> QED BY <4>1, <4>5, <4>6, Zenon DEF ClaimSound
    <3> QED BY <3>1, <3>2
  <2> QED BY <1>a, <2>11, <2>12, <2>13, <2>15, <2>16 DEF KeyInv
<1>15. ASSUME NEW d \in Device, LoseClaim(d) PROVE KeyInv'
  <2>1. Step(d, "enable", Idle) BY <1>15 DEF LoseClaim, Stop
  <2> QED BY <1>15, <1>i, <1>k, <1>q, <2>1, FlowStep DEF LoseClaim
<1>16. ASSUME NEW d \in Device, CacheRoomKey(d) PROVE KeyInv'
  <2> DEFINE f == flow[d]["enable"]
             g == [Idle EXCEPT !.at = "listing"]
  <2>1. Step(d, "enable", g) BY <1>16 DEF CacheRoomKey
  <2>a. ClaimSound(g) BY IdleType DEF ClaimSound, Flow
  <2> HIDE DEF g
  <2>2. FlowsSound' /\ ClaimsSound' BY <1>16, <1>k, <2>1, <2>a, FlowStep DEF CacheRoomKey
  <2>3. f.key = claimed[f.epoch + 1] BY <1>16, <1>b DEF CacheRoomKey, ClaimsSound, ClaimSound
  <2>4. roomKey' = [roomKey EXCEPT ![d][f.epoch + 1] = f.key] BY <1>16 DEF CacheRoomKey
  <2>5. StoresSound' BY <1>16, <1>b, <1>c, <2>3, <2>4 DEF CacheRoomKey, StoresSound, TypeOK
  <2>6. Sound(grants)' /\ Unclaimed' BY <1>16, <1>b DEF CacheRoomKey, Sound, Unclaimed
  <2> QED BY <1>a, <2>2, <2>5, <2>6 DEF KeyInv
<1>17. ASSUME NEW d \in Device, NEW c \in Caller, RequestLost(d, c) PROVE KeyInv'
  <2>1. Step(d, c, Idle) BY <1>17 DEF RequestLost, Stop
  <2> QED BY <1>17, <1>i, <1>q, <2>1, FlowStep DEF RequestLost
<1>18. ASSUME NEW d \in Device, AppCrash(d) PROVE KeyInv'
  BY <1>18, <1>q, FlowsEnd DEF AppCrash
<1>19. ASSUME NEW d \in Device, Reinstall(d) PROVE KeyInv'
  <2>1. FlowsSound' /\ ClaimsSound' BY <1>19, FlowsEnd DEF Reinstall
  <2>2. StoresSound' BY <1>19, <1>b, <1>c DEF Reinstall, StoresSound, TypeOK
  <2>3. Sound(grants)' /\ Unclaimed' BY <1>19, <1>b DEF Reinstall, Sound, Unclaimed
  <2> QED BY <1>a, <2>1, <2>2, <2>3 DEF KeyInv
<1>20. ASSUME NEW d \in Device, NEW u \in User, SignIn(d, u) PROVE KeyInv'
  BY <1>20, <1>q, FlowsEnd DEF SignIn
<1>21. ASSUME NEW d \in Device, NoRecipients(d) PROVE KeyInv'
  <2>1. Step(d, "enable", Idle) BY <1>21 DEF NoRecipients, Stop
  <2> QED BY <1>21, <1>i, <1>k, <1>q, <2>1, FlowStep DEF NoRecipients
<1>22. ASSUME NEW d \in Device, FetchRooms(d) PROVE KeyInv'
  <2>1. Step(d, "enable", Idle) BY <1>22 DEF FetchRooms, Stop
  <2> QED BY <1>22, <1>i, <1>k, <1>q, <2>1, FlowStep DEF FetchRooms
<1>23. CASE UNCHANGED vars
  BY <1>23, <1>a, <1>b DEF vars, KeyInv, Sound, StoresSound, Unclaimed, FlowsSound, ClaimsSound, ClaimSound
<1> QED
  BY <1>1, <1>2, <1>3, <1>4, <1>5, <1>6, <1>7, <1>8, <1>9, <1>10, <1>11, <1>12, <1>13, <1>14,
     <1>15, <1>16, <1>17, <1>18, <1>19, <1>20, <1>21, <1>22, <1>23 DEF Next

(* Whatever claims race, an epoch has one key in every store and grant. *)
THEOREM EpochHasOneKey == Spec => []OneKeyPerEpoch
<1>1. KeyInv => OneKeyPerEpoch BY DEF KeyInv, Sound, StoresSound, OneKeyPerEpoch
<1> QED BY <1>1, KeyInit, KeyStep, PTL DEF Spec

-----------------------------------------------------------------------------
(* Nobody is stranded.  As long as two flows of a device do not publish at  *)
(* once, one that publishes has no identity yet; and for the key that is   *)
(* published, a device of the account has it, or has none and will keep    *)
(* that key, or one that is to be published, when its answer comes.        *)
PublishesAlone ==
  \A d \in Device, c \in Caller : Publishing(d, c) =>
    identity[d] = 0 /\ \A other \in Caller : Publishing(d, other) => other = c
Keeper(d, u) ==
  /\ account[d] = u
  /\ \/ identity[d] = publicKey[u]
     \/ identity[d] = 0 /\ \A c \in Caller : flow[d][c].at = "published" =>
                                               flow[d][c].pair = publicKey[u]
HasKeeper == signIns = 0 => \A u \in User : publicKey[u] # 0 => \E d \in Device : Keeper(d, u)
StrandInv == TypeInv /\ PublishesAlone /\ HasKeeper

(* What a step of one flow leaves to be shown. *)
LEMMA AloneStep ==
  ASSUME StrandInv, NEW d \in Device, NEW c \in Caller, NEW g, Step(d, c, g),
         \A e \in Device : e # d => identity'[e] = identity[e],
         identity'[d] = identity[d] \/ (g.at \notin {"put", "published"} /\ Publishing(d, c)),
         g.at \in {"put", "published"} =>
           /\ identity'[d] = 0
           /\ \A other \in Caller : Publishing(d, other) => other = c
  PROVE  PublishesAlone'
<1>1. ASSUME NEW e \in Device, NEW b \in Caller
      PROVE  flow'[e][b] = IF e = d /\ b = c THEN g ELSE flow[e][b]
  BY DEF StrandInv, TypeInv, TypeOK, Step
<1> SUFFICES ASSUME NEW e \in Device, NEW b \in Caller, Publishing(e, b)'
             PROVE  identity'[e] = 0 /\ \A other \in Caller : Publishing(e, other)' => other = b
  BY DEF PublishesAlone, Publishing
<1>2. flow'[e][b].at \in {"put", "published"} BY DEF Publishing
<1>3. CASE e # d
  <2>1. \A other \in Caller : flow'[e][other] = flow[e][other] BY <1>1, <1>3
  <2>2. \A other \in Caller : Publishing(e, other)' <=> Publishing(e, other) BY <2>1 DEF Publishing
  <2> QED BY <1>3, <2>2 DEF StrandInv, PublishesAlone
<1>4. CASE e = d
  <2>1. \A other \in Caller : other # c => (Publishing(d, other)' <=> Publishing(d, other))
    BY <1>1 DEF Publishing
  <2>2. Publishing(d, c)' <=> g.at \in {"put", "published"} BY <1>1 DEF Publishing
  <2>3. CASE g.at \in {"put", "published"} BY <1>4, <2>1, <2>2, <2>3
  <2>4. CASE g.at \notin {"put", "published"}
    <3>1. b # c /\ Publishing(d, b) BY <1>4, <2>1, <2>2, <2>4
    <3>2. identity'[d] = identity[d] BY <3>1 DEF StrandInv, PublishesAlone
    <3> QED BY <1>4, <2>1, <2>2, <2>4, <3>1, <3>2 DEF StrandInv, PublishesAlone
  <2> QED BY <2>3, <2>4
<1> QED BY <1>3, <1>4

(* A keeper goes on being one: its identity, its account and the published *)
(* key are as they were, and none of its flows has come to hold another.   *)
LEMMA KeepersStay ==
  ASSUME StrandInv, UNCHANGED <<account, identity, publicKey>>, signIns' = 0 => signIns = 0,
         \A e \in Device, c \in Caller : flow'[e][c].at = "published" => flow'[e][c] = flow[e][c]
  PROVE  HasKeeper'
<1> SUFFICES ASSUME signIns = 0, NEW u \in User, publicKey[u] # 0
             PROVE  \E d \in Device : Keeper(d, u)'
  BY DEF HasKeeper
<1>1. PICK d \in Device : Keeper(d, u) BY DEF StrandInv, HasKeeper
<1>2. Keeper(d, u)' BY <1>1 DEF Keeper
<1> QED BY <1>2

LEMMA StrandInit == Init => StrandInv
<1> SUFFICES ASSUME Init PROVE StrandInv OBVIOUS
<1>1. TypeInv BY TypeInit
<1>2. \A d \in Device, c \in Caller : flow[d][c].at = "idle" BY IdleType DEF Init
<1>3. PublishesAlone BY <1>2 DEF PublishesAlone, Publishing
<1>4. HasKeeper BY DEF Init, HasKeeper
<1> QED BY <1>1, <1>3, <1>4 DEF StrandInv

LEMMA StrandStep ==
  ASSUME ~ PublishOverlaps
  PROVE  StrandInv /\ [Next]_vars => StrandInv'
<1> SUFFICES ASSUME StrandInv, [Next]_vars PROVE StrandInv' OBVIOUS
<1>a. TypeInv' BY TypeStep DEF StrandInv
<1>t. TypeOK BY DEF StrandInv, TypeInv
<1>k. "layout" \in Caller /\ "room" \in Caller /\ "enable" \in Caller BY DEF Caller
\* a step of one flow that neither publishes nor touches what publishing sets
<1>q. ASSUME NEW d \in Device, NEW c \in Caller, NEW g, Step(d, c, g),
             g.at \notin {"put", "published"},
             UNCHANGED <<account, identity, publicKey, signIns>>
      PROVE  StrandInv'
  <2>1. PublishesAlone' BY <1>q, AloneStep
  <2>2. ASSUME NEW e \in Device, NEW b \in Caller
        PROVE  flow'[e][b] = IF e = d /\ b = c THEN g ELSE flow[e][b]
    BY <1>q, <1>t DEF Step, TypeOK
  <2>3. HasKeeper' BY <1>q, <2>2, KeepersStay
  <2> QED BY <1>a, <2>1, <2>3 DEF StrandInv
\* all flows of a device stop, and its identity is kept or lost
<1>r. ASSUME NEW d \in Device, StopAll(d), UNCHANGED publicKey,
             identity' = identity \/ identity' = [identity EXCEPT ![d] = 0],
             UNCHANGED <<account, signIns>> \/ (signIns' = signIns + 1)
      PROVE  StrandInv'
  <2>1. ASSUME NEW e \in Device, NEW b \in Caller
        PROVE  flow'[e][b] = IF e = d THEN Idle ELSE flow[e][b]
    BY <1>r, <1>t DEF StopAll, TypeOK
  <2>2. \A e \in Device : identity'[e] \in {identity[e], 0} BY <1>r, <1>t DEF TypeOK
  <2>3. \A e \in Device, b \in Caller : Publishing(e, b)' => Publishing(e, b)
    BY <2>1, IdleType DEF Publishing
  <2>4. PublishesAlone' BY <2>2, <2>3 DEF StrandInv, PublishesAlone
  <2>5. HasKeeper'
    <3> SUFFICES ASSUME signIns' = 0, NEW u \in User, publicKey[u] # 0
                 PROVE  \E e \in Device : Keeper(e, u)'
      BY <1>r DEF HasKeeper
    <3>1. signIns = 0 /\ UNCHANGED account BY <1>r, <1>t DEF TypeOK
    <3>2. PICK e \in Device : Keeper(e, u) BY <3>1 DEF StrandInv, HasKeeper
    <3>3. CASE e # d
      <4>1. identity'[e] = identity[e] BY <1>r, <1>t, <3>3 DEF TypeOK
      <4> QED BY <3>1, <3>2, <3>3, <4>1, <2>1, <1>r DEF Keeper
    <3>4. CASE e = d
      <4>1. \A b \in Caller : flow'[e][b].at # "published" BY <2>1, <3>4, IdleType
      <4> QED BY <3>1, <3>2, <4>1, <2>2, <1>r DEF Keeper
    <3> QED BY <3>3, <3>4
  <2> QED BY <1>a, <2>4, <2>5 DEF StrandInv
<1>p. ASSUME NEW d \in Device, NEW c \in Caller, NEW e, EnsureIdentity(d, c, e),
             UNCHANGED <<account, identity, publicKey>>
      PROVE  StrandInv'
  <2>0. signIns' = signIns BY <1>p DEF EnsureIdentity
  <2>1. CASE Step(d, c, Onward(c, identity[d], e))
    <3>1. Onward(c, identity[d], e).at \notin {"put", "published"}
      BY IdleType DEF Onward, Caller, Flow
    <3> QED BY <1>p, <2>0, <2>1, <3>1, <1>q
  <2>2. CASE /\ identity[d] = 0 /\ \A other \in Caller : ~ Publishing(d, other)
             /\ Step(d, c, [Idle EXCEPT !.at = "put", !.pair = pairs', !.epoch = e])
    <3> DEFINE g == [Idle EXCEPT !.at = "put", !.pair = pairs', !.epoch = e]
    <3>1. g.at = "put" BY IdleType DEF Flow
    <3>2. Step(d, c, g) BY <2>2
    <3> HIDE DEF g
    <3>3. PublishesAlone' BY <1>p, <2>2, <3>1, <3>2, AloneStep
    <3>4. ASSUME NEW f \in Device, NEW b \in Caller
          PROVE  flow'[f][b] = IF f = d /\ b = c THEN g ELSE flow[f][b]
      BY <3>2, <1>t DEF Step, TypeOK
    <3>5. HasKeeper' BY <1>p, <2>0, <3>1, <3>4, KeepersStay
    <3> QED BY <1>a, <3>3, <3>5 DEF StrandInv
  <2> QED BY <1>p, <2>1, <2>2 DEF EnsureIdentity
<1> USE DEF serverVars, deviceVars, counters
<1>1. ASSUME NEW u \in User, JoinRoom(u) PROVE StrandInv'
  BY <1>1, <1>a DEF JoinRoom, StrandInv, PublishesAlone, Publishing, HasKeeper, Keeper
<1>2. ASSUME NEW d \in Device, LearnEpoch(d) PROVE StrandInv'
  BY <1>2, <1>a DEF LearnEpoch, StrandInv, PublishesAlone, Publishing, HasKeeper, Keeper
<1>3. ASSUME NEW d \in Device, StartLayout(d) PROVE StrandInv'
  BY <1>3, <1>k, <1>p DEF StartLayout
<1>4. ASSUME NEW d \in Device, StartRoom(d) PROVE StrandInv'
  BY <1>4, <1>k, <1>p DEF StartRoom
<1>5. ASSUME NEW d \in Device, StartEnable(d) PROVE StrandInv'
  BY <1>5, <1>k, <1>p DEF StartEnable
<1>6. ASSUME NEW d \in Device, NEW c \in Caller, PutLands(d, c) PROVE StrandInv'
  <2> DEFINE g == [flow[d][c] EXCEPT !.at = "published"]
  <2>1. flow[d][c] \in Flow BY <1>t DEF TypeOK
  <2>2. g.at = "published" /\ g.pair = flow[d][c].pair BY <2>1 DEF Flow
  <2>3. Step(d, c, g) BY <1>6 DEF PutLands
  <2> HIDE DEF g
  <2>4. Publishing(d, c) BY <1>6 DEF PutLands, Publishing
  <2>5. identity[d] = 0 /\ \A other \in Caller : Publishing(d, other) => other = c
    BY <2>4 DEF StrandInv, PublishesAlone
  <2>6. /\ publicKey' = [publicKey EXCEPT ![account[d]] = flow[d][c].pair]
        /\ UNCHANGED <<account, identity, signIns>>
    BY <1>6 DEF PutLands
  <2>7. PublishesAlone' BY <2>2, <2>3, <2>5, <2>6, AloneStep
  <2>8. ASSUME NEW e \in Device, NEW b \in Caller
        PROVE  flow'[e][b] = IF e = d /\ b = c THEN g ELSE flow[e][b]
    BY <2>3, <1>t DEF Step, TypeOK
  <2>9. HasKeeper'
    <3> SUFFICES ASSUME signIns = 0, NEW u \in User, publicKey'[u] # 0
                 PROVE  \E e \in Device : Keeper(e, u)'
      BY <2>6 DEF HasKeeper
    <3>1. CASE u = account[d]
      <4>1. publicKey'[u] = flow[d][c].pair BY <3>1, <2>6, <1>t DEF TypeOK
      <4>2. \A b \in Caller : flow'[d][b].at = "published" => b = c
        BY <2>5, <2>8 DEF Publishing
      <4>3. Keeper(d, u)' BY <3>1, <4>1, <4>2, <2>2, <2>5, <2>6, <2>8 DEF Keeper
      <4> QED BY <4>3
    <3>2. CASE u # account[d]
      <4>1. publicKey'[u] = publicKey[u] BY <3>2, <2>6, <1>t DEF TypeOK
      <4>2. PICK e \in Device : Keeper(e, u) BY <4>1 DEF StrandInv, HasKeeper
      <4>3. e # d BY <3>2, <4>2 DEF Keeper
      <4>4. Keeper(e, u)' BY <4>1, <4>2, <4>3, <2>6, <2>8 DEF Keeper
      <4> QED BY <4>4
    <3> QED BY <3>1, <3>2
  <2> QED BY <1>a, <2>7, <2>9 DEF StrandInv
<1>7. ASSUME NEW d \in Device, NEW c \in Caller, SetIdentity(d, c) PROVE StrandInv'
  <2> DEFINE g == Onward(c, flow[d][c].pair, flow[d][c].epoch)
  <2>1. g.at \notin {"put", "published"} BY IdleType DEF Onward, Caller, Flow
  <2>2. Step(d, c, g) BY <1>7 DEF SetIdentity
  <2> HIDE DEF g
  <2>3. Publishing(d, c) /\ flow[d][c].at = "published" BY <1>7 DEF SetIdentity, Publishing
  <2>4. /\ identity' = [identity EXCEPT ![d] = flow[d][c].pair]
        /\ UNCHANGED <<account, publicKey, signIns>>
    BY <1>7 DEF SetIdentity
  <2>5. identity'[d] = flow[d][c].pair /\ \A e \in Device : e # d => identity'[e] = identity[e]
    BY <2>4, <1>t DEF TypeOK
  <2>6. PublishesAlone' BY <2>1, <2>2, <2>3, <2>5, AloneStep
  <2>7. ASSUME NEW e \in Device, NEW b \in Caller
        PROVE  flow'[e][b] = IF e = d /\ b = c THEN g ELSE flow[e][b]
    BY <2>2, <1>t DEF Step, TypeOK
  <2>8. HasKeeper'
    <3> SUFFICES ASSUME signIns = 0, NEW u \in User, publicKey[u] # 0
                 PROVE  \E e \in Device : Keeper(e, u)'
      BY <2>4 DEF HasKeeper
    <3>1. PICK e \in Device : Keeper(e, u) BY DEF StrandInv, HasKeeper
    <3>2. CASE e = d
      <4>1. identity[d] = 0 BY <2>3 DEF StrandInv, PublishesAlone
      <4>2. flow[d][c].pair = publicKey[u]
        BY <3>1, <3>2, <4>1, <2>3 DEF Keeper
      <4>3. Keeper(d, u)' BY <3>1, <3>2, <4>2, <2>4, <2>5 DEF Keeper
      <4> QED BY <4>3
    <3>3. CASE e # d
      <4>1. Keeper(e, u)' BY <3>1, <3>3, <2>4, <2>5, <2>7 DEF Keeper
      <4> QED BY <4>1
    <3> QED BY <3>2, <3>3
  <2> QED BY <1>a, <2>6, <2>8 DEF StrandInv
<1>8. ASSUME NEW d \in Device, GetMyGrants(d) PROVE StrandInv'
  <2> DEFINE g == [flow[d]["room"] EXCEPT !.at = "granted", !.grants = grants]
  <2>1. flow[d]["room"] \in Flow BY <1>t, <1>k DEF TypeOK
  <2>2. g.at = "granted" BY <2>1 DEF Flow
  <2>3. Step(d, "room", g) BY <1>8 DEF GetMyGrants
  <2> HIDE DEF g
  <2> QED BY <1>8, <1>k, <1>q, <2>2, <2>3 DEF GetMyGrants
<1>9. ASSUME NEW d \in Device, LoadMyGrants(d) PROVE StrandInv'
  <2> DEFINE g == [Idle EXCEPT !.at = "serve"]
  <2>1. g.at = "serve" BY IdleType DEF Flow
  <2>2. Step(d, "room", g) BY <1>9 DEF LoadMyGrants
  <2> HIDE DEF g
  <2> QED BY <1>9, <1>k, <1>q, <2>1, <2>2 DEF LoadMyGrants
<1>10. ASSUME NEW d \in Device, GetPending(d) PROVE StrandInv'
  <2> DEFINE g == [Idle EXCEPT !.at = "pending", !.epoch = currentKeyId, !.to = MemberKeys]
  <2>1. g.at = "pending" BY IdleType DEF Flow
  <2>2. Step(d, "room", g) BY <1>10 DEF GetPending
  <2> HIDE DEF g
  <2> QED BY <1>10, <1>k, <1>q, <2>1, <2>2 DEF GetPending
<1>11. ASSUME NEW d \in Device, WrapPending(d) PROVE StrandInv'
  <2> DEFINE w == Wrap(d, flow[d]["room"].to, flow[d]["room"].epoch, grants)
             g == IF w = NoGrants THEN Idle ELSE [Idle EXCEPT !.at = "wrapped", !.grants = w]
  <2>1. Step(d, "room", g) BY <1>11 DEF WrapPending
  <2> HIDE DEF w
  <2>2. g.at \in {"idle", "wrapped"} BY IdleType DEF Flow
  <2> HIDE DEF g
  <2> QED BY <1>11, <1>k, <1>q, <2>1, <2>2 DEF WrapPending
<1>12. ASSUME NEW d \in Device, UploadGrants(d) PROVE StrandInv'
  <2>1. Step(d, "room", Idle) BY <1>12 DEF UploadGrants, Stop
  <2> QED BY <1>12, <1>k, <1>q, <2>1, IdleType DEF UploadGrants
<1>13. ASSUME NEW d \in Device, MintKey(d) PROVE StrandInv'
  <2> DEFINE e == flow[d]["enable"].epoch
             w == WrapAll(keys', e + 1, MemberKeys)
             g == [Idle EXCEPT !.at = "claim", !.key = keys', !.epoch = e, !.grants = w]
  <2>1. Step(d, "enable", g) BY <1>13 DEF MintKey
  <2> HIDE DEF w, e
  <2>2. g.at = "claim" BY IdleType DEF Flow
  <2> HIDE DEF g
  <2> QED BY <1>13, <1>k, <1>q, <2>1, <2>2 DEF MintKey
<1>14. ASSUME NEW d \in Device, ClaimEpoch(d) PROVE StrandInv'
  <2> DEFINE g == [flow[d]["enable"] EXCEPT !.at = "committed"]
  <2>1. flow[d]["enable"] \in Flow BY <1>t, <1>k DEF TypeOK
  <2>2. g.at = "committed" BY <2>1 DEF Flow
  <2>3. Step(d, "enable", g) BY <1>14 DEF ClaimEpoch
  <2> HIDE DEF g
  <2> QED BY <1>14, <1>k, <1>q, <2>2, <2>3 DEF ClaimEpoch
<1>15. ASSUME NEW d \in Device, LoseClaim(d) PROVE StrandInv'
  <2>1. Step(d, "enable", Idle) BY <1>15 DEF LoseClaim, Stop
  <2> QED BY <1>15, <1>k, <1>q, <2>1, IdleType DEF LoseClaim
<1>16. ASSUME NEW d \in Device, CacheRoomKey(d) PROVE StrandInv'
  <2> DEFINE g == [Idle EXCEPT !.at = "listing"]
  <2>1. g.at = "listing" BY IdleType DEF Flow
  <2>2. Step(d, "enable", g) BY <1>16 DEF CacheRoomKey
  <2> HIDE DEF g
  <2> QED BY <1>16, <1>k, <1>q, <2>1, <2>2 DEF CacheRoomKey
<1>17. ASSUME NEW d \in Device, NEW c \in Caller, RequestLost(d, c) PROVE StrandInv'
  <2>1. Step(d, c, Idle) BY <1>17 DEF RequestLost, Stop
  <2> QED BY <1>17, <1>q, <2>1, IdleType DEF RequestLost
<1>18. ASSUME NEW d \in Device, AppCrash(d) PROVE StrandInv'
  BY <1>18, <1>r DEF AppCrash
<1>19. ASSUME NEW d \in Device, Reinstall(d) PROVE StrandInv'
  BY <1>19, <1>r DEF Reinstall
<1>20. ASSUME NEW d \in Device, NEW u \in User, SignIn(d, u) PROVE StrandInv'
  BY <1>20, <1>r DEF SignIn
<1>21. ASSUME NEW d \in Device, NoRecipients(d) PROVE StrandInv'
  <2>1. Step(d, "enable", Idle) BY <1>21 DEF NoRecipients, Stop
  <2> QED BY <1>21, <1>k, <1>q, <2>1, IdleType DEF NoRecipients
<1>22. ASSUME NEW d \in Device, FetchRooms(d) PROVE StrandInv'
  <2>1. Step(d, "enable", Idle) BY <1>22 DEF FetchRooms, Stop
  <2> QED BY <1>22, <1>k, <1>q, <2>1, IdleType DEF FetchRooms
<1>23. CASE UNCHANGED vars
  BY <1>23, <1>a DEF vars, StrandInv, PublishesAlone, Publishing, HasKeeper, Keeper
<1> QED
  BY <1>1, <1>2, <1>3, <1>4, <1>5, <1>6, <1>7, <1>8, <1>9, <1>10, <1>11, <1>12, <1>13, <1>14,
     <1>15, <1>16, <1>17, <1>18, <1>19, <1>20, <1>21, <1>22, <1>23 DEF Next

(* While no device changes accounts, an account with a published key has a *)
(* device that holds it or is to publish another, however many devices it  *)
(* has and whatever requests are lost: ensureIdentityPublished publishes   *)
(* first and persists then.                                                *)
THEOREM NobodyIsStranded ==
  ASSUME ~ PublishOverlaps
  PROVE  Spec => []NotStranded
<1>1. StrandInv => NotStranded
  BY DEF StrandInv, HasKeeper, Keeper, NotStranded
<1> QED BY <1>1, StrandInit, StrandStep, PTL DEF Spec

-----------------------------------------------------------------------------
(* No orphan epoch.  With a device for each account, who never changes it, *)
(* the device of the admin that claims an epoch has published the identity *)
(* it has, which it then keeps as long as it is not reinstalled; the claim *)
(* carries a grant sealed to it; and whatever replaces that grant, in the  *)
(* hands of another member's flow, is sealed to it as well, for it was     *)
(* offered when the epoch was there, and the identity before that.         *)
OneDeviceEach == \A d, e \in Device : Home[d] = Home[e] => d = e

FlowReady(d, c, f) ==
  /\ f.at = "published" => f.pair = publicKey[account[d]]
  /\ f.at \in {"put", "published"} => f.pair # 0
  /\ c = "enable" /\ f.at # "idle" => account[d] = Admin
  /\ c = "enable" /\ f.at \notin {"idle", "put", "published"} => identity[d] # 0
  /\ c = "enable" /\ f.at = "claim" =>
       /\ \A u \in User, k \in Epoch : f.grants[u][k] # NoGrant => k = f.epoch + 1
       /\ f.grants[Admin][f.epoch + 1].to = identity[d]
  /\ c = "room" /\ losses = 0 /\ f.at = "pending" /\ f.epoch > 0 =>
       f.epoch <= currentKeyId /\ f.to[Admin] = publicKey[Admin]
  /\ c = "room" /\ losses = 0 /\ f.at = "wrapped" =>
       \A k \in Epoch : f.grants[Admin][k] # NoGrant =>
         k <= currentKeyId /\ f.grants[Admin][k].to = publicKey[Admin]
FlowsReady == \A d \in Device, c \in Caller : FlowReady(d, c, flow[d][c])
IdentityIsPublished == \A d \in Device : identity[d] # 0 => publicKey[account[d]] = identity[d]
AdminOpens(d, k) == account[d] = Admin /\ identity[d] # 0 /\ grants[Admin][k].to = identity[d]
AdminsOpen == losses = 0 => \A k \in 1 .. currentKeyId : \E d \in Device : AdminOpens(d, k)
HeldInv ==
  /\ FlowsReady /\ IdentityIsPublished /\ AdminsOpen
  /\ account = Home /\ Admin \in members

LEMMA HeldInit == Init => HeldInv
<1> SUFFICES ASSUME Init PROVE HeldInv OBVIOUS
<1>1. \A d \in Device, c \in Caller : flow[d][c].at = "idle" BY IdleType DEF Init
<1>2. FlowsReady BY <1>1 DEF FlowsReady, FlowReady
<1>3. IdentityIsPublished BY DEF Init, IdentityIsPublished
<1>4. AdminsOpen BY DEF Init, AdminsOpen
<1> QED BY <1>2, <1>3, <1>4 DEF Init, HeldInv

(* What a step of one flow leaves to be shown. *)
LEMMA ReadyStep ==
  ASSUME StrandInv, HeldInv, NEW d \in Device, NEW c \in Caller, NEW g, Step(d, c, g),
         \A e \in Device, b \in Caller :
           ~ (e = d /\ b = c) => FlowReady(e, b, flow[e][b])',
         FlowReady(d, c, g)'
  PROVE  FlowsReady'
<1>1. \A e \in Device, b \in Caller :
        flow'[e][b] = IF e = d /\ b = c THEN g ELSE flow[e][b]
  BY DEF StrandInv, TypeInv, TypeOK, Step
<1> SUFFICES ASSUME NEW e \in Device, NEW b \in Caller PROVE FlowReady(e, b, flow[e][b])'
  BY DEF FlowsReady
<1>2. CASE e = d /\ b = c
  <2>1. flow'[e][b] = g BY <1>1, <1>2
  <2> QED BY <1>2, <2>1 DEF FlowReady
<1>3. CASE ~ (e = d /\ b = c)
  <2>1. FlowReady(e, b, flow[e][b])' BY <1>3
  <2> QED BY <2>1
<1> QED BY <1>2, <1>3

\* A flow that stays as it is stays ready while its device keeps its pair.
LEMMA ReadyKept ==
  ASSUME NEW d \in Device, NEW c \in Caller, flow'[d][c] = flow[d][c],
         FlowReady(d, c, flow[d][c]), identity'[d] = identity[d],
         UNCHANGED <<publicKey, currentKeyId, account>>, losses' = losses \/ losses' # 0
  PROVE  FlowReady(d, c, flow[d][c])'
<1>1. PICK f : f = flow[d][c] OBVIOUS
<1>2. FlowReady(d, c, f)
  BY <1>1
<1>3. FlowReady(d, c, f)'
  <2>1. UNCHANGED <<publicKey, currentKeyId, account>> /\ identity'[d] = identity[d]
    OBVIOUS
  <2>2. losses' = 0 => losses = 0 OBVIOUS
  <2> QED BY <1>2, <2>1, <2>2 DEF FlowReady
<1>4. f = flow'[d][c] BY <1>1
<1> QED BY <1>3, <1>4

LEMMA HeldStep ==
  ASSUME ~ PublishOverlaps, OneDeviceEach, MaxSignIns = 0
  PROVE  StrandInv /\ HeldInv /\ [Next]_vars => HeldInv'
<1> SUFFICES ASSUME StrandInv, HeldInv, [Next]_vars PROVE HeldInv' OBVIOUS
<1> USE DEF serverVars, deviceVars, counters
<1>t. TypeOK BY DEF StrandInv, TypeInv
<1>k. "layout" \in Caller /\ "room" \in Caller /\ "enable" \in Caller BY DEF Caller
<1>i. Idle \in Flow /\ Idle.at = "idle" BY IdleType
<1>f. ASSUME NEW d \in Device, NEW c \in Caller
      PROVE  flow[d][c] \in Flow /\ FlowReady(d, c, flow[d][c])
  BY <1>t DEF HeldInv, FlowsReady, TypeOK
<1>o. ASSUME NEW d \in Device, NEW e \in Device, e # d PROVE account[e] # account[d]
  BY <1>o, KeyGrantsAssumption DEF OneDeviceEach, HeldInv
<1>l. losses \in Nat /\ currentKeyId \in Nat BY <1>t DEF TypeOK
<1>r. \A f : f.at = "idle" => \A d \in Device, c \in Caller : FlowReady(d, c, f) /\ FlowReady(d, c, f)'
  BY DEF FlowReady
\* a step of one flow that changes nothing the invariant relates it to
<1>q. ASSUME NEW d \in Device, NEW c \in Caller, NEW g, Step(d, c, g), FlowReady(d, c, g),
             UNCHANGED <<members, publicKey, currentKeyId, grants, account, identity, losses>>
      PROVE  HeldInv'
  <2>1. FlowReady(d, c, g)' BY <1>q DEF FlowReady
  <2>2. ASSUME NEW e \in Device, NEW b \in Caller, ~ (e = d /\ b = c)
        PROVE  FlowReady(e, b, flow[e][b])'
    <3>1. flow'[e][b] = flow[e][b] BY <1>q, <1>t, <2>2 DEF Step, TypeOK
    <3> QED BY <1>q, <1>f, <3>1, ReadyKept
  <2>3. FlowsReady' BY <1>q, <2>1, <2>2, ReadyStep
  <2>4. IdentityIsPublished' BY <1>q DEF HeldInv, IdentityIsPublished
  <2>5. AdminsOpen' BY <1>q DEF HeldInv, AdminsOpen, AdminOpens
  <2> QED BY <1>q, <2>3, <2>4, <2>5 DEF HeldInv
<1>p. ASSUME NEW d \in Device, NEW c \in Caller, NEW e \in 0 .. MaxEpoch, EnsureIdentity(d, c, e),
             c = "enable" => account[d] = Admin,
             UNCHANGED <<members, publicKey, currentKeyId, grants, account, identity>>
      PROVE  HeldInv'
  <2>0. UNCHANGED losses BY <1>p DEF EnsureIdentity
  <2>1. CASE identity[d] # 0 /\ Step(d, c, Onward(c, identity[d], e))
    <3>1. PICK g : g = Onward(c, identity[d], e) OBVIOUS
    <3>2. Step(d, c, g) BY <2>1, <3>1
    <3>3. g.at \in {"idle", "asked", "members"} BY <3>1, <1>i DEF Onward, Caller, Flow
    <3>4. FlowReady(d, c, g) BY <1>p, <2>1, <3>3 DEF FlowReady
    <3> QED BY <1>p, <2>0, <3>2, <3>4, <1>q
  <2>2. CASE /\ pairs' = pairs + 1
             /\ Step(d, c, [Idle EXCEPT !.at = "put", !.pair = pairs', !.epoch = e])
    <3>1. PICK g : g = [Idle EXCEPT !.at = "put", !.pair = pairs', !.epoch = e] OBVIOUS
    <3>2. Step(d, c, g) BY <2>2, <3>1
    <3>3. pairs' # 0 BY <2>2, <1>t, KeyGrantsAssumption DEF TypeOK, Pair
    <3>4. g.at = "put" /\ g.pair # 0 BY <3>1, <3>3, <1>i DEF Flow
    <3>5. FlowReady(d, c, g) BY <1>p, <3>4 DEF FlowReady
    <3> QED BY <1>p, <2>0, <3>2, <3>5, <1>q
  <2> QED BY <1>p, <2>1, <2>2 DEF EnsureIdentity
\* a step that changes nothing the invariant speaks of, but for new members
<1>u. ASSUME UNCHANGED <<publicKey, currentKeyId, grants, account, identity, losses, flow>>,
             members \subseteq members'
      PROVE  HeldInv'
  <2>1. ASSUME NEW d \in Device, NEW c \in Caller PROVE FlowReady(d, c, flow[d][c])'
    BY <1>u, <1>f DEF FlowReady
  <2>2. FlowsReady' BY <2>1 DEF FlowsReady
  <2>3. IdentityIsPublished' BY <1>u DEF HeldInv, IdentityIsPublished
  <2>4. AdminsOpen' BY <1>u DEF HeldInv, AdminsOpen, AdminOpens
  <2> QED BY <1>u, <2>2, <2>3, <2>4 DEF HeldInv
<1>1. ASSUME NEW u \in User, JoinRoom(u) PROVE HeldInv'
  BY <1>1, <1>u DEF JoinRoom
<1>2. ASSUME NEW d \in Device, LearnEpoch(d) PROVE HeldInv'
  BY <1>2, <1>u DEF LearnEpoch
<1>3. ASSUME NEW d \in Device, StartLayout(d) PROVE HeldInv'
  BY <1>3, <1>k, <1>p, KeyGrantsAssumption DEF StartLayout
<1>4. ASSUME NEW d \in Device, StartRoom(d) PROVE HeldInv'
  BY <1>4, <1>k, <1>p, KeyGrantsAssumption DEF StartRoom
<1>5. ASSUME NEW d \in Device, StartEnable(d) PROVE HeldInv'
  <2>1. EnsureIdentity(d, "enable", roomsList[d]) /\ account[d] = Admin /\ roomsList[d] \in 0 .. MaxEpoch
    BY <1>5, <1>t DEF StartEnable, BannerPressed, TypeOK
  <2> QED BY <1>5, <2>1, <1>k, <1>p DEF StartEnable
<1>6. ASSUME NEW d \in Device, NEW c \in Caller, PutLands(d, c) PROVE HeldInv'
  <2>1. PICK g : g = [flow[d][c] EXCEPT !.at = "published"] OBVIOUS
  <2>2. Step(d, c, g) BY <1>6, <2>1 DEF PutLands
  <2>3. g.at = "published" /\ g.pair = flow[d][c].pair BY <2>1, <1>f DEF Flow
  <2>4. Publishing(d, c) /\ flow[d][c].at = "put" BY <1>6 DEF PutLands, Publishing
  <2>5. identity[d] = 0 /\ \A b \in Caller : Publishing(d, b) => b = c
    BY <2>4 DEF StrandInv, PublishesAlone
  <2>6. /\ publicKey' = [publicKey EXCEPT ![account[d]] = flow[d][c].pair]
        /\ grants' = [grants EXCEPT ![account[d]] = NoRow]
        /\ UNCHANGED <<members, currentKeyId, account, identity, losses>>
    BY <1>6 DEF PutLands
  <2>7. account[d] \in User BY <1>t DEF TypeOK
  <2>8. publicKey'[account[d]] = flow[d][c].pair BY <2>6, <2>7, <1>t DEF TypeOK
  <2>9. \A u \in User : u # account[d] => publicKey'[u] = publicKey[u] /\ grants'[u] = grants[u]
    BY <2>6, <1>t DEF TypeOK, Grants
  \* whose epochs others have read is not the account whose key is replaced
  <2>10. losses = 0 /\ currentKeyId > 0 => account[d] # Admin
    <3> SUFFICES ASSUME losses = 0, currentKeyId > 0 PROVE account[d] # Admin OBVIOUS
    <3>1. 1 \in 1 .. currentKeyId BY <1>l
    <3>2. PICK w \in Device : AdminOpens(w, 1) BY <3>1 DEF HeldInv, AdminsOpen
    <3> QED BY <3>2, <2>5, <1>o DEF AdminOpens
  <2>11. FlowReady(d, c, g)'
    <3>1. FlowReady(d, c, flow[d][c]) BY <1>f
    <3> QED BY <2>3, <2>4, <2>6, <2>8, <3>1 DEF FlowReady
  <2>12. ASSUME NEW e \in Device, NEW b \in Caller, ~ (e = d /\ b = c)
         PROVE  FlowReady(e, b, flow[e][b])'
    <3>1. flow'[e][b] = flow[e][b] BY <2>2, <1>t, <2>12 DEF Step, TypeOK
    <3>2. PICK f : f = flow[e][b] OBVIOUS
    <3>3. FlowReady(e, b, f) /\ f \in Flow BY <1>f, <3>2
    <3>4. f.at = "published" => e # d /\ publicKey'[account[e]] = publicKey[account[e]]
      <4> SUFFICES ASSUME f.at = "published"
                   PROVE  e # d /\ publicKey'[account[e]] = publicKey[account[e]]
        OBVIOUS
      <4>1. e # d BY <2>5, <2>12, <3>2 DEF Publishing
      <4>2. account[e] # account[d] /\ account[e] \in User BY <4>1, <1>o, <1>t DEF TypeOK
      <4> QED BY <4>1, <4>2, <2>9
    <3>5. losses = 0 /\ currentKeyId > 0 => publicKey'[Admin] = publicKey[Admin]
      BY <2>9, <2>10, KeyGrantsAssumption
    <3>6. f.epoch \in Nat BY <3>3 DEF Flow
    <3>7. /\ b = "room" /\ losses = 0 /\ f.at = "pending" /\ f.epoch > 0 =>
               f.epoch <= currentKeyId /\ f.to[Admin] = publicKey'[Admin]
          /\ b = "room" /\ losses = 0 /\ f.at = "wrapped" =>
               \A k \in Epoch : f.grants[Admin][k] # NoGrant =>
                 k <= currentKeyId /\ f.grants[Admin][k].to = publicKey'[Admin]
      BY <3>3, <3>5, <3>6, <1>l DEF FlowReady, Epoch
    <3>8. FlowReady(e, b, f)' BY <3>3, <3>4, <3>7, <2>6 DEF FlowReady
    <3> QED BY <3>1, <3>2, <3>8 DEF FlowReady
  <2>13. FlowsReady' BY <2>2, <2>11, <2>12, ReadyStep
  <2>14. IdentityIsPublished'
    <3> SUFFICES ASSUME NEW e \in Device, identity[e] # 0 PROVE publicKey'[account[e]] = identity[e]
      BY <2>6 DEF IdentityIsPublished
    <3>1. account[e] # account[d] /\ account[e] \in User BY <2>5, <1>o, <1>t DEF TypeOK
    <3> QED BY <3>1, <2>9 DEF HeldInv, IdentityIsPublished
  <2>15. AdminsOpen'
    <3> SUFFICES ASSUME losses = 0, NEW k \in 1 .. currentKeyId
                 PROVE  \E e \in Device : AdminOpens(e, k)'
      BY <2>6 DEF AdminsOpen
    <3>1. account[d] # Admin BY <2>10, <1>l
    <3>2. grants'[Admin] = grants[Admin] BY <3>1, <2>9, KeyGrantsAssumption
    <3>3. PICK e \in Device : AdminOpens(e, k) BY DEF HeldInv, AdminsOpen
    <3> QED BY <3>2, <3>3, <2>6 DEF AdminOpens
  <2> QED BY <2>6, <2>13, <2>14, <2>15 DEF HeldInv
<1>7. ASSUME NEW d \in Device, NEW c \in Caller, SetIdentity(d, c) PROVE HeldInv'
  <2>1. PICK g : g = Onward(c, flow[d][c].pair, flow[d][c].epoch) OBVIOUS
  <2>2. Step(d, c, g) BY <1>7, <2>1 DEF SetIdentity
  <2>3. g.at \in {"idle", "asked", "members"} BY <2>1, <1>i DEF Onward, Caller, Flow
  <2>4. Publishing(d, c) /\ flow[d][c].at = "published" BY <1>7 DEF SetIdentity, Publishing
  <2>5. identity[d] = 0 /\ \A b \in Caller : Publishing(d, b) => b = c
    BY <2>4 DEF StrandInv, PublishesAlone
  <2>6. /\ identity' = [identity EXCEPT ![d] = flow[d][c].pair]
        /\ UNCHANGED <<members, publicKey, currentKeyId, grants, account, losses>>
    BY <1>7 DEF SetIdentity
  <2>7. identity'[d] = flow[d][c].pair /\ \A e \in Device : e # d => identity'[e] = identity[e]
    BY <2>6, <1>t DEF TypeOK
  <2>8. FlowReady(d, c, flow[d][c]) BY <1>f
  <2>9. identity'[d] # 0 /\ publicKey[account[d]] = identity'[d] BY <2>4, <2>7, <2>8 DEF FlowReady
  <2>10. FlowReady(d, c, g)' BY <2>3, <2>4, <2>6, <2>8, <2>9 DEF FlowReady
  <2>11. ASSUME NEW e \in Device, NEW b \in Caller, ~ (e = d /\ b = c)
         PROVE  FlowReady(e, b, flow[e][b])'
    <3>1. flow'[e][b] = flow[e][b] BY <2>2, <1>t, <2>11 DEF Step, TypeOK
    <3>2. FlowReady(e, b, flow[e][b]) BY <1>f
    <3>3. CASE e # d BY <3>1, <3>2, <3>3, <2>6, <2>7 DEF FlowReady
    <3>4. CASE e = d
      <4>1. flow[e][b].at \notin {"put", "published"} BY <3>4, <2>5, <2>11 DEF Publishing
      <4>2. b = "enable" => flow[e][b].at = "idle" BY <3>2, <3>4, <4>1, <2>5 DEF FlowReady
      <4> QED BY <3>1, <3>2, <4>1, <4>2, <2>6 DEF FlowReady
    <3> QED BY <3>3, <3>4
  <2>12. FlowsReady' BY <2>2, <2>10, <2>11, ReadyStep
  <2>13. IdentityIsPublished' BY <2>6, <2>7, <2>9 DEF HeldInv, IdentityIsPublished
  <2>14. AdminsOpen'
    <3> SUFFICES ASSUME losses = 0, NEW k \in 1 .. currentKeyId
                 PROVE  \E e \in Device : AdminOpens(e, k)'
      BY <2>6 DEF AdminsOpen
    <3>1. PICK e \in Device : AdminOpens(e, k) BY DEF HeldInv, AdminsOpen
    <3>2. e # d BY <3>1, <2>5 DEF AdminOpens
    <3> QED BY <3>1, <3>2, <2>6, <2>7 DEF AdminOpens
  <2> QED BY <2>6, <2>12, <2>13, <2>14 DEF HeldInv
<1>8. ASSUME NEW d \in Device, GetMyGrants(d) PROVE HeldInv'
  <2>1. PICK g : g = [flow[d]["room"] EXCEPT !.at = "granted", !.grants = grants] OBVIOUS
  <2>2. g.at = "granted" BY <2>1, <1>f, <1>k DEF Flow
  <2>3. Step(d, "room", g) BY <1>8, <2>1 DEF GetMyGrants
  <2>4. FlowReady(d, "room", g) BY <2>2 DEF FlowReady
  <2> QED BY <1>8, <1>k, <1>q, <2>3, <2>4 DEF GetMyGrants
<1>9. ASSUME NEW d \in Device, LoadMyGrants(d) PROVE HeldInv'
  <2>1. PICK g : g = [Idle EXCEPT !.at = "serve"] OBVIOUS
  <2>2. g.at = "serve" BY <2>1, <1>i DEF Flow
  <2>3. Step(d, "room", g) BY <1>9, <2>1 DEF LoadMyGrants
  <2>4. FlowReady(d, "room", g) BY <2>2 DEF FlowReady
  <2> QED BY <1>9, <1>k, <1>q, <2>3, <2>4 DEF LoadMyGrants
<1>10. ASSUME NEW d \in Device, GetPending(d) PROVE HeldInv'
  <2>1. PICK g : g = [Idle EXCEPT !.at = "pending", !.epoch = currentKeyId, !.to = MemberKeys]
    OBVIOUS
  <2>2. g.at = "pending" /\ g.epoch = currentKeyId /\ g.to = MemberKeys BY <2>1, <1>i DEF Flow
  <2>3. Step(d, "room", g) BY <1>10, <2>1 DEF GetPending
  <2>4. MemberKeys[Admin] = publicKey[Admin] BY KeyGrantsAssumption DEF HeldInv, MemberKeys
  <2>5. FlowReady(d, "room", g) BY <2>2, <2>4, <1>l DEF FlowReady
  <2> QED BY <1>10, <1>k, <1>q, <2>3, <2>5 DEF GetPending
<1>11. ASSUME NEW d \in Device, WrapPending(d) PROVE HeldInv'
  <2>1. PICK f : f = flow[d]["room"] OBVIOUS
  <2>2. PICK w : w = Wrap(d, f.to, f.epoch, grants) OBVIOUS
  <2>3. PICK g : g = IF w = NoGrants THEN Idle ELSE [Idle EXCEPT !.at = "wrapped", !.grants = w]
    OBVIOUS
  <2>4. Step(d, "room", g) BY <1>11, <2>1, <2>2, <2>3 DEF WrapPending
  <2>5. g = Idle \/ (g.at = "wrapped" /\ g.grants = w) BY <2>3, <1>i DEF Flow
  <2>6. f.at = "pending" /\ FlowReady(d, "room", f) /\ f.epoch \in Nat
    BY <1>11, <2>1, <1>f, <1>k DEF WrapPending, Flow
  <2>7. ASSUME losses = 0, NEW k \in Epoch, w[Admin][k] # NoGrant
        PROVE  k <= currentKeyId /\ w[Admin][k].to = publicKey[Admin]
    <3>1. w[Admin][k] = IF Pending(f.to, f.epoch, grants, Admin, k) /\ roomKey[d][k] # 0
                        THEN Seal(roomKey[d][k], f.to[Admin]) ELSE NoGrant
      BY <2>2, KeyGrantsAssumption DEF Wrap
    <3>2. k <= f.epoch /\ w[Admin][k].to = f.to[Admin] BY <2>7, <3>1 DEF Pending, Seal
    <3>3. f.epoch > 0 /\ k \in Nat BY <3>2, <2>6 DEF Epoch
    <3>4. f.epoch <= currentKeyId /\ f.to[Admin] = publicKey[Admin]
      BY <2>6, <2>7, <3>3 DEF FlowReady
    <3> QED BY <3>2, <3>3, <3>4, <2>6, <1>l
  <2>8. FlowReady(d, "room", g) BY <2>5, <2>7, <1>i DEF FlowReady
  <2> QED BY <1>11, <1>k, <1>q, <2>4, <2>8 DEF WrapPending
<1>12. ASSUME NEW d \in Device, UploadGrants(d) PROVE HeldInv'
  <2>1. PICK f : f = flow[d]["room"] OBVIOUS
  <2>2. FlowReady(d, "room", f) /\ f.at = "wrapped" BY <1>12, <2>1, <1>f, <1>k DEF UploadGrants
  <2>3. /\ grants' = Upserted(f.grants) /\ Step(d, "room", Idle)
        /\ UNCHANGED <<members, publicKey, currentKeyId, account, identity, losses>>
    BY <1>12, <2>1 DEF UploadGrants, Stop
  <2>4. FlowReady(d, "room", Idle)' BY <1>i DEF FlowReady
  <2>5. ASSUME NEW e \in Device, NEW b \in Caller, ~ (e = d /\ b = "room")
        PROVE  FlowReady(e, b, flow[e][b])'
    <3>1. flow'[e][b] = flow[e][b] BY <2>3, <1>t, <1>k, <2>5 DEF Step, TypeOK
    <3> QED BY <2>3, <1>f, <3>1, ReadyKept
  <2>6. FlowsReady'
    <3>1. PICK g : g = Idle OBVIOUS
    <3>2. FlowReady(d, "room", g)' /\ Step(d, "room", g) BY <3>1, <2>3, <1>i DEF FlowReady
    <3> QED BY <3>2, <2>5, <1>k, ReadyStep
  <2>7. IdentityIsPublished' BY <2>3 DEF HeldInv, IdentityIsPublished
  <2>8. AdminsOpen'
    <3> SUFFICES ASSUME losses = 0, NEW k \in 1 .. currentKeyId
                 PROVE  \E e \in Device : AdminOpens(e, k)'
      BY <2>3 DEF AdminsOpen
    <3>1. PICK e \in Device : AdminOpens(e, k) BY DEF HeldInv, AdminsOpen
    <3>2. k \in Epoch BY <1>t, KeyGrantsAssumption DEF TypeOK, Epoch
    <3>3. grants'[Admin][k] = IF f.grants[Admin][k] # NoGrant THEN f.grants[Admin][k]
                              ELSE grants[Admin][k]
      BY <2>3, <3>2, KeyGrantsAssumption DEF Upserted
    <3>4. f.grants[Admin][k] # NoGrant => f.grants[Admin][k].to = publicKey[Admin]
      BY <2>2, <3>2 DEF FlowReady
    <3>5. publicKey[Admin] = identity[e] BY <3>1 DEF AdminOpens, HeldInv, IdentityIsPublished
    <3>6. grants'[Admin][k].to = identity[e] BY <3>1, <3>3, <3>4, <3>5 DEF AdminOpens
    <3> QED BY <3>1, <3>6, <2>3 DEF AdminOpens
  <2> QED BY <2>3, <2>6, <2>7, <2>8 DEF HeldInv
<1>13. ASSUME NEW d \in Device, MintKey(d) PROVE HeldInv'
  <2>1. PICK f : f = flow[d]["enable"] OBVIOUS
  <2>2. PICK w : w = WrapAll(keys', f.epoch + 1, MemberKeys) OBVIOUS
  <2>3. PICK g : g = [Idle EXCEPT !.at = "claim", !.key = keys', !.epoch = f.epoch, !.grants = w]
    OBVIOUS
  <2>4. Step(d, "enable", g) BY <1>13, <2>1, <2>2, <2>3 DEF MintKey
  <2>5. g.at = "claim" /\ g.epoch = f.epoch /\ g.grants = w BY <2>3, <1>i DEF Flow
  <2>6. f.at = "members" /\ FlowReady(d, "enable", f) /\ f.epoch \in Nat /\ f.epoch < MaxEpoch
    BY <1>13, <2>1, <1>f, <1>k DEF MintKey, StrandInv, TypeInv, RoomForNext, Flow
  <2>7. account[d] = Admin /\ identity[d] # 0 BY <2>6 DEF FlowReady
  <2>8. MemberKeys[Admin] = identity[d]
    <3>1. MemberKeys[Admin] = publicKey[Admin] BY KeyGrantsAssumption DEF HeldInv, MemberKeys
    <3> QED BY <2>7, <3>1 DEF HeldInv, IdentityIsPublished
  <2>9. f.epoch + 1 \in Epoch BY <2>6, KeyGrantsAssumption DEF Epoch
  <2>10. \A u \in User, k \in Epoch : w[u][k] # NoGrant => k = f.epoch + 1 BY <2>2 DEF WrapAll
  <2>11. w[Admin][f.epoch + 1].to = identity[d]
    <3>1. w[Admin][f.epoch + 1] = Seal(keys', MemberKeys[Admin])
      BY <2>2, <2>7, <2>8, <2>9, KeyGrantsAssumption DEF WrapAll
    <3> QED BY <3>1, <2>8 DEF Seal
  <2>12. FlowReady(d, "enable", g) BY <2>5, <2>7, <2>10, <2>11 DEF FlowReady
  <2> QED BY <1>13, <1>k, <1>q, <2>4, <2>12 DEF MintKey
<1>14. ASSUME NEW d \in Device, ClaimEpoch(d) PROVE HeldInv'
  <2>1. PICK f : f = flow[d]["enable"] OBVIOUS
  <2>2. PICK g : g = [f EXCEPT !.at = "committed"] OBVIOUS
  <2>3. Step(d, "enable", g) BY <1>14, <2>1, <2>2 DEF ClaimEpoch
  <2>4. f \in Flow /\ f.epoch < MaxEpoch /\ f.at = "claim" /\ FlowReady(d, "enable", f)
    BY <1>14, <2>1, <1>f, <1>k DEF ClaimEpoch, StrandInv, TypeInv, RoomForNext
  <2>5. g.at = "committed" BY <2>2, <2>4 DEF Flow
  <2>6. /\ currentKeyId = f.epoch /\ currentKeyId' = currentKeyId + 1
        /\ grants' = Upserted(f.grants)
        /\ UNCHANGED <<members, publicKey, account, identity, losses>>
    BY <1>14, <2>1 DEF ClaimEpoch, Wins
  <2>7. account[d] = Admin /\ identity[d] # 0 BY <2>4 DEF FlowReady
  <2>8. FlowReady(d, "enable", g)' BY <2>5, <2>6, <2>7 DEF FlowReady
  <2>9. ASSUME NEW e \in Device, NEW b \in Caller, ~ (e = d /\ b = "enable")
        PROVE  FlowReady(e, b, flow[e][b])'
    <3>1. flow'[e][b] = flow[e][b] BY <2>3, <1>t, <1>k, <2>9 DEF Step, TypeOK
    <3>2. FlowReady(e, b, flow[e][b]) /\ flow[e][b].epoch \in Nat BY <1>f DEF Flow
    <3>3. \A n \in Nat : n <= currentKeyId => n <= currentKeyId' BY <2>6, <1>l
    <3>4. Epoch \subseteq Nat BY DEF Epoch
    <3> QED BY <2>6, <3>1, <3>2, <3>3, <3>4 DEF FlowReady
  <2>10. FlowsReady' BY <2>3, <2>8, <2>9, <1>k, ReadyStep
  <2>11. IdentityIsPublished' BY <2>6 DEF HeldInv, IdentityIsPublished
  <2>12. AdminsOpen'
    <3> SUFFICES ASSUME losses = 0, NEW k \in 1 .. currentKeyId + 1
                 PROVE  \E e \in Device : AdminOpens(e, k)'
      BY <2>6 DEF AdminsOpen
    <3>1. k \in Epoch BY <2>4, <2>6, <1>l, KeyGrantsAssumption DEF Epoch
    <3>2. grants'[Admin][k] = IF f.grants[Admin][k] # NoGrant THEN f.grants[Admin][k]
                              ELSE grants[Admin][k]
      BY <2>6, <3>1, KeyGrantsAssumption DEF Upserted
    <3>3. CASE k = currentKeyId + 1
      <4>1. f.grants[Admin][k].to = identity[d] BY <2>4, <2>6, <3>3 DEF FlowReady
      <4>2. f.grants[Admin][k] # NoGrant BY <4>1, <2>7 DEF NoGrant
      <4>3. AdminOpens(d, k)' BY <4>1, <4>2, <3>2, <2>6, <2>7 DEF AdminOpens
      <4> QED BY <4>3
    <3>4. CASE k # currentKeyId + 1
      <4>1. f.grants[Admin][k] = NoGrant
        BY <2>4, <2>6, <3>1, <3>4, KeyGrantsAssumption DEF FlowReady
      <4>2. k \in 1 .. currentKeyId BY <3>4, <1>l
      <4>3. PICK e \in Device : AdminOpens(e, k) BY <4>2 DEF HeldInv, AdminsOpen
      <4> QED BY <4>1, <4>3, <3>2, <2>6 DEF AdminOpens
    <3> QED BY <3>3, <3>4
  <2> QED BY <2>6, <2>10, <2>11, <2>12 DEF HeldInv
<1>15. ASSUME NEW d \in Device, NEW c \in Caller, Stop(d, c),
              UNCHANGED <<members, publicKey, currentKeyId, grants, account, identity, losses>>
       PROVE  HeldInv'
  <2>1. PICK g : g = Idle OBVIOUS
  <2>2. Step(d, c, g) /\ g.at = "idle" BY <1>15, <2>1, <1>i DEF Stop
  <2>3. FlowReady(d, c, g) BY <2>2, <1>r
  <2> QED BY <1>15, <2>2, <2>3, <1>q
<1>16. ASSUME NEW d \in Device, CacheRoomKey(d) PROVE HeldInv'
  <2>1. PICK g : g = [Idle EXCEPT !.at = "listing"] OBVIOUS
  <2>2. g.at = "listing" BY <2>1, <1>i DEF Flow
  <2>3. Step(d, "enable", g) BY <1>16, <2>1 DEF CacheRoomKey
  <2>4. FlowReady(d, "enable", flow[d]["enable"]) /\ flow[d]["enable"].at = "committed"
    BY <1>16, <1>f, <1>k DEF CacheRoomKey
  <2>5. FlowReady(d, "enable", g) BY <2>2, <2>4 DEF FlowReady
  <2> QED BY <1>16, <1>k, <1>q, <2>3, <2>5 DEF CacheRoomKey
<1>17. ASSUME NEW d \in Device,
              LoseClaim(d) \/ NoRecipients(d) \/ FetchRooms(d)
       PROVE  HeldInv'
  BY <1>17, <1>k, <1>15 DEF LoseClaim, NoRecipients, FetchRooms
<1>18. ASSUME NEW d \in Device, NEW c \in Caller, RequestLost(d, c) PROVE HeldInv'
  BY <1>18, <1>15 DEF RequestLost
<1>19. ASSUME NEW d \in Device, StopAll(d),
              UNCHANGED <<members, publicKey, currentKeyId, grants, account>>,
              \A e \in Device : identity'[e] = identity[e] \/ (e = d /\ identity'[e] = 0),
              UNCHANGED <<identity, losses>> \/ losses' # 0
       PROVE  HeldInv'
  <2>1. ASSUME NEW e \in Device, NEW b \in Caller PROVE FlowReady(e, b, flow[e][b])'
    <3>1. CASE e = d
      <4>1. flow'[e][b] = Idle BY <1>19, <1>t, <3>1 DEF StopAll, TypeOK
      <4> QED BY <4>1, <1>i DEF FlowReady
    <3>2. CASE e # d
      <4>1. flow'[e][b] = flow[e][b] BY <1>19, <1>t, <3>2 DEF StopAll, TypeOK
      <4> QED BY <4>1, <1>19, <3>2, <1>f, ReadyKept
    <3> QED BY <3>1, <3>2
  <2>2. FlowsReady' BY <2>1 DEF FlowsReady
  <2>3. IdentityIsPublished' BY <1>19 DEF HeldInv, IdentityIsPublished
  <2>4. AdminsOpen' BY <1>19 DEF HeldInv, AdminsOpen, AdminOpens
  <2> QED BY <1>19, <2>2, <2>3, <2>4 DEF HeldInv
<1>20. ASSUME NEW d \in Device, AppCrash(d) PROVE HeldInv'
  BY <1>20, <1>19 DEF AppCrash
<1>21. ASSUME NEW d \in Device, Reinstall(d) PROVE HeldInv'
  <2>1. losses' # 0 BY <1>21, <1>l DEF Reinstall
  <2> QED BY <1>21, <2>1, <1>19, <1>t DEF Reinstall, TypeOK
<1>22. ASSUME NEW d \in Device, NEW u \in User, SignIn(d, u) PROVE HeldInv'
  BY <1>22, <1>t DEF SignIn, TypeOK
<1>23. CASE UNCHANGED vars
  BY <1>23, <1>u DEF vars
<1> QED
  BY <1>1, <1>2, <1>3, <1>4, <1>5, <1>6, <1>7, <1>8, <1>9, <1>10, <1>11, <1>12, <1>13, <1>14,
     <1>16, <1>17, <1>18, <1>20, <1>21, <1>22, <1>23 DEF Next

(* With a device for each account that never signs in to another, no epoch *)
(* is ever left without a holder: until a secure store is wiped, the       *)
(* admin's device opens a grant for every epoch reached, whatever requests *)
(* are lost and whoever claims and serves at once (MaxLosses may be > 0:   *)
(* what follows a wipe is not promised).                                   *)
THEOREM NoOrphanEpoch ==
  ASSUME ~ PublishOverlaps, OneDeviceEach, MaxSignIns = 0
  PROVE  Spec => []EpochKeyHeld
<1>1. HeldInv => EpochKeyHeld BY DEF HeldInv, AdminsOpen, AdminOpens, EpochKeyHeld, Opens
<1> QED BY <1>1, StrandInit, StrandStep, HeldInit, HeldStep, PTL DEF Spec
=============================================================================

----------------------------- MODULE KeyGrants ------------------------------
(***************************************************************************)
(* How the keys of one encrypted room reach its members (ADR-010): devices *)
(* publish an identity, an admin claims a key epoch with a grant for every *)
(* member, any member serves the grants that are still pending, and each   *)
(* device unwraps its own.                                                 *)
(*                                                                         *)
(* The app's flows run concurrently on a device, started by three callers: *)
(* "layout" (AuthGate, when there is a token), "room" (useE2eeCipher, when *)
(* an encrypted room is opened) and "enable" (useEnableRoomE2ee).  A flow  *)
(* is a program counter with what it has read so far; an action is what    *)
(* happens between two requests, or the server's side of one.  Nothing in  *)
(* the code keeps two flows from publishing at once; PublishOverlaps is    *)
(* FALSE where a run asks what holds when it happens not to be so.         *)
(*                                                                         *)
(* A key pair is a number, which is also its fingerprint: the hash of a    *)
(* public key identifies it.  A room key is a number.  A grant is the key  *)
(* sealed, with the pair it is sealed to: recipientKeyFp is computed from  *)
(* the very public key used.  0 is null throughout.                        *)
(***************************************************************************)
EXTENDS Integers

CONSTANTS
  Device, User,
  Home,        \* the account each device starts signed in to
  Admin,       \* the room's creator, the only account with role 'admin'
  PublishOverlaps, \* whether two flows of a device may publish at once
  MaxEpoch,    \* bound: epochs claimed
  MaxKeys,     \* bound: room keys minted
  MaxPairs,    \* bound: key pairs generated
  MaxFailures, \* bound: requests lost, and app crashes
  MaxLosses,   \* bound: reinstalls
  MaxSignIns   \* bound: sign-ins to another account

ASSUME KeyGrantsAssumption ==
  /\ {MaxEpoch, MaxKeys, MaxPairs, MaxFailures, MaxLosses, MaxSignIns} \subseteq Nat
  /\ Home \in [Device -> User]
  /\ Admin \in User
  /\ PublishOverlaps \in BOOLEAN

Caller == {"layout", "room", "enable"}

Epoch == 1 .. MaxEpoch
Pair  == 0 .. MaxPairs
Key   == 0 .. MaxKeys

(* The row of RoomKeyGrant for a member and an epoch. *)
Grant   == [key : Key, to : Pair]
NoGrant == [key |-> 0, to |-> 0]
Grants  == [User -> [Epoch -> Grant]]
NoRow   == [k \in Epoch |-> NoGrant]
NoGrants == [u \in User |-> NoRow]

VARIABLES
  members,       \* RoomMember rows
  publicKey,     \* User.publicKey
  currentKeyId,  \* Room.currentKeyId
  grants,        \* RoomKeyGrant rows
  account,       \* whom each device is signed in as
  identity,      \* the key pair in each device's secure store
  roomKey,       \* the room keys in each device's secure store, by epoch
  cipher,        \* the epochs whose key the room screen's cipher holds
  flow,          \* each device's flows, by caller
  roomsList,     \* the epoch each device's rooms list shows
  \* history
  claimed,       \* the key each epoch was claimed with
  pairs, keys, failures, losses, signIns   \* bounded by the Max constants

serverVars == <<members, publicKey, currentKeyId, grants, claimed>>
deviceVars == <<account, identity, roomKey, cipher, roomsList>>
counters   == <<pairs, keys, failures, losses, signIns>>
vars       == <<serverVars, deviceVars, flow, counters>>

-----------------------------------------------------------------------------
(* A flow's place, the pair and the key it works with, the epoch it has    *)
(* read, and the public keys and the grants it has in hand.                *)
Place == {"idle", "put", "published",            \* ensureIdentityPublished
          "asked", "granted",                    \* fetchAndLoadMyGrants
          "serve", "pending", "wrapped",         \* servePendingGrants
          "members", "claim", "committed",       \* enableOrRotateRoomKey
          "listing"}                             \* fetchRooms, after it
Flow == [at : Place, pair : Pair, key : Key, epoch : 0 .. MaxEpoch,
         to : [User -> Pair], grants : Grants]
Idle == [at |-> "idle", pair |-> 0, key |-> 0, epoch |-> 0,
         to |-> [u \in User |-> 0], grants |-> NoGrants]

Step(d, c, f) == flow' = [flow EXCEPT ![d][c] = f]
Stop(d, c)    == Step(d, c, Idle)
StopAll(d)    == flow' = [flow EXCEPT ![d] = [c \in Caller |-> Idle]]

Publishing(d, c) == flow[d][c].at \in {"put", "published"}

(* What a flow goes on to once its device has an identity. *)
Onward(c, pair, epoch) ==
  CASE c = "layout" -> Idle
    [] c = "room"   -> [Idle EXCEPT !.at = "asked", !.pair = pair]
    [] c = "enable" -> [Idle EXCEPT !.at = "members", !.epoch = epoch]

Seal(key, pair) == [key |-> key, to |-> pair]
(* The members' published public keys; 0 for whoever has none. *)
MemberKeys == [u \in User |-> IF u \in members THEN publicKey[u] ELSE 0]

(* Mutant: a row counts as a grant, whatever it is sealed to. *)
PendingIfAbsent(to, reached, rows, u, k) == to[u] # 0 /\ k <= reached /\ rows[u][k] = NoGrant

(* What getPending offers: no row that is sealed to the member's key. *)
Pending(to, reached, rows, u, k) == to[u] # 0 /\ k <= reached /\ rows[u][k].to # to[u]

(* servePendingGrants: this device's keys sealed to the pending members. *)
Wrap(d, to, reached, rows) ==
  [u \in User |-> [k \in Epoch |->
     IF Pending(to, reached, rows, u, k) /\ roomKey[d][k] # 0
     THEN Seal(roomKey[d][k], to[u]) ELSE NoGrant]]

(* Mutant: the claimer, who has the key, wraps it for the others only. *)
WrapOthers(key, epoch, to) ==
  [u \in User |-> [k \in Epoch |->
     IF k = epoch /\ to[u] # 0 /\ u # Admin THEN Seal(key, to[u]) ELSE NoGrant]]

(* A new key sealed to every member that has published one. *)
WrapAll(key, epoch, to) ==
  [u \in User |-> [k \in Epoch |->
     IF k = epoch /\ to[u] # 0 THEN Seal(key, to[u]) ELSE NoGrant]]

Upserted(uploaded) ==
  [u \in User |-> [k \in Epoch |->
     IF uploaded[u][k] # NoGrant THEN uploaded[u][k] ELSE grants[u][k]]]

(* fetchAndLoadMyGrants: a key already in the store wins over the row; a   *)
(* row sealed to another pair does not open and is passed over.            *)
Unwrapped(d, pair, rows) ==
  [k \in Epoch |->
     IF roomKey[d][k] = 0 /\ rows[account[d]][k].to = pair
     THEN rows[account[d]][k].key ELSE roomKey[d][k]]
Loaded(d, rows, unwrapped) ==
  {k \in Epoch : rows[account[d]][k] # NoGrant /\ unwrapped[k] # 0}

-----------------------------------------------------------------------------
Init ==
  /\ members = {Admin}
  /\ publicKey = [u \in User |-> 0]
  /\ currentKeyId = 0
  /\ grants = NoGrants
  /\ account = Home
  /\ identity = [d \in Device |-> 0]
  /\ roomKey = [d \in Device |-> [k \in Epoch |-> 0]]
  /\ cipher = [d \in Device |-> {}]
  /\ flow = [d \in Device |-> [c \in Caller |-> Idle]]
  /\ roomsList = [d \in Device |-> 0]
  /\ claimed = [k \in Epoch |-> 0]
  /\ pairs = 0 /\ keys = 0 /\ failures = 0 /\ losses = 0 /\ signIns = 0

(* POST /rooms/:name/join *)
JoinRoom(u) ==
  /\ u \notin members
  /\ members' = members \union {u}
  /\ UNCHANGED <<publicKey, currentKeyId, grants, claimed, deviceVars, flow, counters>>

(* The rooms list is fetched, or an epoch event reaches the device. *)
LearnEpoch(d) ==
  /\ account[d] \in members
  /\ roomsList[d] # currentKeyId
  /\ roomsList' = [roomsList EXCEPT ![d] = currentKeyId]
  /\ UNCHANGED <<serverVars, account, identity, roomKey, cipher, flow, counters>>

-----------------------------------------------------------------------------
(* ensureIdentityPublished.  A device that has an identity goes on; one    *)
(* that has none generates a pair and sends it.                            *)
EnsureIdentity(d, c, epoch) ==
  /\ flow[d][c] = Idle
  /\ \/ /\ identity[d] # 0
        /\ Step(d, c, Onward(c, identity[d], epoch))
        /\ UNCHANGED pairs
     \/ /\ identity[d] = 0
        /\ PublishOverlaps \/ \A other \in Caller : ~ Publishing(d, other)
        /\ pairs < MaxPairs
        /\ pairs' = pairs + 1
        /\ Step(d, c, [Idle EXCEPT !.at = "put", !.pair = pairs', !.epoch = epoch])
  /\ UNCHANGED <<keys, failures, losses, signIns>>

StartLayout(d) ==
  /\ identity[d] = 0
  /\ EnsureIdentity(d, "layout", 0)
  /\ UNCHANGED <<serverVars, deviceVars>>

(* The room's screen is opened, or the epoch it shows changes: a new       *)
(* cipher, or the one it has.                                              *)
StartRoom(d) ==
  /\ account[d] \in members
  /\ roomsList[d] > 0
  /\ EnsureIdentity(d, "room", 0)
  /\ \E kept \in {{}, cipher[d]} : cipher' = [cipher EXCEPT ![d] = kept]
  /\ UNCHANGED <<serverVars, account, identity, roomKey, roomsList>>

(* EnableEncryptionBanner is an admin's; its button is off while it enables. *)
BannerPressed(d) == account[d] = Admin /\ flow[d]["enable"] = Idle

(* The admin enables encryption, or rotates the key. *)
StartEnable(d) ==
  /\ BannerPressed(d)
  /\ roomsList[d] < MaxEpoch
  /\ keys < MaxKeys
  /\ EnsureIdentity(d, "enable", roomsList[d])
  /\ UNCHANGED <<serverVars, deviceVars>>

(* UsersService.setPublicKey: every grant the user held is deleted. *)
PutLands(d, c) ==
  /\ flow[d][c].at = "put"
  /\ publicKey' = [publicKey EXCEPT ![account[d]] = flow[d][c].pair]
  /\ grants' = [grants EXCEPT ![account[d]] = NoRow]
  /\ Step(d, c, [flow[d][c] EXCEPT !.at = "published"])
  /\ UNCHANGED <<members, currentKeyId, claimed, deviceVars, counters>>

(* Only now is the pair kept on the device. *)
SetIdentity(d, c) ==
  /\ flow[d][c].at = "published"
  /\ identity' = [identity EXCEPT ![d] = flow[d][c].pair]
  /\ Step(d, c, Onward(c, flow[d][c].pair, flow[d][c].epoch))
  /\ UNCHANGED <<serverVars, account, roomKey, cipher, roomsList, counters>>

-----------------------------------------------------------------------------
(* GET /rooms/:id/keys, after the identity was read. *)
GetMyGrants(d) ==
  /\ flow[d]["room"].at = "asked"
  /\ Step(d, "room", [flow[d]["room"] EXCEPT !.at = "granted", !.grants = grants])
  /\ UNCHANGED <<serverVars, deviceVars, counters>>

LoadMyGrants(d) ==
  LET rows == flow[d]["room"].grants
      unwrapped == Unwrapped(d, flow[d]["room"].pair, rows) IN
  /\ flow[d]["room"].at = "granted"
  /\ roomKey' = [roomKey EXCEPT ![d] = unwrapped]
  /\ cipher' = [cipher EXCEPT ![d] = @ \union Loaded(d, rows, unwrapped)]
  /\ Step(d, "room", [Idle EXCEPT !.at = "serve"])
  /\ UNCHANGED <<serverVars, account, identity, roomsList, counters>>

(* getPending reads the epoch and the members, then the grants. *)
GetPending(d) ==
  /\ flow[d]["room"].at = "serve"
  /\ Step(d, "room", [Idle EXCEPT !.at = "pending", !.epoch = currentKeyId, !.to = MemberKeys])
  /\ UNCHANGED <<serverVars, deviceVars, counters>>

WrapPending(d) ==
  LET f == flow[d]["room"]
      uploads == Wrap(d, f.to, f.epoch, grants) IN
  /\ f.at = "pending"
  /\ Step(d, "room", IF uploads = NoGrants THEN Idle
                     ELSE [Idle EXCEPT !.at = "wrapped", !.grants = uploads])
  /\ UNCHANGED <<serverVars, deviceVars, counters>>

(* uploadGrants without a claim: no admin, and no epoch to come. *)
UploadGrants(d) ==
  LET uploads == flow[d]["room"].grants IN
  /\ flow[d]["room"].at = "wrapped"
  /\ grants' = Upserted(uploads)
  /\ Stop(d, "room")
  /\ UNCHANGED <<members, publicKey, currentKeyId, claimed, deviceVars, counters>>

-----------------------------------------------------------------------------
(* GET /rooms/:id/keys/members answers with nobody: an identity published  *)
(* for another account is no key of this one.                              *)
NobodyPublished == \A u \in members : publicKey[u] = 0

NoRecipients(d) ==
  /\ flow[d]["enable"].at = "members"
  /\ NobodyPublished
  /\ Stop(d, "enable")
  /\ UNCHANGED <<serverVars, deviceVars, counters>>

(* It answers with members, and a new key is wrapped for each of them. *)
MintKey(d) ==
  LET expected == flow[d]["enable"].epoch IN
  /\ flow[d]["enable"].at = "members"
  /\ ~ NobodyPublished
  /\ keys < MaxKeys
  /\ keys' = keys + 1
  /\ Step(d, "enable", [Idle EXCEPT !.at = "claim", !.key = keys', !.epoch = expected,
                          !.grants = WrapAll(keys', expected + 1, MemberKeys)])
  /\ UNCHANGED <<serverVars, deviceVars, pairs, failures, losses, signIns>>

(* uploadGrants with a claim: increment and upsert in one transaction, if  *)
(* the epoch is still the one expected.                                    *)
WinsAlways(f) == currentKeyId >= f.epoch  \* Mutant: the increment is unconditional
Wins(f) == currentKeyId = f.epoch

ClaimEpoch(d) ==
  LET f == flow[d]["enable"] IN
  /\ f.at = "claim"
  /\ Wins(f)
  /\ currentKeyId' = currentKeyId + 1
  /\ grants' = Upserted(f.grants)
  /\ claimed' = [claimed EXCEPT ![f.epoch + 1] = f.key]
  /\ Step(d, "enable", [f EXCEPT !.at = "committed"])
  /\ UNCHANGED <<members, publicKey, deviceVars, counters>>

(* Mutant: the key is cached before the claim is answered. *)
LoseClaimCached(d) ==
  LET f == flow[d]["enable"] IN
  /\ f.at = "claim"
  /\ ~ Wins(f)
  /\ roomKey' = [roomKey EXCEPT ![d][f.epoch + 1] = f.key]
  /\ Stop(d, "enable")
  /\ UNCHANGED <<serverVars, account, identity, cipher, roomsList, counters>>

(* ConflictException: another claim was first. *)
LoseClaim(d) ==
  /\ flow[d]["enable"].at = "claim"
  /\ ~ Wins(flow[d]["enable"])
  /\ Stop(d, "enable")
  /\ UNCHANGED <<serverVars, deviceVars, counters>>

(* cacheRoomKey. *)
CacheRoomKey(d) ==
  LET f == flow[d]["enable"] IN
  /\ f.at = "committed"
  /\ roomKey' = [roomKey EXCEPT ![d][f.epoch + 1] = f.key]
  /\ Step(d, "enable", [Idle EXCEPT !.at = "listing"])
  /\ UNCHANGED <<serverVars, account, identity, cipher, roomsList, counters>>

(* fetchRooms, which does nothing while another fetch is under way. *)
FetchRooms(d) ==
  /\ flow[d]["enable"].at = "listing"
  /\ \E shown \in {roomsList[d], currentKeyId} : roomsList' = [roomsList EXCEPT ![d] = shown]
  /\ Stop(d, "enable")
  /\ UNCHANGED <<serverVars, account, identity, roomKey, cipher, counters>>

-----------------------------------------------------------------------------
(* Mutant: the pair is persisted before it is published. *)
RequestLostPersisted(d, c) ==
  /\ failures < MaxFailures
  /\ flow[d][c] # Idle
  /\ failures' = failures + 1
  /\ identity' = [identity EXCEPT ![d] = IF flow[d][c].at = "put" THEN flow[d][c].pair ELSE @]
  /\ Stop(d, c)
  /\ UNCHANGED <<serverVars, account, roomKey, cipher, roomsList, pairs, keys, losses, signIns>>

(* A request, or its answer, is lost: the flow's exception ends it. *)
RequestLost(d, c) ==
  /\ failures < MaxFailures
  /\ flow[d][c] # Idle
  /\ failures' = failures + 1
  /\ Stop(d, c)
  /\ UNCHANGED <<serverVars, deviceVars, pairs, keys, losses, signIns>>

(* The app is killed: its flows and the screen's cipher go. *)
AppCrash(d) ==
  /\ failures < MaxFailures
  /\ failures' = failures + 1
  /\ StopAll(d)
  /\ cipher' = [cipher EXCEPT ![d] = {}]
  /\ UNCHANGED <<serverVars, account, identity, roomKey, roomsList, pairs, keys, losses, signIns>>

(* The app is reinstalled: the secure store is gone too. *)
Reinstall(d) ==
  /\ losses < MaxLosses
  /\ losses' = losses + 1
  /\ StopAll(d)
  /\ identity' = [identity EXCEPT ![d] = 0]
  /\ roomKey' = [roomKey EXCEPT ![d] = [k \in Epoch |-> 0]]
  /\ cipher' = [cipher EXCEPT ![d] = {}]
  /\ roomsList' = [roomsList EXCEPT ![d] = 0]
  /\ UNCHANGED <<serverVars, account, pairs, keys, failures, signIns>>

(* Log out and log in as somebody else, in an app opened afresh.  The      *)
(* secure store is the device's, and nothing clears it.                    *)
SignIn(d, u) ==
  /\ signIns < MaxSignIns
  /\ u # account[d]
  /\ signIns' = signIns + 1
  /\ account' = [account EXCEPT ![d] = u]
  /\ StopAll(d)
  /\ cipher' = [cipher EXCEPT ![d] = {}]
  /\ roomsList' = [roomsList EXCEPT ![d] = 0]
  /\ UNCHANGED <<serverVars, identity, roomKey, pairs, keys, failures, losses>>

Next ==
  \/ \E u \in User : JoinRoom(u)
  \/ \E d \in Device :
       \/ LearnEpoch(d)
       \/ StartLayout(d)
       \/ StartRoom(d)
       \/ StartEnable(d)
       \/ GetMyGrants(d)
       \/ LoadMyGrants(d)
       \/ GetPending(d)
       \/ WrapPending(d)
       \/ UploadGrants(d)
       \/ NoRecipients(d)
       \/ MintKey(d)
       \/ ClaimEpoch(d)
       \/ LoseClaim(d)
       \/ CacheRoomKey(d)
       \/ FetchRooms(d)
       \/ AppCrash(d)
       \/ Reinstall(d)
  \/ \E d \in Device, c \in Caller : PutLands(d, c) \/ SetIdentity(d, c) \/ RequestLost(d, c)
  \/ \E d \in Device, u \in User : SignIn(d, u)

Spec == Init /\ [][Next]_vars

(* Requests are answered and the flows go on.  A member hears of the epoch *)
(* and opens the room again and again: the app serves and loads grants at  *)
(* no other time.  Nobody need join, enable or rotate.                     *)
Fairness ==
  /\ \A d \in Device :
       /\ WF_vars(LearnEpoch(d)) /\ WF_vars(StartRoom(d))
       /\ WF_vars(GetMyGrants(d)) /\ WF_vars(LoadMyGrants(d))
       /\ WF_vars(GetPending(d)) /\ WF_vars(WrapPending(d)) /\ WF_vars(UploadGrants(d))
       /\ WF_vars(NoRecipients(d) \/ MintKey(d)) /\ WF_vars(ClaimEpoch(d) \/ LoseClaim(d))
       /\ WF_vars(CacheRoomKey(d)) /\ WF_vars(FetchRooms(d))
  /\ \A d \in Device, c \in Caller : WF_vars(PutLands(d, c) \/ SetIdentity(d, c))
FairSpec == Spec /\ Fairness

-----------------------------------------------------------------------------
(* Every variable holds the kind of value the code gives it.               *)
TypeOK ==
  /\ members \subseteq User
  /\ publicKey \in [User -> Pair]
  /\ currentKeyId \in 0 .. MaxEpoch
  /\ grants \in Grants
  /\ account \in [Device -> User]
  /\ identity \in [Device -> Pair]
  /\ roomKey \in [Device -> [Epoch -> Key]]
  /\ cipher \in [Device -> SUBSET Epoch]
  /\ flow \in [Device -> [Caller -> Flow]]
  /\ roomsList \in [Device -> 0 .. MaxEpoch]
  /\ claimed \in [Epoch -> Key]
  /\ pairs \in Pair /\ keys \in Key
  /\ failures \in 0 .. MaxFailures
  /\ losses \in 0 .. MaxLosses
  /\ signIns \in 0 .. MaxSignIns

(* An epoch has one key: whatever races it was claimed in, every device    *)
(* that holds a key for it and every grant on the server carry the one it  *)
(* was claimed with, so no two members ever encrypt under different keys   *)
(* (uploadGrants' conditional increment, cacheRoomKey after the claim).    *)
OneKeyPerEpoch ==
  \A k \in Epoch :
    /\ \A d \in Device : roomKey[d][k] \in {0, claimed[k]}
    /\ \A u \in User : grants[u][k].key \in {0, claimed[k]}

(* No orphan epoch: as long as no secure store is wiped, some device holds *)
(* the key of every epoch reached, or can open a grant with it (ADR-010,   *)
(* Rotation authority).                                                    *)
Opens(d, k) == identity[d] # 0 /\ grants[account[d]][k].to = identity[d]
EpochKeyHeld ==
  losses = 0 => \A k \in 1 .. currentKeyId : \E d \in Device : roomKey[d][k] # 0 \/ Opens(d, k)

(* No account is stranded, as long as no device changes accounts: the      *)
(* public key others seal grants to belongs to a device of the account, or *)
(* one of its devices will publish another (ensureIdentityPublished:       *)
(* publish, then persist).                                                 *)
NotStranded ==
  signIns = 0 => \A u \in User : publicKey[u] # 0 =>
    \E d \in Device :
      /\ account[d] = u
      /\ identity[d] \in {0, publicKey[u]} \/ \E c \in Caller : Publishing(d, c)

(* A device that has an identity and is not publishing has that identity   *)
(* published for its account (ensureIdentityPublished).                    *)
IdentityPublished ==
  \A d \in Device :
    identity[d] # 0 /\ (\A c \in Caller : ~ Publishing(d, c)) =>
      publicKey[account[d]] = identity[d]

(* The grants that publishing a key deletes are sealed to a private key    *)
(* that no device has any more (UsersService.setPublicKey).                *)
DeletedAreDead ==
  [][\A u \in User, k \in Epoch :
       grants[u][k] # NoGrant /\ grants'[u][k] = NoGrant =>
         \A d \in Device : identity[d] # grants[u][k].to]_vars

(* Every member's device gets the key of every epoch into its cipher, as   *)
(* long as somebody holds it: after a reinstall, a crash, a lost request,  *)
(* or a grant sealed to a key that was replaced while it was under way.    *)
Held(k) == \E d \in Device : roomKey[d][k] # 0
Served ==
  \A d \in Device, k \in Epoch :
    account[d] \in members /\ Held(k) ~> k \in cipher[d] \/ ~ Held(k)
=============================================================================

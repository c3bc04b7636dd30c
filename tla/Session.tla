------------------------------- MODULE Session -------------------------------
(***************************************************************************)
(* One device's session: signing in and out (auth store, AuthGate), the    *)
(* token in SecureStore, joining one room over REST, and the connection of *)
(* its screen, from the token's verification to the reconnects and the     *)
(* codes the gateway closes with.                                          *)
(*                                                                         *)
(* The room is not 'default'.  SecureStore runs the calls it is given one  *)
(* after another.  A frame is the set of messages it carries, none for a   *)
(* step1 or an awareness frame.  RoomSync says what a document does with   *)
(* updates; here a message is typed, queued, under way or on the server,   *)
(* and the local document keeps it (DeviceStore).                          *)
(***************************************************************************)
EXTENDS Naturals, Sequences, FiniteSets

CONSTANTS
  Accounts,
  Msgs,         \* the messages that may be typed
  Author,       \* the account that may type each
  FrameLimit,   \* MAX_WS_MESSAGE_BYTES, in messages
  RateLimit,    \* RATE_LIMIT_MAX_MSGS
  MaxTokens,  \* bound: tokens issued
  MaxJobs,    \* bound: SecureStore calls under way when a sign-in or sign-out begins one
  MaxFaults,  \* bound: calls and sockets that fail, kills of the app, crashes of the server
  MaxWindows  \* bound: windows of the limiter, beyond which no message is typed

ASSUME SessionAssumption ==
  /\ Author \in [Msgs -> Accounts]
  /\ {FrameLimit, RateLimit, MaxTokens, MaxJobs, MaxFaults, MaxWindows} \subseteq Nat

VARIABLES
  \* the device's store and screens
  loading,     \* isLoading: the stored token has not been read yet
  mem,         \* the token of the auth store, or NoToken
  stored,      \* the token in SecureStore, or NoToken
  jobs,        \* the SecureStore calls under way
  asks,        \* the login and register requests under way
  screen,      \* the route group shown: "auth" or "chat"
  open,        \* the room's screen is mounted
  refused,     \* its membership is 'not-a-member'
  \* the connection
  sock,        \* of the screen's provider, see Phases
  code,        \* what the server closed it with
  queue,       \* pendingUpdates
  up,          \* the frames under way to the server
  asked,       \* the server's step1 is under way, or has not been answered
  count,       \* of the limiter's window
  \* the server
  users, valid, owner,    \* accounts; tokens it accepts, and whose they are
  rows, admins, members,  \* the room exists; who administers it; who may enter
  server,      \* the messages it holds
  \* history
  typed,
  failed,      \* SecureStore calls that failed: a deletion, a read no later call has made good
  faults, windows

deviceVars == <<loading, mem, stored, jobs, asks, screen>>
roomVars   == <<open, refused>>
sockVars   == <<sock, code, queue, up, asked, count>>
authVars   == <<users, valid, owner>>
memberVars == <<rows, admins, members>>
vars == <<deviceVars, roomVars, sockVars, authVars, memberVars, server,
          typed, failed, faults, windows>>

NoToken == 0
Tokens  == 1..MaxTokens
Issued  == DOMAIN owner
Kinds   == {"login", "register"}
Phases  == {"off", "waiting", "connecting", "open", "verified", "joined", "closed", "stopped"}
Codes   == {0, 1009, 4001, 4003, 4029}

\* Who is signed in, for a token in memory.
Me == owner[mem]
SignedIn == mem # NoToken

Init ==
  /\ loading = TRUE /\ mem = NoToken /\ stored = NoToken /\ jobs = <<[op |-> "get", token |-> NoToken]>>
  /\ asks = {} /\ screen = "auth"
  /\ open = FALSE /\ refused = FALSE
  /\ sock = "off" /\ code = 0 /\ queue = {} /\ up = <<>> /\ asked = FALSE /\ count = 0
  /\ users \in SUBSET Accounts /\ valid = {} /\ owner = <<>>
  /\ rows \in BOOLEAN /\ admins = {} /\ members = {}
  /\ server = {} /\ typed = {} /\ failed = {} /\ faults = 0 /\ windows = 0

Fault == faults < MaxFaults /\ faults' = faults + 1

-----------------------------------------------------------------------------
(* The connection as useSync keeps it: a provider for the token in memory,  *)
(* torn down and built anew whenever that changes.                          *)

Provider(phase) ==
  /\ sock' = phase /\ code' = 0
  /\ queue' = {} /\ up' = <<>> /\ asked' = FALSE /\ count' = 0

\* Mutant: a token connects, whether or not the room is open.
SetTokenConnects(t) ==
  /\ mem' = t
  /\ Provider(IF t # NoToken THEN "connecting" ELSE "off")

\* The token in memory becomes t.
SetToken(t) ==
  /\ mem' = t
  /\ Provider(IF open /\ t # NoToken THEN "connecting" ELSE "off")

-----------------------------------------------------------------------------
(* Signing in and out.                                                      *)

\* The auth store's request, one of its kind for whom it is for.
Submit(kind, a) ==
  /\ screen = "auth"
  /\ asks' = asks \cup {[kind |-> kind, who |-> a]}
  /\ UNCHANGED <<loading, mem, stored, jobs, screen, roomVars, sockVars, authVars, memberVars,
                 server, typed, failed, faults, windows>>

\* Not while its own request is under way.
HandleLogin(a) ==
  /\ \A ask \in asks : ask.kind # "login"
  /\ Submit("login", a)

\* Nothing keeps it from being pressed again; a second request for the same
\* account would only be refused.
HandleRegister(a) ==
  /\ [kind |-> "register", who |-> a] \notin asks
  /\ Submit("register", a)

\* AuthService.login and register; a token is stored before it is used.
Answered(ask) ==
  /\ Len(owner) < MaxTokens /\ Len(jobs) < MaxJobs
  /\ asks' = asks \ {ask}
  /\ IF (ask.kind = "login") = (ask.who \in users)
     THEN /\ users' = users \cup {ask.who}
          /\ owner' = Append(owner, ask.who)
          /\ valid' = valid \cup {Len(owner) + 1}
          /\ jobs' = Append(jobs, [op |-> "set", token |-> Len(owner) + 1])
     ELSE UNCHANGED <<jobs, authVars>>
  /\ UNCHANGED <<loading, mem, stored, screen, roomVars, sockVars, memberVars, server, typed,
                 failed, faults, windows>>

\* The request or its answer is lost; a registration may have been made.
AskLost(ask) ==
  /\ Fault
  /\ asks' = asks \ {ask}
  /\ \/ UNCHANGED users
     \/ ask.kind = "register" /\ users' = users \cup {ask.who}
  /\ UNCHANGED <<loading, mem, stored, jobs, screen, roomVars, sockVars, valid, owner,
                 memberVars, server, typed, failed, windows>>

\* Mutant: the store is cleared before the call that deletes the token.
ForgottenAtOnce(t) == NoToken

\* What logout() leaves in memory until the deletion is through.
KeptMeanwhile(t) == t

\* The account sheet's logout.
Logout ==
  /\ screen = "chat" /\ SignedIn /\ Len(jobs) < MaxJobs
  /\ jobs' = Append(jobs, [op |-> "del", token |-> NoToken])
  /\ IF KeptMeanwhile(mem) = mem THEN UNCHANGED <<mem, sockVars>> ELSE SetToken(NoToken)
  /\ UNCHANGED <<loading, stored, asks, screen, roomVars, authVars, memberVars, server, typed,
                 failed, faults, windows>>

\* A SecureStore call is through and what awaited it goes on: loadFromStorage,
\* login or register, logout.
JobLands ==
  /\ jobs # <<>>
  /\ jobs' = Tail(jobs)
  /\ LET job == Head(jobs) IN
     CASE job.op = "get" -> /\ loading' = FALSE
                            /\ UNCHANGED <<stored, failed>>
                            /\ IF stored = NoToken THEN UNCHANGED <<mem, sockVars>>
                                                   ELSE SetToken(stored)
       [] OTHER          -> /\ loading' = loading
                            /\ stored' = job.token
                            /\ failed' = failed \ {"get"}
                            /\ SetToken(job.token)
  /\ UNCHANGED <<asks, screen, roomVars, authVars, memberVars, server, typed, faults, windows>>

\* It throws: the token stays what it was, in memory and in the store.
JobFails ==
  /\ jobs # <<>> /\ Fault
  /\ jobs' = Tail(jobs)
  /\ loading' = (loading /\ Head(jobs).op # "get")
  /\ failed' = failed \cup ({Head(jobs).op} \ {"set"})
  /\ UNCHANGED <<mem, stored, asks, screen, roomVars, sockVars, authVars, memberVars, server,
                 typed, windows>>

\* AuthGate; leaving the (chat) group unmounts its screens.
Redirect ==
  /\ ~loading
  /\ screen # (IF SignedIn THEN "chat" ELSE "auth")
  /\ screen' = IF SignedIn THEN "chat" ELSE "auth"
  /\ open' = FALSE /\ refused' = FALSE
  /\ Provider("off")
  /\ UNCHANGED <<loading, mem, stored, jobs, asks, authVars, memberVars, server, typed,
                 failed, faults, windows>>

\* The app is killed and started again: calls under way may not have landed.
Kill ==
  /\ Fault
  /\ loading' = TRUE /\ mem' = NoToken
  /\ jobs' = <<[op |-> "get", token |-> NoToken]>> /\ asks' = {} /\ screen' = "auth"
  /\ open' = FALSE /\ refused' = FALSE
  /\ Provider("off")
  /\ failed' = failed \ {"get"}
  /\ UNCHANGED <<stored, authVars, memberVars, server, typed, windows>>

\* expiresIn.
Expire(t) ==
  /\ t \in valid
  /\ valid' = valid \ {t}
  /\ UNCHANGED <<deviceVars, roomVars, sockVars, users, owner, memberVars, server, typed, failed,
                 faults, windows>>

-----------------------------------------------------------------------------
(* Rooms over REST: RoomsScreen, rooms store, RoomsService.                 *)

\* Mutant: every navigation pushes another screen, and with it a provider.
NeverSingular == FALSE

\* dangerouslySingular: a room's screen that is in the stack is shown again.
Singular == open

\* openRoom.
Opened ==
  /\ open' = TRUE
  /\ IF Singular THEN UNCHANGED <<refused, sockVars>>
                 ELSE refused' = FALSE /\ Provider("connecting")

\* RoomsController behind JwtAuthGuard.
Authorized == mem \in valid

\* The rooms screen's handleCreate and handleJoin: a create needs that there is
\* no such room, a join that there is.
Asks(what) ==
  /\ screen = "chat" /\ SignedIn /\ Authorized
  /\ rows = (what = "join")

CreateRoom ==
  /\ Asks("create")
  /\ rows' = TRUE /\ members' = members \cup {Me} /\ admins' = admins \cup {Me}
  /\ Opened
  /\ UNCHANGED <<deviceVars, authVars, server, typed, failed, faults, windows>>

JoinRoom ==
  /\ Asks("join")
  /\ members' = members \cup {Me}
  /\ Opened
  /\ UNCHANGED <<deviceVars, rows, admins, authVars, server, typed, failed, faults, windows>>

\* Its answer is lost, or the server dies between its two writes: an error is
\* shown, and the room not opened.
CreateLost ==
  /\ Asks("create") /\ Fault
  /\ rows' = TRUE
  /\ \/ UNCHANGED <<admins, members>>
     \/ members' = members \cup {Me} /\ admins' = admins \cup {Me}
  /\ UNCHANGED <<deviceVars, roomVars, sockVars, authVars, server, typed, failed, windows>>

JoinLost ==
  /\ Asks("join") /\ Fault
  /\ members' = members \cup {Me}
  /\ UNCHANGED <<deviceVars, roomVars, sockVars, rows, admins, authVars, server, typed, failed,
                 windows>>

\* A row of the list, which may be another account's, or the screen's own path.
OpenRoom ==
  /\ screen = "chat" /\ SignedIn /\ ~open
  /\ Opened
  /\ UNCHANGED <<deviceVars, authVars, memberVars, server, typed, failed, faults, windows>>

CloseRoom ==
  /\ open
  /\ open' = FALSE /\ refused' = FALSE
  /\ Provider("off")
  /\ UNCHANGED <<deviceVars, authVars, memberVars, server, typed, failed, faults, windows>>

-----------------------------------------------------------------------------
(* The provider and the gateway.                                            *)

\* What the device sends of a message typed now.
Type(m) ==
  /\ open /\ SignedIn /\ ~refused /\ Me = Author[m] /\ m \notin typed
  /\ windows < MaxWindows
  /\ typed' = typed \cup {m}
  /\ IF sock \in {"open", "verified", "joined", "closed"}
     THEN up' = Append(up, {m}) /\ queue' = queue
     ELSE up' = up /\ queue' = queue \cup {m}
  /\ UNCHANGED <<deviceVars, roomVars, sock, code, asked, count, authVars, memberVars, server,
                 failed, faults, windows>>

\* The queued updates, a frame each.
Flushed == LET n == Cardinality(queue)
           IN  CHOOSE s \in [1..n -> {{m} : m \in queue}] : \A m \in queue : \E i \in 1..n : s[i] = {m}

\* onopen: step1, the queue, the own presence.
SocketOpens ==
  /\ sock = "connecting"
  /\ sock' = "open"
  /\ up' = <<{}>> \o Flushed \o <<{}>>
  /\ queue' = {}
  /\ UNCHANGED <<deviceVars, roomVars, code, asked, count, authVars, memberVars, server, typed,
                 failed, faults, windows>>

Closes(why) == sock' = "closed" /\ code' = why /\ up' = <<>> /\ UNCHANGED <<queue, asked, count>>

\* handleConnection: the token is verified, then membership.
Verify ==
  /\ sock = "open"
  /\ IF mem \in valid THEN sock' = "verified" /\ UNCHANGED <<code, queue, up, asked, count>>
                      ELSE Closes(4001)
  /\ UNCHANGED <<deviceVars, roomVars, authVars, memberVars, server, typed, failed, faults, windows>>

\* Mutant: the server does not ask the newcomer for its state.
NotAsked == FALSE

\* handleConnection sends its step1.
AsksForState == TRUE

\* RoomsService.isMember.
IsMember == Me \in members

\* The awaits are over; the listener is attached, and the frames that came
\* before it are gone.
Admit ==
  /\ sock = "verified"
  /\ IF IsMember
     THEN /\ sock' = "joined" /\ asked' = AsksForState /\ count' = 0
          /\ \E n \in 0..Len(up) : up' = SubSeq(up, n + 1, Len(up))
          /\ UNCHANGED <<code, queue>>
     ELSE Closes(4003)
  /\ UNCHANGED <<deviceVars, roomVars, authVars, memberVars, server, typed, failed, faults, windows>>

\* The provider answers the server's step1 with all the server lacks.
AnswerStep1 ==
  /\ sock = "joined" /\ asked
  /\ asked' = FALSE
  /\ up' = Append(up, {m \in typed : Author[m] = Me} \ server)
  /\ UNCHANGED <<deviceVars, roomVars, sock, code, queue, count, authVars, memberVars, server,
                 typed, failed, faults, windows>>

\* handleMessage: the size first, then the rate.
Receive ==
  /\ sock = "joined" /\ up # <<>>
  /\ LET frame == Head(up) IN
     IF Cardinality(frame) > FrameLimit THEN Closes(1009) /\ server' = server
     ELSE IF count >= RateLimit THEN Closes(4029) /\ server' = server
     ELSE /\ count' = count + 1 /\ server' = server \cup frame /\ up' = Tail(up)
          /\ UNCHANGED <<sock, code, queue, asked>>
  /\ UNCHANGED <<deviceVars, roomVars, authVars, memberVars, typed, failed, faults, windows>>

\* RATE_LIMIT_WINDOW_MS are over.
WindowOver ==
  /\ count > 0 /\ windows < MaxWindows
  /\ windows' = windows + 1
  /\ count' = 0
  /\ UNCHANGED <<deviceVars, roomVars, sock, code, queue, up, asked, authVars, memberVars, server,
                 typed, failed, faults>>

\* The socket breaks, in either direction and with what was under way.
Drop ==
  /\ sock \in {"connecting", "open", "verified", "joined"} /\ Fault
  /\ sock' = "closed" /\ code' = 0 /\ up' = <<>> /\ asked' = FALSE /\ count' = 0
  /\ UNCHANGED <<deviceVars, roomVars, queue, authVars, memberVars, server, typed, failed, windows>>

IsAuthCloseCode(c) == c \in 4000..4099

\* Mutant: any close stops the provider.
StopsAlways(c) == TRUE

\* onclose: whether the backoff ends here.
StopsFor(c) == IsAuthCloseCode(c)

\* onclose, and onAuthError: 4003 is shown, any other code signs the user out.
HearClose ==
  /\ sock = "closed" /\ Len(jobs) < MaxJobs
  /\ sock' = (IF StopsFor(code) THEN "stopped" ELSE "waiting")
  /\ refused' = (refused \/ code = 4003)
  /\ jobs' = IF IsAuthCloseCode(code) /\ code # 4003
             THEN Append(jobs, [op |-> "del", token |-> NoToken]) ELSE jobs
  /\ UNCHANGED <<loading, mem, stored, asks, screen, open, code, queue, up, asked, count,
                 authVars, memberVars, server, typed, failed, faults, windows>>

\* scheduleRetry's timer.
RetryTimeout ==
  /\ sock = "waiting"
  /\ sock' = "connecting" /\ code' = 0 /\ up' = <<>> /\ asked' = FALSE /\ count' = 0
  /\ UNCHANGED <<deviceVars, roomVars, queue, authVars, memberVars, server, typed, failed, faults,
                 windows>>

-----------------------------------------------------------------------------
Next ==
  \/ \E a \in Accounts : HandleLogin(a) \/ HandleRegister(a)
  \/ \E ask \in asks : Answered(ask) \/ AskLost(ask)
  \/ Logout \/ JobLands \/ JobFails \/ Redirect \/ Kill
  \/ \E t \in Issued : Expire(t)
  \/ CreateRoom \/ JoinRoom \/ CreateLost \/ JoinLost \/ OpenRoom \/ CloseRoom
  \/ \E m \in Msgs : Type(m)
  \/ SocketOpens \/ Verify \/ Admit \/ AnswerStep1 \/ Receive \/ WindowOver \/ Drop
  \/ HearClose \/ RetryTimeout

Spec == Init /\ [][Next]_vars

\* Calls that are not lost are answered, timers fire, frames under way arrive,
\* and the screens follow the session.
FairSpec ==
  /\ Spec
  /\ WF_vars(JobLands) /\ WF_vars(Redirect)
  /\ WF_vars(SocketOpens) /\ WF_vars(Verify) /\ WF_vars(Admit)
  /\ WF_vars(AnswerStep1) /\ WF_vars(Receive)
  /\ WF_vars(HearClose) /\ WF_vars(RetryTimeout)

-----------------------------------------------------------------------------
(* Properties.                                                              *)

\* Every variable keeps its type; a token in use has been issued.
TypeOK ==
  /\ loading \in BOOLEAN /\ open \in BOOLEAN /\ refused \in BOOLEAN /\ asked \in BOOLEAN
  /\ owner \in Seq(Accounts) /\ Len(owner) <= MaxTokens /\ valid \subseteq Issued
  /\ {mem, stored} \subseteq Issued \cup {NoToken}
  /\ \A i \in DOMAIN jobs : /\ jobs[i].op \in {"get", "set", "del"}
                            /\ jobs[i].token \in Issued \cup {NoToken}
  /\ asks \subseteq [kind : Kinds, who : Accounts]
  /\ screen \in {"auth", "chat"}
  /\ sock \in Phases /\ code \in Codes /\ (sock # "off" => open)
  /\ queue \subseteq Msgs /\ up \in Seq(SUBSET Msgs) /\ count \in 0..RateLimit
  /\ users \subseteq Accounts /\ admins \subseteq members /\ members \subseteq users
  /\ rows \in BOOLEAN /\ server \subseteq typed /\ typed \subseteq Msgs
  /\ failed \subseteq {"get", "del"} /\ faults \in 0..MaxFaults /\ windows \in 0..MaxWindows

\* Whatever logins, registrations, sign-outs and failing calls overlap: once
\* they are through, the session that runs is the one a restart would bring
\* back.  Nobody who signed out is signed in again by it (auth.store.ts:25-74).
\* Only if the token could not be read at the start, none runs until a sign-in.
StoredIsSession == jobs = <<>> => mem = stored \/ "get" \in failed

\* The author of m has the room open and is not told to leave it.
Present(m) == open /\ SignedIn /\ Me = Author[m] /\ ~refused /\ "del" \notin failed

\* What a member types reaches the server for as long as he stays: through
\* drops, frames nobody listened to and a flush beyond the rate limit, or he is
\* signed out (WebSocketProvider.ts:113-160, sync.gateway.ts:196-271, 322-333).
WorkArrives == \A m \in Msgs : (m \in typed /\ Present(m)) ~> (m \in server \/ ~Present(m))

\* "4001 -> logout, others -> backoff retry" (docs/adr/003-ws-subprotocol-auth.md:24).
OnlyUnauthorizedSignsOut ==
  [][sock = "closed" /\ jobs' # jobs /\ sock' = "stopped" => code = 4001]_vars

\* A room that exists has somebody to administer it, as only an administrator
\* can enable encryption or take part in its rotation (rooms.service.ts:51-60).
RoomHasAdmin == rows /\ members # {} => admins # {}
=============================================================================

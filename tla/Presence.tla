------------------------------ MODULE Presence ------------------------------
(***************************************************************************)
(* Who is here and who is typing in one room: the awareness states that    *)
(* the providers announce and the gateway passes on, the sockets they      *)
(* travel by, the heartbeat that finds dead ones, and the expiry of states *)
(* nobody renews.                                                          *)
(*                                                                         *)
(* y-protocols' Awareness is external: an entry is a clock and a state, a  *)
(* newer clock wins, a removal wins over the state of the same clock, and  *)
(* its interval removes what was not renewed for 30 s and renews the local *)
(* state after 15 s.  The provider does not announce a renewal.            *)
(*                                                                         *)
(* Time is abstract: an interval may fire between any two steps.  A device *)
(* is one mount of the room screen (a rebuilt engine is another device),   *)
(* and only Talkers have entries of their own here.                        *)
(***************************************************************************)
EXTENDS Integers, Sequences

CONSTANTS
  Devices,
  Talkers,     \* the devices whose entries are followed
  Server,
  MaxSockets,  \* bound: sockets each device opens
  MaxClock,    \* bound: changes and renewals of a device's own entry
  MaxQueue     \* bound: frames under way on a socket when another is sent

ASSUME PresenceAssumption ==
  /\ Talkers \subseteq Devices /\ Server \notin Devices
  /\ MaxSockets \in [Devices -> Nat] /\ MaxQueue \in Nat
  /\ MaxClock \in Nat \ {0} \* the constructors have used the first

VARIABLES
  know,     \* each observer's Awareness: an entry per talker
  engine,   \* is the device's provider there, or destroyed
  newest,   \* the device's newest socket
  up,       \* the device takes its newest socket to be open
  room,     \* what the server has made of each socket
  alive,    \* answered since the last ping
  tracked,  \* awarenessIds: the socket has announced its device's entry
  toServer, \* announcements under way on each socket
  toClient, \* frames under way to each device on its newest socket
  \* history
  spoke     \* typed since its socket joined, and nothing has hidden it since

vars == <<know, engine, newest, up, room, alive, tracked, toServer, toClient, spoke>>

Observers == Devices \cup {Server}
Sockets   == UNION {1 .. MaxSockets[d] : d \in Devices}
Entry     == [clock : 0 .. MaxClock, state : {"none", "here", "typing"}]
Unknown   == [clock |-> 0, state |-> "none"]

\* The two updates of the constructors: Awareness() and setLocalState.
Announced == [clock |-> 1, state |-> "here"]

Init ==
  /\ know = [o \in Observers |-> [t \in Talkers |-> IF o = t THEN Announced ELSE Unknown]]
  /\ engine = [d \in Devices |-> TRUE]
  /\ newest = [d \in Devices |-> 0]
  /\ up = [d \in Devices |-> FALSE]
  /\ room = [d \in Devices |-> [n \in Sockets |-> "none"]]
  /\ alive = [d \in Devices |-> [n \in Sockets |-> FALSE]]
  /\ tracked = [d \in Devices |-> [n \in Sockets |-> FALSE]]
  /\ toServer = [d \in Devices |-> [n \in Sockets |-> <<>>]]
  /\ toClient = [d \in Devices |-> <<>>]
  /\ spoke = [d \in Talkers |-> FALSE]

-----------------------------------------------------------------------------
(* Entries.                                                                 *)

\* applyAwarenessUpdate: does the entry that arrives replace the one there is?
Replaces(new, old) ==
  \/ new.clock > old.clock
  \/ new.clock = old.clock /\ new.state = "none" /\ old.state # "none"

\* A later clock, up to the bound.
Later(entry) == [entry EXCEPT !.clock = IF @ < MaxClock THEN @ + 1 ELSE @]

\* Mutant: the removal takes a clock of its own.
RemovedAnew(entry) == [Later(entry) EXCEPT !.state = "none"]

\* removeAwarenessStates of somebody else's entry: the clock stays.
Removed(entry) == [entry EXCEPT !.state = "none"]

\* The device is using the socket, and the server has it among its clients.
Using(d, n)  == up[d] /\ newest[d] = n
Joined(d, n) == room[d][n] = "joined"

\* Mutant: only an entry that is new is passed on.
NewOnly(t, old, frame) == old.state = "none"

\* The awareness 'update' handler passes on what was added, updated, removed.
PassesOn(t, old, frame) == Replaces(frame[t], old)

\* A frame for every client but the socket it came from.  One on a socket the
\* device no longer uses is not read.
FanOut(frame, except) ==
  /\ \A d \in Devices : Len(toClient[d]) < MaxQueue
  /\ toClient' = [d \in Devices |->
    IF up[d] /\ Joined(d, newest[d]) /\ <<d, newest[d]>> # except
    THEN Append(toClient[d], frame) ELSE toClient[d]]

Only(t, entry) == [x \in {t} |-> entry]

-----------------------------------------------------------------------------
(* The device: WebSocketProvider and Composer.                              *)

\* onopen: the current state is announced on the new socket.
Open(d) ==
  /\ engine[d] /\ ~up[d] /\ newest[d] < MaxSockets[d]
  /\ newest' = [newest EXCEPT ![d] = @ + 1]
  /\ up' = [up EXCEPT ![d] = TRUE]
  /\ room' = [room EXCEPT ![d][newest[d] + 1] = "admitting"]
  /\ toServer' = IF d \in Talkers THEN [toServer EXCEPT ![d][newest[d] + 1] = <<know[d][d]>>] ELSE toServer
  /\ spoke' = [t \in Talkers |-> t # d /\ spoke[t]]
  /\ UNCHANGED <<know, engine, alive, tracked, toClient>>

\* onclose: the server has closed it, or the network is gone.
Down(d) ==
  /\ up[d]
  /\ up' = [up EXCEPT ![d] = FALSE]
  /\ toClient' = [toClient EXCEPT ![d] = <<>>]
  /\ UNCHANGED <<know, engine, newest, room, alive, tracked, toServer, spoke>>

\* sendAwareness: the composer's handleChange and handleSend.  Without an open
\* socket the state is kept for the next onopen.
Type(d, state) ==
  /\ engine[d] /\ know[d][d].clock < MaxClock
  /\ know' = [know EXCEPT ![d][d] = [clock |-> @.clock + 1, state |-> state]]
  /\ up[d] => Len(toServer[d][newest[d]]) < MaxQueue
  /\ toServer' = IF up[d] THEN [toServer EXCEPT ![d][newest[d]] = Append(@, know'[d][d])] ELSE toServer
  /\ spoke' = [spoke EXCEPT ![d] = up[d] /\ Joined(d, newest[d])]
  /\ UNCHANGED <<engine, newest, up, room, alive, tracked, toClient>>

\* Awareness renews the local state, and nobody is told.
Renew(d) ==
  /\ engine[d] /\ know[d][d].clock < MaxClock
  /\ know' = [know EXCEPT ![d][d].clock = @ + 1]
  /\ UNCHANGED <<engine, newest, up, room, alive, tracked, toServer, toClient, spoke>>

\* Another's entry is taken if it is newer; a removal of the device's own
\* entry only moves its clock.
Deliver(d) ==
  /\ up[d] /\ toClient[d] # <<>>
  /\ LET frame == Head(toClient[d])
         Taken(t) == t \in DOMAIN frame /\ Replaces(frame[t], know[d][t]) IN
     know' = [know EXCEPT ![d] = [t \in Talkers |->
                   IF ~Taken(t) THEN @[t]
                   ELSE IF t = d THEN Later(@[t]) ELSE frame[t]]]
  /\ toClient' = [toClient EXCEPT ![d] = Tail(@)]
  /\ UNCHANGED <<engine, newest, up, room, alive, tracked, toServer, spoke>>

\* destroy(), or the app is killed: the socket is closed, or just not used.
\* (Its own clock is kept to compare with.)
Leave(d) ==
  /\ engine[d]
  /\ know' = [know EXCEPT ![d] = [t \in Talkers |-> IF t = d THEN @[t] ELSE Unknown]]
  /\ spoke' = [t \in Talkers |-> t # d /\ spoke[t]]
  /\ engine' = [engine EXCEPT ![d] = FALSE]
  /\ up' = [up EXCEPT ![d] = FALSE]
  /\ toClient' = [toClient EXCEPT ![d] = <<>>]
  /\ UNCHANGED <<newest, room, alive, tracked, toServer>>

-----------------------------------------------------------------------------
(* The gateway.                                                             *)

\* handleConnection, after its awaits: the client joins and gets a snapshot.
Join(d, n) ==
  /\ room[d][n] = "admitting"
  /\ room' = [room EXCEPT ![d][n] = "joined"]
  /\ alive' = [alive EXCEPT ![d][n] = TRUE]
  /\ LET present == {t \in Talkers : know[Server][t].state # "none"} IN
     toClient' = IF Using(d, n) /\ present # {}
                 THEN [toClient EXCEPT ![d] = Append(@, [t \in present |-> know[Server][t]])] ELSE toClient
  /\ UNCHANGED <<know, engine, newest, up, tracked, toServer, spoke>>

\* Mutant: the ids the socket has updated, not those it has added.
UpdatedOnly(old, new) == old.state # "none" /\ new.state # "none"

\* The handler notes which socket announces an entry.
Tracks(old, new) == new.state # "none"

\* handleMessage: before it has joined there is no listener, and the frame is
\* dropped.
Arrive(d, n) ==
  /\ room[d][n] \in {"admitting", "joined"} /\ toServer[d][n] # <<>>
  /\ toServer' = [toServer EXCEPT ![d][n] = Tail(@)]
  /\ LET new == Head(toServer[d][n])
         old == know[Server][d] IN
     IF Joined(d, n) /\ Replaces(new, old)
     THEN /\ know' = [know EXCEPT ![Server][d] = new]
          /\ tracked' = [tracked EXCEPT ![d][n] = @ \/ Tracks(old, new)]
          /\ IF PassesOn(d, old, Only(d, new)) THEN FanOut(Only(d, new), <<d, n>>) ELSE UNCHANGED toClient
     ELSE UNCHANGED <<know, tracked, toClient>>
  /\ UNCHANGED <<engine, newest, up, room, alive, spoke>>

\* Mutant: the states are left to expire.
NotCleared(d, n) == FALSE

Clears(d, n) == tracked[d][n] /\ know[Server][d].state # "none"

\* Mutant: the note outlives the socket.
Keeps(d, n) == tracked

Forgets(d, n) == [tracked EXCEPT ![d][n] = FALSE]

\* handleDisconnect: the client goes, and the entries its socket announced.
HandleDisconnect(d, n) ==
  /\ \/ room[d][n] = "terminated"
     \/ room[d][n] \in {"admitting", "joined"} /\ ~Using(d, n)
  /\ room' = [room EXCEPT ![d][n] = "closed"]
  /\ toServer' = [toServer EXCEPT ![d][n] = <<>>]
  /\ IF d \in Talkers /\ Clears(d, n)
     THEN /\ know' = [know EXCEPT ![Server][d] = Removed(@)]
          /\ FanOut(Only(d, Removed(know[Server][d])), <<d, n>>)
          /\ spoke' = [spoke EXCEPT ![d] = FALSE]
     ELSE UNCHANGED <<know, toClient, spoke>>
  /\ tracked' = Forgets(d, n)
  /\ alive' = [alive EXCEPT ![d][n] = FALSE]
  /\ UNCHANGED <<engine, newest, up>>

\* sweepHeartbeats: who has not answered the last ping is terminated, the
\* others are pinged.
SweepHeartbeats ==
  /\ room' = [d \in Devices |-> [n \in Sockets |->
                IF Joined(d, n) /\ ~alive[d][n] THEN "terminated" ELSE room[d][n]]]
  /\ alive' = [d \in Devices |-> [n \in Sockets |-> FALSE]]
  /\ \E d \in Devices, n \in Sockets : Joined(d, n)
  /\ UNCHANGED <<know, engine, newest, up, tracked, toServer, toClient, spoke>>

Pong(d, n) ==
  /\ Joined(d, n) /\ Using(d, n) /\ ~alive[d][n]
  /\ alive' = [alive EXCEPT ![d][n] = TRUE]
  /\ UNCHANGED <<know, engine, newest, up, room, tracked, toServer, toClient, spoke>>

-----------------------------------------------------------------------------
(* Awareness' interval, on the server and on the devices: 30 s without news *)
(* of somebody else's entry.                                                *)

Expire(o, t) ==
  /\ o # t /\ know[o][t].state # "none"
  /\ o \in Devices => engine[o]
  /\ know' = [know EXCEPT ![o][t] = Removed(@)]
  /\ IF o = Server THEN FanOut(Only(t, Removed(know[o][t])), <<>>) ELSE UNCHANGED toClient
  /\ spoke' = [spoke EXCEPT ![t] = FALSE]
  /\ UNCHANGED <<engine, newest, up, room, alive, tracked, toServer>>

-----------------------------------------------------------------------------
Next ==
  \/ SweepHeartbeats
  \/ \E d \in Devices :
       \/ Open(d) \/ Down(d) \/ Deliver(d) \/ Leave(d)
       \/ \E n \in Sockets : Join(d, n) \/ Arrive(d, n) \/ HandleDisconnect(d, n) \/ Pong(d, n)
  \/ \E t \in Talkers :
       \/ Renew(t)
       \/ \E state \in {"here", "typing"} : Type(t, state)
       \/ \E o \in Observers : Expire(o, t)

Spec == Init /\ [][Next]_vars

(***************************************************************************)
(* The heartbeat's interval, an admission and the delivery of frames go    *)
(* on; a close that the sweep has forced is seen.  That the other side's   *)
(* closing is seen without the sweep is not assumed, and the expiry only   *)
(* of what a device keeps of one that is gone (nothing renews that).       *)
(***************************************************************************)
Fairness ==
  /\ WF_vars(SweepHeartbeats)
  /\ WF_vars(\E d \in Devices : Deliver(d))
  /\ WF_vars(\E d \in Devices, n \in Sockets : Join(d, n))
  /\ WF_vars(\E d \in Devices, n \in Sockets : room[d][n] = "terminated" /\ HandleDisconnect(d, n))
  /\ WF_vars(\E d \in Devices, t \in Talkers : ~engine[t] /\ Expire(d, t))

FairSpec == Spec /\ Fairness

-----------------------------------------------------------------------------
(* What the screen shows (usePresence).                                     *)

OnlineCount(d) == {t \in Talkers : know[d][t].state # "none"}
TypingPeers(d) == {t \in Talkers \ {d} : know[d][t].state = "typing"}

-----------------------------------------------------------------------------
(* Properties.                                                              *)

\* Every variable holds the kind of value the code gives it, and only a socket
\* among the room's clients has announced anything.
TypeOK ==
  /\ know \in [Observers -> [Talkers -> Entry]]
  /\ engine \in [Devices -> BOOLEAN]
  /\ newest \in [Devices -> Sockets \cup {0}]
  /\ up \in [Devices -> BOOLEAN]
  /\ room \in [Devices -> [Sockets -> {"none", "admitting", "joined", "terminated", "closed"}]]
  /\ alive \in [Devices -> [Sockets -> BOOLEAN]]
  /\ tracked \in [Devices -> [Sockets -> BOOLEAN]]
  /\ toServer \in [Devices -> [Sockets -> Seq(Entry)]]
  /\ \A d \in Devices : \A k \in DOMAIN toClient[d] :
       DOMAIN toClient[d][k] \subseteq Talkers /\ toClient[d][k] \in [DOMAIN toClient[d][k] -> Entry]
  /\ spoke \in [Talkers -> BOOLEAN]
  /\ \A d \in Devices, n \in Sockets : tracked[d][n] => room[d][n] \in {"joined", "terminated"}

(***************************************************************************)
(* Nobody's clock is ahead of its owner's, in any copy or frame: else what *)
(* the owner announces next would be taken for old news and dropped        *)
(* everywhere (removals, expiries and the owner's answer to them all write *)
(* clocks).                                                                *)
(***************************************************************************)
OwnerLeads ==
  \A t \in Talkers :
    /\ \A o \in Observers : know[o][t].clock <= know[t][t].clock
    /\ \A d \in Devices : \A k \in DOMAIN toClient[d] :
         t \in DOMAIN toClient[d][k] => toClient[d][k][t].clock <= know[t][t].clock

(***************************************************************************)
(* Whatever entry the server has is one that a socket among the room's     *)
(* clients has announced, so that its end clears it: no reconnect,         *)
(* termination or expiry, in any order, leaves one that only time removes. *)
(***************************************************************************)
ServerTracks ==
  \A t \in Talkers : know[Server][t].state # "none" => \E n \in Sockets : tracked[t][n]

(***************************************************************************)
(* Who types while its socket is in the room is shown typing, and no       *)
(* longer typing, to everybody whose frames have arrived: whatever clocks, *)
(* removals and reconnects came before.  Until it is idle for 30 s, or an  *)
(* older socket of its own is found dead.                                  *)
(***************************************************************************)
TypingReaches ==
  \A t \in Talkers : \A d \in Devices \ {t} :
    /\ spoke[t] /\ up[t] /\ Joined(t, newest[t]) /\ toServer[t][newest[t]] = <<>>
    /\ up[d] /\ Joined(d, newest[d]) /\ toClient[d] = <<>>
    => (t \in TypingPeers(d) <=> know[t][t].state = "typing")

(***************************************************************************)
(* ADR-008 ("presence reuses the existing transport and self-heals"): who  *)
(* is gone disappears for good, from the server and from everyone's        *)
(* screen, killed or closed, whatever was under way.                       *)
(***************************************************************************)
GhostsLeave ==
  \A t \in Talkers :
    <>(~engine[t]) => <>[](\A o \in Observers \ {t} : know[o][t].state = "none")

-----------------------------------------------------------------------------
(* What documents say of the program, and the program does not always do.   *)

(***************************************************************************)
(* sync.gateway.ts:253: "Awareness snapshot - so onlineCount / typing are  *)
(* correct before the next change": who is in the room, with nothing under *)
(* way, is counted.                                                        *)
(***************************************************************************)
PresentIsCounted ==
  \A t \in Talkers, d \in Devices :
    /\ up[t] /\ Joined(t, newest[t]) /\ toServer[t][newest[t]] = <<>>
    /\ up[d] /\ Joined(d, newest[d]) /\ toClient[d] = <<>>
    => t \in OnlineCount(d)
=============================================================================

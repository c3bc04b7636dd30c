----------------------------- MODULE SharedRoom -----------------------------
(***************************************************************************)
(* What the sync exchange amounts to, without frames, sockets or queues: a *)
(* room at the server and a copy on each device, which copy from one       *)
(* another in single steps.  A copy has messages and knows of deletions.   *)
(* A device gives the room only what it has itself, and hears of others    *)
(* only what the room has; once the room is encrypted no plaintext enters  *)
(* it, and a device may take down the plaintext it wrote, and nothing      *)
(* else.  A restart of the server goes back to what was saved last.        *)
(***************************************************************************)
CONSTANTS
  Devices, Messages,
  Author  \* the device that writes a message

VARIABLES
  device, room, saved,  \* the copies: the devices', the server's, the snapshot
  written,              \* the messages there are
  plain,                \* those written in plaintext
  encrypted             \* the room has an epoch

vars == <<device, room, saved, written, plain, encrypted>>

Nothing == [has |-> {}, gone |-> {}]

\* A copy that is given some messages and some deletions.
Merge(copy, new, out) ==
  [has |-> (copy.has \cup new) \ (copy.gone \cup out), gone |-> copy.gone \cup out]

\* What a copy can pass on; who is given it may know of fewer deletions.
Known(copy) == copy.has \cup copy.gone

Init ==
  /\ device = [d \in Devices |-> Nothing] /\ room = Nothing /\ saved = Nothing
  /\ written = {} /\ plain = {} /\ encrypted = FALSE

Write(d) ==
  /\ \E m \in Messages \ written :
       /\ Author[m] = d
       /\ written' = written \cup {m}
       /\ plain' \in {plain, plain \cup {m}}
       /\ device' = [device EXCEPT ![d] = Merge(@, {m}, {})]
  /\ UNCHANGED <<room, saved, encrypted>>

Give(d) ==
  /\ \E new \in SUBSET Known(device[d]), out \in SUBSET device[d].gone :
       /\ encrypted => new \cap plain = {}
       /\ room' = Merge(room, new, out)
  /\ UNCHANGED <<device, saved, written, plain, encrypted>>

Hear(d) ==
  /\ \E new \in SUBSET Known(room), out \in SUBSET room.gone :
       device' = [device EXCEPT ![d] = Merge(@, new, out)]
  /\ UNCHANGED <<room, saved, written, plain, encrypted>>

Withdraw(d) ==
  /\ encrypted
  /\ \E out \in SUBSET {m \in plain \cap device[d].has : Author[m] = d} :
       device' = [device EXCEPT ![d] = Merge(@, {}, out)]
  /\ UNCHANGED <<room, saved, written, plain, encrypted>>

Encrypt ==
  /\ encrypted' = TRUE
  /\ UNCHANGED <<device, room, saved, written, plain>>

Save    == saved' = room /\ UNCHANGED <<device, room, written, plain, encrypted>>
Restart == room' = saved /\ UNCHANGED <<device, saved, written, plain, encrypted>>

Next ==
  \/ \E d \in Devices : Write(d) \/ Give(d) \/ Hear(d) \/ Withdraw(d)
  \/ Encrypt \/ Save \/ Restart

Spec == Init /\ [][Next]_vars
=============================================================================

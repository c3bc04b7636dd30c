-------------------------------- MODULE YDoc --------------------------------
(***************************************************************************)
(* The room document: a Yjs Y.Doc holding one Y.Array of messages, as the  *)
(* SyncEngine and the server's RoomState use it.  A message is one item;   *)
(* an item is named by the replica that inserted it and its position in    *)
(* that replica's own insertion order (Yjs: the clientID and the clock).   *)
(*                                                                         *)
(* A doc is what a replica has received: the items, and the delete set.    *)
(* An item that arrives before an earlier item of the same replica is kept *)
(* as a pending struct: it is in "have" but not yet in Integrated, so it   *)
(* is neither visible nor covered by the state vector.  A delete set may   *)
(* name an item that has not arrived (Yjs: pendingDs).  "husk" names the   *)
(* pending items that arrived without their content; once integrated they  *)
(* are ordinary deleted items.                                             *)
(*                                                                         *)
(* Left out: the order of the array (createdAt and Yjs origins decide it), *)
(* and an item's dependency on an item of ANOTHER replica (its left        *)
(* origin).  One server sends each replica the other replicas' items in    *)
(* the order it integrated them, so that dependency is met on arrival.     *)
(***************************************************************************)
EXTENDS Naturals, FiniteSets

CONSTANTS
  Client,   \* the replicas that insert messages
  MaxSend   \* bound: insertions of one replica

ASSUME MaxSendAssumption == MaxSend \in Nat

Item == [by : Client, clock : 1 .. MaxSend]

Doc == {d \in [have : SUBSET Item, husk : SUBSET Item, del : SUBSET Item] :
          d.husk \subseteq d.have \cap d.del}

EmptyDoc == [have |-> {}, husk |-> {}, del |-> {}]

(***************************************************************************)
(* The binary update of Y.encodeStateAsUpdate and of the doc's 'update'    *)
(* event: items with their content, items sent as content-less structs     *)
(* (ContentDeleted or GC, because the sender collected them), deletions.   *)
(***************************************************************************)
Update == [full : SUBSET Item, bare : SUBSET Item, del : SUBSET Item]

Earlier(i) == {j \in Item : j.by = i.by /\ j.clock < i.clock}

\* Of the items S, those with nothing earlier of the same replica missing.
Contiguous(S) == {i \in S : Earlier(i) \subseteq S}

\* The items Yjs has integrated.
Integrated(d) == Contiguous(d.have)

\* The deletions that took effect, and the messages getMessages() returns.
Deleted(d) == Integrated(d) \cap d.del
Live(d)    == Integrated(d) \ d.del

\* The items whose content the doc still stores (gc: true drops the others).
Content(d) == d.have \ (Deleted(d) \cup d.husk)

\* A state vector determines, and is determined by, the integrated items.
StateVector(d) == Integrated(d)

(***************************************************************************)
(* What d holds that a peer with state vector sv lacks: Yjs filters the    *)
(* structs (pending ones too) and always sends the whole delete set.       *)
(***************************************************************************)
EncodeDiff(d, sv) ==
  [full |-> Content(d) \ sv, bare |-> (d.have \ Content(d)) \ sv, del |-> d.del]

EncodeState(d) == EncodeDiff(d, {})

ApplyUpdate(d, u) ==
  LET have == d.have \cup u.full \cup u.bare
  IN [have |-> have,
      husk |-> (d.husk \cup (u.bare \ (d.have \cup u.full))) \ Contiguous(have),
      del  |-> d.del \cup u.bare \cup u.del]

(***************************************************************************)
(* The update the 'update' event carries when a transaction takes the doc  *)
(* from d to e: what it integrated and what it deleted, nothing pending.   *)
(* A transaction that only parked pending structs emits no event.          *)
(***************************************************************************)
Delta(d, e) ==
  [full |-> Live(e) \ Integrated(d),
   bare |-> Deleted(e) \ Integrated(d),
   del  |-> Deleted(e) \ Deleted(d)]

NoChange(d, e) == Integrated(d) = Integrated(e) /\ Deleted(d) = Deleted(e)
=============================================================================

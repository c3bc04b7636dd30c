----------------------------- MODULE MessageFate -----------------------------
(***************************************************************************)
(* What the app promises about a message the user has sent: it is held     *)
(* until the server has accepted it or until its text is back in the       *)
(* composer.  It can take another turn only if it is excused, and a        *)
(* message once excused stays so.  What excuses one is for the             *)
(* implementation to say.                                                  *)
(***************************************************************************)
CONSTANT Msgs

VARIABLES
  fate,    \* where each message is
  excused  \* the messages something has happened to that nothing promises against

Fates == {"unsent", "held", "served", "returned", "lost"}

Init ==
  /\ fate \in [Msgs -> {"unsent", "held"}]
  /\ excused = {}

Onwards == {<<"unsent", "held">>, <<"held", "served">>, <<"held", "returned">>}

Moves(m) ==
  \/ fate'[m] = fate[m]
  \/ <<fate[m], fate'[m]>> \in Onwards
  \/ m \in excused'

Next ==
  /\ fate' \in [Msgs -> Fates]
  /\ excused \subseteq excused' /\ excused' \subseteq Msgs
  /\ \A m \in Msgs : Moves(m)

Spec == Init /\ [][Next]_<<fate, excused>>
=============================================================================

----------------------------- MODULE MCChatView -----------------------------
(* Points as on a small screen: a list of two messages does not fit it.    *)
EXTENDS ChatView

Row      == 60
View     == 100
Keyboard == 60
Pill     == 50
Card     == 90
Banner   == 30
RowAbove == 24
=============================================================================

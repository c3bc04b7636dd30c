---------------------------- MODULE MCDeviceStore ----------------------------
EXTENDS DeviceStore, TLC

CONSTANTS a, b, m1, m2, f

\* One message of each account.
EachOne == m1 :> a @@ m2 :> b

\* Two messages of one account.
BothA == m1 :> a @@ m2 :> a
=============================================================================

-------------------------- MODULE MCWalletLedger --------------------------
(***************************************************************************)
(* Values for TLC: two people of one product, two connections, and the     *)
(* calls whose races matter.                                               *)
(***************************************************************************)
EXTENDS WalletLedger

CONSTANTS u1, u2, a1, k1, k2, s1, s2

Call(op, u, k, n) == [op |-> op, wallet |-> <<u, a1>>, key |-> k, amount |-> n]

\* Two reservations that together exceed the grant, a charge that may leave a
\* debt, a release, a reservation that reuses the key of the grant, and calls of
\* the other person with the keys of the first.
MCRequest == {Call("grant", u1, k1, 3), Call("reserve", u1, k2, 2),
              Call("release", u1, k2, 1), Call("usage", u1, k1, 2),
              Call("reserve", u1, k1, 2),
              Call("grant", u2, k1, 2), Call("reserve", u2, k2, 2),
              Call("usage", u2, k1, 1)}
=============================================================================

----------------------------- MODULE MCTrading -----------------------------
(***************************************************************************)
(* Small instances of Trading for TLC.                                      *)
(***************************************************************************)
EXTENDS Trading, TLC

SameMonth == [b \in 1..MaxBar |-> 1]

Bounds(crash, drop, fail, user, slow, bars, move) ==
  [crash |-> crash, drop |-> drop, fail |-> fail, user |-> user, slow |-> slow, bar |-> bars,
   move |-> move]

\* One kind of fault at a time, a second bar, or a transfer.
MixedFaults ==
  {Bounds(1, 0, 0, 0, 0, 0, 0), Bounds(0, 1, 0, 0, 0, 0, 0), Bounds(0, 0, 1, 1, 0, 0, 0),
   Bounds(0, 0, 0, 0, 1, 0, 0), Bounds(0, 0, 0, 0, 0, 1, 0), Bounds(0, 0, 0, 0, 0, 0, 1)}
DropOnly == {Bounds(0, 1, 0, 0, 0, 0, 0)}
=============================================================================

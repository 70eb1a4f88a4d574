------------------------------- MODULE MCBasis -------------------------------
(* Three payload bits, one of padding, two check bits.                     *)
EXTENDS Basis

Bits == Varying \cup Padding

(* Columns that are independent, repeated, or nothing.                     *)
SomeColumns ==
  {[b \in Bits |-> IF b % 2 = 0 THEN {0} ELSE {1}],
   [b \in Bits |-> IF b = 1 THEN {} ELSE {0, 1}],
   [b \in Bits |-> IF b = 3 THEN {0} ELSE {b % 2, 1}]}

SomeChecksums == {Closed({1}, columns) : columns \in SomeColumns}

Short == {b \in Blobs : Padding \subseteq b}

(* Three samples of which the second may be too long, and four that begin  *)
(* with an empty payload.                                                  *)
SomeFiles ==
  {<<a, b, c>> : a \in Short, b \in Blobs, c \in Short}
    \cup {<<Padding, a, b, c>> : a \in Short, b \in Short, c \in Short}
    \cup {<<>>}

=============================================================================

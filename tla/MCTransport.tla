----------------------------- MODULE MCTransport -----------------------------
(* Texts at the boundaries of the encodings: none at all; all lengths of   *)
(* UTF-8 and their limits; a body of 128 bytes, whose length takes two;    *)
(* and half a pair before something else.                                  *)
EXTENDS Transport

MCTexts ==
  {<<>>,
   <<127, 128, 2047, 2048, 55357, 56832>>,
   [i \in 1..126 |-> 97],
   <<55357, 98>>}

=============================================================================

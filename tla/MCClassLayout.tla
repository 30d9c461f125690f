--------------------------- MODULE MCClassLayout ----------------------------
(* ClassLayout with a few types of different sizes. *)
EXTENDS ClassLayout

\* A wide filler, a one-byte variable and a variable larger than a filler.
SomeTypes == {[size |-> 8, var |-> FALSE], [size |-> 1, var |-> TRUE],
              [size |-> 12, var |-> TRUE]}
=============================================================================

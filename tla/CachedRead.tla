----------------------------- MODULE CachedRead -----------------------------
(***************************************************************************)
(* mem::read of memory.h: a read served from a snapshot the memory thread  *)
(* has taken.  Addresses are machine words, and every sum in the code is a *)
(* sum of words: it wraps at the top of the address space.  drawHexNumber  *)
(* asks for 64 bytes at whatever number a class happens to hold, so the    *)
(* addresses close to the top do occur; and a class may be given any       *)
(* address but 0, however low, as the bridge answers a read of any.        *)
(***************************************************************************)
EXTENDS Integers

CONSTANT W    \* the number of machine words: 2^64 in the x64 build

ASSUME WordAssumption == W \in Nat \ {0}

Words == 0..(W - 1)

Plus(a, b)  == (a + b) % W
Minus(a, b) == (a - b) % W

\* Variant: the safety check on the offset is left out.
ServesUnchecked(start, len, a, n) ==
  /\ len > 0
  /\ a >= start /\ Plus(a, n) <= Plus(start, len)

\* The snapshot of len bytes taken at start is used for the n bytes at a.
Serves(start, len, a, n) ==
  /\ len > 0
  /\ a >= start /\ Plus(a, n) <= Plus(start, len)
  /\ Plus(Minus(a, start), n) <= len

\* What the copy needs: the bytes asked for are bytes of the snapshot, counted
\* without wrapping.
Inside(start, len, a, n) == start <= a /\ a + n <= start + len

=============================================================================

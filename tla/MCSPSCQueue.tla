---------------------------- MODULE MCSPSCQueue ----------------------------
(***************************************************************************)
(* SPSCQueue for TLC.                                                      *)
(***************************************************************************)
EXTENDS SPSCQueue

M == INSTANCE Bitwise

\* kMask = Capacity - 1 masks an index like the remainder by Capacity does, for
\* every power of two up to 16 and every value an index or a size takes before
\* it is masked (tail - head wraps around in size_t: Wrap stands for 2^w).
Wrap == 64
ASSUME MaskIsRemainder ==
  \A c \in {1, 2, 4, 8, 16} :
    /\ \A i \in 0 .. c : M!&(i, c - 1) = i % c
    /\ \A a, b \in 0 .. c - 1 : M!&((b - a) % Wrap, c - 1) = (b - a) % c
=============================================================================

---------------------------- MODULE MCDataBuffer ----------------------------
(***************************************************************************)
(* FTDataBuffer for TLC.                                                   *)
(***************************************************************************)
EXTENDS DataBuffer, TLC

CONSTANTS c1, c2

TwoReaders == {c1, c2}

\* Two readers that mix both calls, or one reader that keeps to one of them.
MixedOrSingle ==
  {[c \in TwoReaders |-> {"get", "batch"}]}
    \cup {[c \in TwoReaders |-> IF c = d THEN {m} ELSE {}] : d \in TwoReaders, m \in {"get", "batch"}}

ReaderSymmetry == Permutations(TwoReaders)
=============================================================================

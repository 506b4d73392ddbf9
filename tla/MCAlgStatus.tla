----------------------------- MODULE MCAlgStatus -----------------------------
(* Instances of AlgStatus for TLC: a library with the integrity hash, an     *)
(* algorithm x and an algorithm y whose self test uses x.                    *)
EXTENDS AlgStatus, TLC

CONSTANTS lib, sha3, x, y, none

MCAlg == {lib, sha3, x, y}

\* Registers in sweep order: x is a digest, y shares the register of the
\* library.
Shared == x :> 1 @@ sha3 :> 1 @@ y :> 2 @@ lib :> 2

NoDep == [a \in MCAlg |-> none]
YUsesX == [NoDep EXCEPT ![y] = x]
YUsesSha3 == [NoDep EXCEPT ![y] = sha3]

OneVector == [a \in MCAlg |-> 1]
TwoVectorsX == [OneVector EXCEPT ![x] = 2]

AllSound == [a \in MCAlg |-> 0]
XBroken == [AllSound EXCEPT ![x] = 1]
Sha3Broken == [AllSound EXCEPT ![sha3] = 1]
Sha3YBroken == [Sha3Broken EXCEPT ![y] = 1]
=============================================================================

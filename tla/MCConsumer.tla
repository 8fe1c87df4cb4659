------------------------------ MODULE MCConsumer ------------------------------
(* Instances of Consumer: a feed of three events, one of them malformed and   *)
(* one from a newer build.                                                    *)
EXTENDS Consumer, TLC

ConsumerSymmetry == Permutations(Consumer) \cup Permutations(Operator)
=============================================================================

------------------------------- MODULE MCGateway -------------------------------
(* Two clients of one subject behind one address; the account is theirs if     *)
(* their subject registers it before the other one does.                       *)
EXTENDS Gateway, TLC

CONSTANTS c1, c2, s1, s2, a1

MCAddressOf == [c \in {c1, c2} |-> a1]
MCSubjectOf == [c \in {c1, c2} |-> s1]

ClientSymmetry == Permutations(Client)
================================================================================

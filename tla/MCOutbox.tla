------------------------------- MODULE MCOutbox -------------------------------
(* Instances of Outbox: two writers over two streams, two relays.             *)
EXTENDS Outbox, TLC

OutboxSymmetry ==
  Permutations(Stream) \cup Permutations(Writer) \cup Permutations(Relay)
=============================================================================

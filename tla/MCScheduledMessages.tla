------------------------ MODULE MCScheduledMessages ------------------------
(* Three messages, two sweeps that overlap, and sweeps that claim two rows  *)
(* at a time, so that a claim leaves a due row behind for the other sweep.  *)
EXTENDS ScheduledMessages, TLC

Symmetry == Permutations(Messages) \cup Permutations(Sweeps)
=============================================================================

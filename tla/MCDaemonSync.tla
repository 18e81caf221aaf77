---------------------------- MODULE MCDaemonSync ----------------------------
(* DaemonSync for TLC.                                                     *)
EXTENDS DaemonSync, TLC

\* Nothing distinguishes the texts.
Symmetry == Permutations(Text)
=============================================================================

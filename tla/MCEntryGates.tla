----------------------------- MODULE MCEntryGates -----------------------------
(* Small books: two pairs, a week of four units with a window of two.        *)
EXTENDS EntryGates, TLC

PairSymmetry == Permutations(Pairs)
================================================================================

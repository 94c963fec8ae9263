----------------------------- MODULE MC_PolicyApp -----------------------------
(* Small instance of PolicyApp: one name, so that the id of a deleted model  *)
(* is soon taken again.                                                      *)
EXTENDS PolicyApp, TLC

\* "plan"; the word 0 is "plan", the word 1 is "copy".
MCNames == {<<0>>}
MCCopy == 1

\* Neither users nor sessions are told apart by anything but their identity.
MCSymmetry == Permutations(Users) \cup Permutations(Sessions)

=============================================================================

---------------------------- MODULE MC_LocalAuth ----------------------------
(* Small instance of LocalAuth.                                              *)
EXTENDS LocalAuth, TLC

\* Only their identity tells browsers, emails or passwords apart.
MCSymmetry == Permutations(Browsers) \cup Permutations(Emails) \cup Permutations(Passwords)

=============================================================================

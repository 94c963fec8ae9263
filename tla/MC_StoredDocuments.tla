-------------------------- MODULE MC_StoredDocuments --------------------------
(* Small instance of StoredDocuments: a user and a blank one, a name and    *)
(* the name whose slug is the first one's suffixed id, inputs and inputs     *)
(* that the store keeps but does not read.                                   *)
EXTENDS StoredDocuments

\* "plan" and "plan-2"; the word 0 is "plan", the word 1 is "copy".
MCNames == {<<0>>, <<0, 2>>}
MCCopy == 1
=============================================================================

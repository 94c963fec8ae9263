----------------------------- MODULE MC_JsonFile -----------------------------
(* Small instance of JsonFile.                                                *)
EXTENDS JsonFile

=============================================================================

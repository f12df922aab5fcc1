------------------------- MODULE MC_RestoreProgress -------------------------
(* One registered restore task, an id nobody registered, and the empty id;
   sizes up to 2 bytes reach 0%, 50% and 100% and the empty task. *)
EXTENDS RestoreProgress

CONSTANTS t1, u1

MCTaskIds == {t1}
MCIds == {t1, u1, Empty}
=============================================================================

--------------------------- MODULE MC_BackupAdmin ---------------------------
(* Instances of BackupAdmin for TLC: the CreateBackup instances of
   MC_BackupCreate and one client deleting the same name. *)
EXTENDS MC_BackupCreate, BackupAdmin

CONSTANT a1

OneAdmin == {a1}
MCAdminName == [a \in Admins |-> n1]
=============================================================================

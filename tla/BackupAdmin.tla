----------------------------- MODULE BackupAdmin -----------------------------
(***************************************************************************)
(* DeleteBackup and GetBackup by name, run by clients concurrently with    *)
(* the CreateBackup requests of BackupCreate on the same BackupContext.    *)
(* Neither takes BackupContext.mu.  A client deletes a backup and then     *)
(* asks for it again (the spec's Delete scenario).                         *)
(***************************************************************************)
EXTENDS BackupCreate

CONSTANTS
    Admins,     \* clients calling DeleteBackup, then GetBackup
    AdminName   \* client -> the backup name it deletes, in Names

VARIABLES
    apc,        \* client -> "Get", "Remove", "Check" or "Done"
    got,        \* client -> the code of DeleteBackup's own GetBackup
    dresp,      \* client -> the code DeleteBackup returned
    after       \* client -> the code of the GetBackup after the delete

adminVars == <<apc, got, dresp, after>>

allVars == <<vars, adminVars>>

(* meta.GetBackupByName: the MetaManager keeps every backup AddBackup
   registered, in any state; nothing in DeleteBackup removes it. *)
InMeta(n) == \E r \in Requests : ReqName[r] = n /\ state[r] # "None"

(* GetBackup by name: the in-memory meta first, then readBackup of the
   manifest.  A failed Exist or Read sets Fail, and the nil backup then
   overwrites it with Request_Object_Not_Found. *)
GetBackupCodes(n) ==
    IF InMeta(n) THEN {"Success"}
    ELSE IF manifest[n] # NoManifest THEN {"Success", "NotFound"}
    ELSE {"NotFound"}

(* DeleteBackup, line 408: GetBackup of the name. *)
DeleteGet(a) ==
    /\ apc[a] = "Get"
    /\ \E c \in GetBackupCodes(AdminName[a]) : got' = [got EXCEPT ![a] = c]
    /\ apc' = [apc EXCEPT ![a] = "Remove"]
    /\ UNCHANGED <<dresp, after>>
    /\ UNCHANGED vars

(* Lines 412-445: RemoveWithPrefix of the backup's directory whatever
   GetBackup said, then the response.  A failed remove may have deleted
   part of the files. *)
DeleteRemove(a) ==
    LET n     == AdminName[a]
        files == {f \in dstStore : f[1] = n}
    IN
    /\ apc[a] = "Remove"
    /\ \E err \in BOOLEAN :
          /\ IF err
             THEN /\ \E gone \in SUBSET files : dstStore' = dstStore \ gone
                  /\ manifest' \in {manifest, [manifest EXCEPT ![n] = NoManifest]}
             ELSE /\ dstStore' = dstStore \ files
                  /\ manifest' = [manifest EXCEPT ![n] = NoManifest]
          /\ dresp' = [dresp EXCEPT ![a] =
                          IF got[a] = "NotFound" THEN "NotFound"
                          ELSE IF err THEN "Fail" ELSE "Success"]
    /\ apc' = [apc EXCEPT ![a] = "Check"]
    /\ UNCHANGED <<got, after>>
    /\ UNCHANGED <<clusterVars, mu, reqVars>>

(* The client's GetBackup once DeleteBackup has returned. *)
GetAfterDelete(a) ==
    /\ apc[a] = "Check"
    /\ \E c \in GetBackupCodes(AdminName[a]) : after' = [after EXCEPT ![a] = c]
    /\ apc' = [apc EXCEPT ![a] = "Done"]
    /\ UNCHANGED <<got, dresp>>
    /\ UNCHANGED vars

AdminInit ==
    /\ Init
    /\ apc = [a \in Admins |-> "Get"]
    /\ got = [a \in Admins |-> "None"]
    /\ dresp = [a \in Admins |-> "None"]
    /\ after = [a \in Admins |-> "None"]

AdminNext ==
    \/ Next /\ UNCHANGED adminVars
    \/ \E a \in Admins : DeleteGet(a) \/ DeleteRemove(a) \/ GetAfterDelete(a)

AdminSpec == AdminInit /\ [][AdminNext]_allVars

-----------------------------------------------------------------------------

(* The spec's Delete scenario: once DeleteBackup has answered Success, a
   GetBackup of the name answers Request_Object_Not_Found. *)
DeleteThenGetNotFound ==
    \A a \in Admins :
        dresp[a] = "Success" /\ apc[a] = "Done" => after[a] = "NotFound"

(* The type of the admin clients' state. *)
AdminTypeOK ==
    /\ apc \in [Admins -> {"Get", "Remove", "Check", "Done"}]
    /\ got \in [Admins -> {"None", "Success", "NotFound"}]
    /\ dresp \in [Admins -> {"None", "Success", "Fail", "NotFound"}]
    /\ after \in [Admins -> {"None", "Success", "NotFound"}]

(* The MetaManager entry DeleteBackup leaves behind is the only way the
   delete is not seen: once DeleteBackup answered Success, a GetBackup of
   the name that still finds the backup finds it because a CreateBackup
   registered the name in the MetaManager, never through a manifest that
   a concurrent CreateBackup wrote without registering it. *)
DeleteThenGetUnlessInMeta ==
    \A a \in Admins :
        dresp[a] = "Success" /\ apc[a] = "Done" /\ after[a] # "NotFound" =>
            InMeta(AdminName[a])

=============================================================================

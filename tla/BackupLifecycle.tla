--------------------------- MODULE BackupLifecycle ---------------------------
(***************************************************************************)
(* What CreateBackup promises about a backup's state code and about        *)
(* BackupContext.mu, stated without the prepare and copy machinery: a      *)
(* request registers its backup as Initial, takes the execution slot when  *)
(* it is free, and either fails (giving the slot back) or becomes Success  *)
(* while holding it and then gives it back.  Success and Fail are final.   *)
(***************************************************************************)
CONSTANT Requests   \* CreateBackup requests

VARIABLES
    status,     \* request -> the backup's state code
    inside      \* the requests inside executeCreateBackup

avars == <<status, inside>>

Init ==
    /\ status = [r \in Requests |-> "None"]
    /\ inside = {}

Register(r) ==
    /\ status[r] = "None"
    /\ status' = [status EXCEPT ![r] = "Initial"]
    /\ UNCHANGED inside

Acquire(r) ==
    /\ status[r] = "Initial"
    /\ inside = {}
    /\ inside' = {r}
    /\ UNCHANGED status

Abort(r) ==
    /\ inside = {r}
    /\ status[r] = "Initial"
    /\ status' = [status EXCEPT ![r] = "Fail"]
    /\ inside' = {}

Succeed(r) ==
    /\ inside = {r}
    /\ status[r] = "Initial"
    /\ status' = [status EXCEPT ![r] = "Success"]
    /\ UNCHANGED inside

Leave(r) ==
    /\ inside = {r}
    /\ status[r] = "Success"
    /\ inside' = {}
    /\ UNCHANGED status

(* The steps of a registered backup toward its final state. *)
Progress(r) == Acquire(r) \/ Abort(r) \/ Succeed(r) \/ Leave(r)

Next == \E r \in Requests : Register(r) \/ Progress(r)

Spec == Init /\ [][Next]_avars /\ \A r \in Requests : WF_avars(Progress(r))

(* The lifecycle without its fairness. *)
SafeSpec == Init /\ [][Next]_avars

-----------------------------------------------------------------------------

Statuses == {"None", "Initial", "Success", "Fail"}

(* The type of the lifecycle's state. *)
AbsTypeOK ==
    /\ status \in [Requests -> Statuses]
    /\ inside \subseteq Requests

(* The execution slot (BackupContext.mu) has at most one holder, and the
   holder's backup is registered and not failed: a failure gives the slot
   back in the step that records Fail. *)
SlotHeld ==
    \/ inside = {}
    \/ \E r \in Requests : inside = {r} /\ status[r] \in {"Initial", "Success"}

(* The changes of a state code that CreateBackup makes. *)
Advance == {<<"None", "Initial">>, <<"Initial", "Success">>, <<"Initial", "Fail">>}

(* The state code moves only forward along None -> Initial -> Success or
   Fail, so Success and Fail are final; and a backup becomes Success or
   Fail only while its request holds the slot. *)
StatusAdvances ==
    [][\A r \in Requests :
         status'[r] # status[r] =>
             /\ <<status[r], status'[r]>> \in Advance
             /\ status'[r] # "Initial" => inside = {r}]_avars
=============================================================================

------------------------ MODULE BackupLifecycleProofs ------------------------
(***************************************************************************)
(* Proofs about the abstract lifecycle of a backup, for every set of       *)
(* requests.  They hold of every specification that implements            *)
(* BackupLifecycle's safety part, CreateBackup's included.                 *)
(***************************************************************************)
EXTENDS BackupLifecycle, TLAPS

\* The slot invariant needs the type of status to be inductive.
LInv == AbsTypeOK /\ SlotHeld

\* The initial state satisfies the invariant.
LEMMA InitLInv == Init => LInv
BY DEF Init, LInv, AbsTypeOK, SlotHeld, Statuses

\* Every step of the lifecycle keeps it.
LEMMA NextLInv == LInv /\ [Next]_avars => LInv'
<1> SUFFICES ASSUME LInv, [Next]_avars PROVE LInv'
    OBVIOUS
<1>1. CASE UNCHANGED avars
    BY <1>1 DEF LInv, AbsTypeOK, SlotHeld, avars
<1>2. ASSUME NEW r \in Requests, Register(r) PROVE LInv'
    \* The holder's backup is registered, so it is not r.
    BY <1>2 DEF Register, LInv, AbsTypeOK, SlotHeld, Statuses
<1>3. ASSUME NEW r \in Requests, Acquire(r) PROVE LInv'
    BY <1>3 DEF Acquire, LInv, AbsTypeOK, SlotHeld
<1>4. ASSUME NEW r \in Requests, Abort(r) PROVE LInv'
    BY <1>4 DEF Abort, LInv, AbsTypeOK, SlotHeld, Statuses
<1>5. ASSUME NEW r \in Requests, Succeed(r) PROVE LInv'
    BY <1>5 DEF Succeed, LInv, AbsTypeOK, SlotHeld, Statuses
<1>6. ASSUME NEW r \in Requests, Leave(r) PROVE LInv'
    BY <1>6 DEF Leave, LInv, AbsTypeOK, SlotHeld
<1> QED
    BY <1>1, <1>2, <1>3, <1>4, <1>5, <1>6 DEF Next, Progress

\* The slot has at most one holder, whose backup is Initial or Success.
THEOREM SlotSafety == SafeSpec => []SlotHeld
BY InitLInv, NextLInv, PTL DEF SafeSpec, LInv

\* Each step of the lifecycle advances a state code only along Advance, and
\* makes it final only for the holder of the slot.
LEMMA NextAdvances ==
    AbsTypeOK /\ [Next]_avars =>
        [\A r \in Requests :
           status'[r] # status[r] =>
               /\ <<status[r], status'[r]>> \in Advance
               /\ status'[r] # "Initial" => inside = {r}]_avars
<1> SUFFICES ASSUME AbsTypeOK, Next, NEW q \in Requests, status'[q] # status[q]
             PROVE  /\ <<status[q], status'[q]>> \in Advance
                    /\ status'[q] # "Initial" => inside = {q}
    BY DEF avars
<1> PICK r \in Requests : Register(r) \/ Progress(r)
    BY DEF Next
<1>1. CASE Register(r)
    BY <1>1 DEF Register, Advance, AbsTypeOK
<1>2. CASE Acquire(r) \/ Leave(r)
    BY <1>2 DEF Acquire, Leave
<1>3. CASE Abort(r)
    BY <1>3 DEF Abort, Advance, AbsTypeOK
<1>4. CASE Succeed(r)
    BY <1>4 DEF Succeed, Advance, AbsTypeOK
<1> QED
    BY <1>1, <1>2, <1>3, <1>4 DEF Progress

\* The state code only advances, Success and Fail are final, and only the
\* holder of the slot finishes its backup.
THEOREM StatusSafety == SafeSpec => StatusAdvances
BY InitLInv, NextLInv, NextAdvances, PTL DEF SafeSpec, StatusAdvances, LInv
=============================================================================

----------------------- MODULE BackupCreateCoverProofs -----------------------
(***************************************************************************)
(* The lower side of the consistency cut of backupCollectionPrepare: with  *)
(* no "Segment return in Flush not exist" warning, a flushed backup        *)
(* records every row inserted before its FlushV2 returned.  The argument   *)
(* rests on CoverInv: the cluster never loses a row, FlushV2's result      *)
(* covers the rows inserted so far, and the rows of a flushed segment      *)
(* never change afterwards.                                                *)
(***************************************************************************)
EXTENDS BackupCreateProofs

\* The segments that hold the cluster's rows: growing or sealed, not
\* dropped by a compaction and not yet allocated.
LiveSegs == {s \in Segs : segState[s] \in {"Growing", "Sealed"}}

\* The segment selection of backupCollectionPrepare: the unfilled segments
\* are flushed ids, and when no flushed id is missing from both snapshots
\* (no warning) they are all of them.
LEMMA UnfilledIsFlushed ==
    ASSUME NEW F, NEW B, NEW A
    PROVE  /\ Unfilled(F, B, A) \subseteq F
           /\ Unmatched(F, B, A) = {} => Unfilled(F, B, A) = F
BY DEF Unfilled, Unmatched

\* No step changes the rows of a sealed or dropped segment: inserts go to
\* growing segments, and compaction writes a segment it has just allocated.
LEMMA FlushedRowsStable ==
    ASSUME IInv, [Next]_vars
    PROVE  \A s \in Segs : segState[s] \in {"Sealed", "Dropped"} => segRows'[s] = segRows[s]
<1> USE DEF IInv, TypeOK
<1>1. CASE \E row \in Rows : Insert(row)
    BY <1>1 DEF Insert, Fresh
<1>2. CASE \E a, b, c \in Segs : Compact({a, b}, c)
    BY <1>2 DEF Compact
<1>3. CASE UNCHANGED segRows
    BY <1>3
<1>4. QED
    BY <1>1, <1>2, <1>3
    DEF Next, Request, CopyJobs, Cluster, CheckName, Lock, Parse, PrepareFail,
        SnapshotBefore, Flush, SnapshotAfter, SnapshotForce, Fill, WaitCopy,
        SetSuccess, WriteMeta, CopyStep, AutoSeal, GarbageCollect, PauseExpires,
        Idle, vars, clusterVars, reqVars

\* The cluster never loses a row: every step keeps each inserted row in a
\* growing or sealed segment.
LEMMA NextRowsLive ==
    ASSUME IInv, Inserted \subseteq RowsOf(LiveSegs), [Next]_vars
    PROVE  Inserted' \subseteq RowsOf(LiveSegs)'
<1> USE DEF IInv, TypeOK
\* a row of a segment that is growing or sealed after the step
<1>0. ASSUME NEW x, NEW u \in Segs, segState'[u] \in {"Growing", "Sealed"}, x \in segRows'[u]
      PROVE  x \in RowsOf(LiveSegs)'
    <2>1. u \in LiveSegs'
        BY <1>0 DEF LiveSegs
    <2>2. QED
        BY <1>0, <2>1, Zenon DEF RowsOf
<1>1. ASSUME NEW G, segState' = [s \in Segs |-> IF s \in G THEN "Sealed" ELSE segState[s]],
             \A s \in G : segState[s] = "Growing", UNCHANGED segRows
      PROVE  Inserted' \subseteq RowsOf(LiveSegs)'
    BY <1>1 DEF Inserted, RowsOf, LiveSegs
<1>2. ASSUME NEW row \in Rows, Insert(row)
      PROVE  Inserted' \subseteq RowsOf(LiveSegs)'
    <2> SUFFICES ASSUME NEW x \in Inserted' PROVE x \in RowsOf(LiveSegs)'
        OBVIOUS
    <2>1. PICK t \in Segs : x \in segRows'[t]
        BY DEF Inserted, RowsOf
    \* a row already inserted stays where it was
    <2>2. ASSUME NEW u \in LiveSegs, x \in segRows[u], segState'[u] = segState[u],
                 segRows[u] \subseteq segRows'[u]
          PROVE  x \in RowsOf(LiveSegs)'
        BY <1>0, <2>2 DEF LiveSegs
    <2>3. CASE \E g \in Segs : /\ segState[g] = "Growing"
                               /\ segRows' = [segRows EXCEPT ![g] = @ \cup {row}]
                               /\ UNCHANGED segState
        <3>1. PICK g \in Segs : /\ segState[g] = "Growing"
                                /\ segRows' = [segRows EXCEPT ![g] = @ \cup {row}]
                                /\ UNCHANGED segState
            BY <2>3
        <3>2. CASE t = g
            BY <1>0, <2>1, <3>1, <3>2
        <3>3. CASE t # g
            <4>1. x \in Inserted
                BY <2>1, <3>1, <3>3 DEF Inserted, RowsOf
            <4>2. PICK u \in LiveSegs : x \in segRows[u]
                BY <4>1, <1>2 DEF RowsOf
            <4>3. QED
                BY <2>2, <3>1, <4>2 DEF LiveSegs
        <3>4. QED
            BY <3>2, <3>3
    <2>4. CASE /\ \A g \in Segs : segState[g] # "Growing"
               /\ \E s \in Fresh : /\ segState' = [segState EXCEPT ![s] = "Growing"]
                                   /\ segRows' = [segRows EXCEPT ![s] = {row}]
        <3>1. PICK s \in Fresh : /\ segState' = [segState EXCEPT ![s] = "Growing"]
                                 /\ segRows' = [segRows EXCEPT ![s] = {row}]
            BY <2>4
        <3>2. CASE t = s
            BY <1>0, <2>1, <3>1, <3>2 DEF Fresh
        <3>3. CASE t # s
            <4>1. x \in Inserted
                BY <2>1, <3>1, <3>3 DEF Inserted, RowsOf, Fresh
            <4>2. PICK u \in LiveSegs : x \in segRows[u]
                BY <4>1, <1>2 DEF RowsOf
            <4>3. u # s
                BY <3>1 DEF LiveSegs, Fresh
            <4>4. QED
                BY <2>2, <3>1, <4>2, <4>3 DEF LiveSegs, Fresh
        <3>4. QED
            BY <3>2, <3>3
    <2>5. QED
        BY <1>2, <2>3, <2>4 DEF Insert
<1>3. ASSUME NEW a \in Segs, NEW b \in Segs, NEW c \in Segs, Compact({a, b}, c)
      PROVE  Inserted' \subseteq RowsOf(LiveSegs)'
    <2> SUFFICES ASSUME NEW x \in Inserted' PROVE x \in RowsOf(LiveSegs)'
        OBVIOUS
    <2>1. PICK t \in Segs : x \in segRows'[t]
        BY DEF Inserted, RowsOf
    <2>2. segState'[c] = "Sealed" /\ segRows'[c] = RowsOf({a, b})
        BY <1>3 DEF Compact, Persistent
    <2>3. CASE t = c
        BY <1>0, <2>1, <2>2, <2>3
    <2>4. CASE t # c
        <3>1. x \in Inserted
            BY <1>3, <2>1, <2>4 DEF Compact, Inserted, RowsOf
        <3>2. PICK u \in LiveSegs : x \in segRows[u]
            BY <3>1, <1>3 DEF RowsOf
        <3>3. CASE u \in {a, b}
            <4>1. x \in segRows'[c]
                BY <2>2, <3>2, <3>3 DEF RowsOf
            <4>2. QED
                BY <1>0, <2>2, <4>1
        <3>4. CASE u \notin {a, b}
            <4>1. u # c
                BY <1>3, <3>2 DEF Compact, LiveSegs
            <4>2. segState'[u] = segState[u] /\ segRows'[u] = segRows[u]
                BY <1>3, <3>2, <3>4, <4>1 DEF Compact, LiveSegs
            <4>3. QED
                BY <1>0, <3>2, <4>2 DEF LiveSegs
        <3>5. QED
            BY <3>3, <3>4
    <2>5. QED
        BY <2>3, <2>4
<1>4. CASE UNCHANGED <<segState, segRows>>
    BY <1>4 DEF Inserted, RowsOf, LiveSegs
<1>5. ASSUME NEW r \in Requests, PrepareFail(r)
      PROVE  Inserted' \subseteq RowsOf(LiveSegs)'
    BY <1>1, <1>4, <1>5 DEF PrepareFail, Seal
<1>6. ASSUME NEW r \in Requests, Flush(r)
      PROVE  Inserted' \subseteq RowsOf(LiveSegs)'
    BY <1>1, <1>6 DEF Flush, Seal
<1>7. ASSUME NEW g \in Segs, AutoSeal(g)
      PROVE  Inserted' \subseteq RowsOf(LiveSegs)'
    \* sealing one growing segment leaves the live segments as they are
    <2>1. LiveSegs' = LiveSegs /\ UNCHANGED segRows
        BY <1>7 DEF AutoSeal, Seal, LiveSegs
    <2>2. QED
        BY <2>1 DEF Inserted, RowsOf
<1>8. QED
    BY <1>2, <1>3, <1>4, <1>5, <1>6, <1>7
    DEF Next, Request, CopyJobs, Cluster, CheckName, Lock, Parse,
        SnapshotBefore, SnapshotAfter, SnapshotForce, Fill, WaitCopy,
        SetSuccess, WriteMeta, CopyStep, GarbageCollect, PauseExpires,
        Idle, vars, clusterVars, reqVars

\* The per-request part of CoverInv.
ReqCover(q) ==
    /\ pc[q] = "After" => cut[q] \subseteq RowsOf(flushIds[q])
    /\ Prepared(q) /\ ~force[q] /\ ~warned[q] => cut[q] \subseteq RowsOf(segs[q])

\* CoverInv holds initially: nothing is inserted and no request has flushed.
LEMMA InitCover == Init => CoverInv
BY DEF Init, CoverInv, CutCoversEarlierRows, Prepared, Inserted, RowsOf

\* Every step preserves CoverInv in a state where the cut of each flushed
\* request names sealed or dropped segments only (FlushCutInv).
LEMMA NextCover == IInv /\ FlushCutInv /\ CoverInv /\ [Next]_vars => CoverInv'
<1> SUFFICES ASSUME IInv, FlushCutInv, CoverInv, [Next]_vars PROVE CoverInv'
    OBVIOUS
<1> USE DEF IInv, TypeOK
<1>1. Inserted' \subseteq RowsOf({s \in Segs : segState[s] \in {"Growing", "Sealed"}})'
    BY NextRowsLive DEF CoverInv, LiveSegs
<1>2. \A s \in Segs : segState[s] \in {"Sealed", "Dropped"} => segRows'[s] = segRows[s]
    BY FlushedRowsStable
\* the rows of flushed segments are the same after the step
<1>3. ASSUME NEW q \in Requests, NEW S \in SUBSET flushIds[q]
      PROVE  RowsOf(S)' = RowsOf(S)
    BY <1>2 DEF FlushCutInv, RowsOf
\* a request whose cut, flush result and recorded segments the step leaves
\* alone, and that neither reaches the after-flush snapshot nor returns
\* from the prepare
<1>4. ASSUME NEW q \in Requests,
             cut'[q] = cut[q], flushIds'[q] = flushIds[q], segs'[q] = segs[q],
             force'[q] = force[q], warned'[q] = warned[q],
             pc'[q] = "After" => pc[q] = "After",
             Prepared(q)' => Prepared(q)
      PROVE  ReqCover(q)'
    <2>1. pc'[q] = "After" => cut'[q] \subseteq RowsOf(flushIds[q])'
        BY <1>3, <1>4 DEF CoverInv, ReqCover
    <2>2. Prepared(q)' /\ ~force'[q] /\ ~warned'[q] => cut'[q] \subseteq RowsOf(segs[q])'
        <3>1. SUFFICES ASSUME Prepared(q)', ~force'[q], ~warned'[q]
                       PROVE  cut'[q] \subseteq RowsOf(segs[q])'
            OBVIOUS
        <3>2. segs[q] \subseteq flushIds[q] /\ cut[q] \subseteq RowsOf(segs[q])
            BY <1>4, <3>1 DEF FlushCutInv, CoverInv, CutCoversEarlierRows
        <3>3. QED
            BY <1>3, <1>4, <3>2
    <2>6. QED
        BY <1>4, <2>1, <2>2 DEF ReqCover
<1>5. ASSUME NEW q \in Requests PROVE ReqCover(q)'
    <2> USE DEF Prepared
    <2>1. ASSUME NEW r \in Requests, CheckName(r) PROVE ReqCover(q)'
        BY <1>4, <2>1 DEF CheckName, FlushCutInv
    <2>2. ASSUME NEW r \in Requests, Lock(r) PROVE ReqCover(q)'
        BY <1>4, <2>2 DEF Lock
    <2>3. ASSUME NEW r \in Requests, Parse(r) PROVE ReqCover(q)'
        BY <1>4, <2>3 DEF Parse, FailBackup, FirstPrepareStep
    <2>4. ASSUME NEW r \in Requests, PrepareFail(r) PROVE ReqCover(q)'
        BY <1>4, <2>4 DEF PrepareFail, FailBackup, FirstPrepareStep
    <2>5. ASSUME NEW r \in Requests, SnapshotBefore(r) PROVE ReqCover(q)'
        BY <1>4, <2>5 DEF SnapshotBefore
    <2>6. ASSUME NEW r \in Requests, Flush(r) PROVE ReqCover(q)'
        <3>1. CASE r # q
            BY <1>4, <2>6, <3>1 DEF Flush
        \* FlushV2 seals every growing segment, so its result holds every
        \* row inserted so far
        <3>2. CASE r = q
            <4>1. {s \in Segs : segState[s] \in {"Growing", "Sealed"}} \subseteq Persistent'
                BY <2>6 DEF Flush, Seal, Persistent
            <4>2. Inserted \subseteq UNION {segRows[s] : s \in Persistent'}
                BY <4>1 DEF CoverInv, RowsOf
            <4>3. RowsOf(flushIds[q])' = UNION {segRows[s] : s \in Persistent'}
                BY <2>6, <3>2 DEF Flush, RowsOf
            <4>4. QED
                BY <2>6, <3>2, <4>2, <4>3 DEF Flush, ReqCover
        <3>3. QED
            BY <3>1, <3>2
    <2>7. ASSUME NEW r \in Requests, SnapshotAfter(r) PROVE ReqCover(q)'
        <3>1. CASE r # q
            BY <1>4, <2>7, <3>1 DEF SnapshotAfter
        \* with no warning every flushed id is in one of the snapshots, so the
        \* backup records every flushed segment
        <3>2. CASE r = q
            <4>1. ~warned'[q] => segs'[q] = flushIds[q]
                BY <2>7, <3>2, UnfilledIsFlushed DEF SnapshotAfter
            <4>2. cut[q] \subseteq RowsOf(flushIds[q])
                BY <2>7, <3>2 DEF SnapshotAfter, CoverInv
            <4>3. QED
                BY <2>7, <3>2, <4>1, <4>2 DEF SnapshotAfter, ReqCover, clusterVars, RowsOf
        <3>3. QED
            BY <3>1, <3>2
    <2>8. ASSUME NEW r \in Requests, SnapshotForce(r) PROVE ReqCover(q)'
        <3>1. CASE r # q
            BY <1>4, <2>8, <3>1 DEF SnapshotForce
        <3>2. CASE r = q
            BY <2>8, <3>2 DEF SnapshotForce, FlushCutInv, ReqCover
        <3>3. QED
            BY <3>1, <3>2
    <2>9. ASSUME NEW r \in Requests, NEW s \in Segs, Fill(r, s) PROVE ReqCover(q)'
        BY <1>4, <2>9 DEF Fill, FailBackup
    <2>10. ASSUME NEW r \in Requests, WaitCopy(r) PROVE ReqCover(q)'
        BY <1>4, <2>10 DEF WaitCopy, FailBackup
    <2>11. ASSUME NEW r \in Requests, SetSuccess(r) PROVE ReqCover(q)'
        BY <1>4, <2>11 DEF SetSuccess
    <2>12. ASSUME NEW r \in Requests, WriteMeta(r) PROVE ReqCover(q)'
        BY <1>4, <2>12 DEF WriteMeta
    <2>13. ASSUME NEW r \in Requests, NEW s \in Segs, CopyStep(r, s) PROVE ReqCover(q)'
        BY <1>4, <2>13 DEF CopyStep
    <2>14. CASE Cluster \/ Idle \/ UNCHANGED vars
        BY <1>4, <2>14
        DEF Cluster, Insert, AutoSeal, Compact, GarbageCollect, PauseExpires,
            Idle, vars, reqVars
    <2>15. QED
        BY <2>1, <2>2, <2>3, <2>4, <2>5, <2>6, <2>7, <2>8, <2>9, <2>10,
           <2>11, <2>12, <2>13, <2>14
        DEF Next, Request, CopyJobs
<1>6. QED
    BY <1>1, <1>5 DEF CoverInv, CutCoversEarlierRows, ReqCover

\* The lower side of the consistency cut, for every instance: unless
\* backupCollectionPrepare logged that a flushed segment is in neither
\* GetPersistentSegmentInfo snapshot, a flushed backup records a segment
\* holding each row inserted before its FlushV2 returned, whatever the
\* cluster inserts, seals and compacts around the flush.
THEOREM CutCompleteness == Spec => []CutCoversEarlierRows
<1>1. CoverInv => CutCoversEarlierRows
    BY DEF CoverInv
<1>2. QED
    BY <1>1, InitIInv, NextIInv, InitCut, NextCut, InitCover, NextCover, PTL DEF Spec

\* No row is lost by the cluster, FlushV2's result covers the rows inserted
\* before it, and the lower side of the cut holds, in every reachable state.
THEOREM CoverInvariant == Spec => []CoverInv
BY InitIInv, NextIInv, InitCut, NextCut, InitCover, NextCover, PTL DEF Spec
=============================================================================

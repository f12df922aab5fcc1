--------------------------- MODULE MC_PathRewrite ---------------------------
(* Small instances of PathRewrite.  Partition 3's digits occur inside the
   later partition ids 13 and 23, in segment ids, in a root path and in a
   backup name; collection 1 holds two partitions. *)
EXTENDS PathRewrite

MCSegments ==
    { [coll |-> 1, part |-> 3,  id |-> 4],
      [coll |-> 1, part |-> 3,  id |-> 31],
      [coll |-> 1, part |-> 13, id |-> 14],
      [coll |-> 2, part |-> 23, id |-> 34] }

MCFields == {1, 3}

MCLogIds == {3}

MCBackupRoot == <<"backup">>

\* "n", "n3", "n13" and "3n"; ValidateType rejects "3n"
MCNames == { <<"n">>, <<"n", "3">>, <<"n", "1", "3">>, <<"3", "n">> }

\* "", "files" and "f3"
MCRootPaths == { <<>>, <<"files">>, <<"f", "3">> }
=============================================================================

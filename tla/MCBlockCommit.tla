---------------------------- MODULE MCBlockCommit ----------------------------
(***************************************************************************)
(* The configurations of the runs of BlockCommit, and the crash windows    *)
(* that are not survived.                                                  *)
(***************************************************************************)
EXTENDS BlockCommit

\* VerifiableState needs the cache database.
Database == [database |-> TRUE, verifiable |-> TRUE]
Memory == [database |-> FALSE, verifiable |-> FALSE]
AllModes == {Database, Memory}
DatabaseMode == {Database}

\* Windows in which a crash is not survived (nor is one while the state directory is renamed, at renameState).
DropWindow == MoveWindows(TRUE)
PublishWindow == {"commit"} \X {"publishIndex"} \X Always
=============================================================================

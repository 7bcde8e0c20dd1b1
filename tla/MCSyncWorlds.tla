---------------------------- MODULE MCSyncWorlds ----------------------------
(* StandardsSync and RelatonRecords, the files of a joint standard, in one   *)
(* run.  A behaviour is of one of them, the other stands still.              *)
EXTENDS MCStandardsSync, MCRelatonFiles, RelatonRecords

VARIABLE world

-----------------------------------------------------------------------------
WorldsInit ==
    /\ world \in {"sync", "file"}
    /\ Init
    /\ world = "file" => scene = Joint
    /\ made = NotRead
    /\ IF world = "file" THEN doc \in Documents
       ELSE doc = CHOOSE d \in Documents : TRUE

\* A file that has been read stays as it is.
WorldsNext ==
    \/ world = "sync" /\ Next /\ UNCHANGED <<world, recordVars>>
    \/ world = "file" /\ RecordNext /\ UNCHANGED <<world, vars>>
    \/ world = "file" /\ made.read /\ UNCHANGED <<world, vars, recordVars>>

WorldsSpec == WorldsInit /\ [][WorldsNext]_<<world, vars, recordVars>>
=============================================================================

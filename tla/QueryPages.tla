------------------------------ MODULE QueryPages -------------------------------
(***************************************************************************)
(* Two pages that show the answer to what was last asked: the debugging    *)
(* page of the devices (DeviceDebug) and a pane of the records (Records).  *)
(* They share no state, so a behaviour is of one of them.                  *)
(***************************************************************************)
EXTENDS DeviceDebug, Records

VARIABLE queryPage
queryVars == <<queryPage, vars, recVars>>

QueryInit ==
    /\ Init /\ RecordsInit
    /\ \/ queryPage = "debug" /\ kind = "alarm"
       \/ queryPage = "records" /\ enabled

DebugPage == queryPage = "debug" /\ Next /\ UNCHANGED <<queryPage, recVars>>
RecordsPane == queryPage = "records" /\ RecordsNext /\ UNCHANGED <<queryPage, vars>>

QuerySpec == QueryInit /\ [][DebugPage \/ RecordsPane]_queryVars
=============================================================================

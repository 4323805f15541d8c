------------------------------- MODULE PageSide -------------------------------
(***************************************************************************)
(* Three pages of the shell that keep what they have read and what was     *)
(* edited: the maintenance plans (Maintenance), the map (MapPage) and the  *)
(* curves (ChartPage).  They share no state, so a behaviour is of one.     *)
(***************************************************************************)
EXTENDS Maintenance, MapPage, ChartPage

VARIABLE pageSide
pageSideVars == <<pageSide, vars, mapPageVars, chartVars>>

PageSideInit ==
    /\ Init /\ MapPageInit /\ ChartInit
    /\ \/ pageSide = "maintenance" \/ pageSide = "map" \/ pageSide = "chart"
    /\ pageSide # "map" => ~ editor /\ db = CHOOSE d \in Databases : TRUE
    /\ pageSide # "chart" => tab = "realtime"

MaintenancePage == pageSide = "maintenance" /\ Next /\ UNCHANGED <<pageSide, mapPageVars, chartVars>>
TheMapPage == pageSide = "map" /\ MapPageNext /\ UNCHANGED <<pageSide, vars, chartVars>>
TheChartPage == pageSide = "chart" /\ ChartNext /\ UNCHANGED <<pageSide, vars, mapPageVars>>

PageSideSpec == PageSideInit /\ [][MaintenancePage \/ TheMapPage \/ TheChartPage]_pageSideVars
-----------------------------------------------------------------------------
\* What the pages show is true: overdue work is among the cards, the legends and the
\* current values say what is drawn, and unsaved places are told.
PagesAreTrue ==
    /\ CardsAreTrue /\ ChartsAreTrue /\ UnsavedIsTold

\* What is edited on a page, and what is exported from it, is what was shown there:
\* of a plan the fields that were changed, of a map the places points were dropped at
\* and the map that was confirmed, of the curves the answer to the last query.
EditsAsShown ==
    EditKeepsTheRest /\ SavedAsDropped /\ MapDeletedAsConfirmed /\ ExportsTheAnswer
=============================================================================

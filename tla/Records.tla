------------------------------ MODULE Records ------------------------------
(***************************************************************************)
(* The three records that are judged in hindsight: a day's readings        *)
(* (SettlementDay), an account's trades (TradeHistory) and the archive of  *)
(* settled events (ResearchArchive).  No code makes one depend on another, *)
(* so a behaviour lets one of them, its subject, grow.                     *)
(***************************************************************************)
EXTENDS SettlementDay, TradeHistory, ResearchArchive

VARIABLE subject
recordVars == <<dayVars, historyVars, archiveVars, subject>>

RecordsInit ==
  /\ subject \in {"day", "trades", "archive"}
  /\ DayInit
  /\ subject = "day" \/ (metric = "max" /\ forecast = CHOOSE f \in Forecasts : TRUE)
  /\ HistoryInit
  /\ ArchiveInit

DayGrows == /\ subject = "day"
            /\ DayNext
            /\ UNCHANGED <<historyVars, archiveVars, subject>>

TradesGrow == /\ subject = "trades"
              /\ HistoryNext
              /\ UNCHANGED <<dayVars, archiveVars, subject>>

ArchiveGrows == /\ subject = "archive"
                /\ ArchiveNext
                /\ UNCHANGED <<dayVars, historyVars, subject>>

RecordsNext == DayGrows \/ TradesGrow \/ ArchiveGrows

RecordsSpec == RecordsInit /\ [][RecordsNext]_recordVars
=============================================================================

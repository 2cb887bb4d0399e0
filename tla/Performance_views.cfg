SPECIFICATION PerformanceSpec
CONSTANTS
    Deals <- MCDeals
    KindOf <- MCKindOf
    Issued <- MCIssued
    Retention = 0
    Scenes <- MCScenes
    Results <- MCResults
    Members = {"ann", "bob"}
    Balances = {1, 2}
    DayLength = 1
    Period = 1
    LastInstant = 2
    TopSymbols = 2
    Shown = 1

INVARIANTS
    PerformanceTypeOK
    ReportAgrees
    ViewsAgree
    ReturnMatchesBalances

CHECK_DEADLOCK FALSE

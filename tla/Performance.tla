----------------------------- MODULE Performance -----------------------------
(***************************************************************************)
(* What the platform says about its results: the administrator's reports   *)
(* (routers/admin/analytics.py), a member's overview and the public page   *)
(* (services/analytics.py), and the balances captured every four hours     *)
(* (services/portfolio_snapshots.py).                                      *)
(*                                                                         *)
(* A report is one request of many SELECTs, and at READ COMMITTED each of  *)
(* them sees what was committed when it runs: positions close, once or    *)
(* twice, and strategies and old signals are deleted between two sections  *)
(* of the same report.                                                     *)
(* Amounts are integers and rates are in hundredths of a percent, so only  *)
(* rounding to cents is left out; so are Sharpe ratios and averages.       *)
(***************************************************************************)
EXTENDS Integers, Sequences, FiniteSets, Functions

CONSTANTS
    Deals,      \* Trades -> what a trade is; the strategy it was made for included
    KindOf,     \* Strategies -> strategy_type
    Issued,     \* Signals -> where and when they were created
    Retention,  \* how long an expired signal is kept
    Results,    \* what a closed position may have earned
    Members, Balances,
    Scenes,     \* which trades happen, which may close twice, who connected what, bounds
    DayLength, Period, LastInstant, TopSymbols, Shown      \* bounds

Trades == DOMAIN Deals
Strategies == DOMAIN KindOf
Signals == DOMAIN Issued
Venues == {"hyperliquid", "bybit", "binance"}
Sides == {"buy", "sell"}
Instants == 0..LastInstant
Day(i) == i \div DayLength

ASSUME PerformanceConstants ==
    /\ IsFiniteSet(Trades) /\ Trades \subseteq Nat /\ IsFiniteSet(Members)
    /\ \A t \in Trades :
         Deals[t] \in [owner : Members, strategy : Strategies, venue : Venues,
                       side : Sides, symbol : STRING, signal : Signals,
                       value : Nat, leverage : Nat]
    /\ \A s \in Signals : Issued[s] \in [venue : Venues, at : Nat]
    /\ Results \subseteq Int /\ Balances \subseteq Nat
    /\ DayLength \in Nat \ {0} /\ {Period, Retention, LastInstant, TopSymbols, Shown} \subseteq Nat
    /\ \A s \in Scenes :
         /\ s.trades \subseteq Trades /\ s.twice \subseteq s.trades /\ s.last \in Instants /\ s.captures \in Nat
         /\ s.requests \subseteq [kind : {"performance", "trading", "executions"},
                                  period : {"today", "days", "custom"},
                                  venue : Venues \union {"any"}]
         /\ s.connected \in [Members -> SUBSET Venues]

VARIABLES
    clock,
    scene,      \* the trades and the connected exchanges of this behaviour
    rows,       \* the executions table
    dropped,    \* strategies deleted
    purged,     \* signals deleted
    held,       \* rows that somebody who has read them FILLED will still close
    report,     \* the administrator's report in flight
    changed,    \* history: what became of closed trades since its first SELECT
    balance,    \* Members -> Venues -> what the exchange would answer
    snapshots,  \* portfolio_snapshots, oldest first
    capture,    \* the run of capture_portfolio_snapshots
    overview    \* a member's overview in flight, its snapshot part

tables == <<clock, rows, dropped, purged, held>>
portfolio == <<balance, snapshots, capture, overview>>
performanceVars == <<scene, tables, report, changed, portfolio>>

Statuses == {"NONE", "FILLED", "FAILED", "CLOSED"}
Absent == [status |-> "NONE", created |-> 0, executed |-> 0, pnl |-> << >>]
NoReport == [kind |-> "none", left |-> << >>, since |-> 0, until |-> 0, venue |-> "any",
             core |-> << >>, section |-> "none", parts |-> << >>, fall |-> 0]
NoCapture == [running |-> FALSE, todo |-> {}, taken |-> << >>, done |-> 0]
NoOverview == [stage |-> "none", member |-> CHOOSE m \in Members : TRUE, start |-> 0,
               custom |-> FALSE, before |-> << >>, latest |-> << >>, from |-> << >>,
               return |-> 0, disturbed |-> FALSE]

PerformanceTypeOK ==
    /\ clock \in Instants
    /\ rows \in [Trades -> [status : Statuses, created : Instants, executed : Instants,
                            pnl : {<< >>} \union {<<p>> : p \in Results}]]
    /\ \A t \in Trades : rows[t].pnl # << >> <=> rows[t].status = "CLOSED"
    /\ dropped \subseteq Strategies /\ purged \subseteq Signals /\ held \subseteq Trades
    /\ changed \subseteq {"closed", "resettled", "removed"} \X Trades
    /\ \A i \in 1..Len(snapshots) :
         /\ snapshots[i].member \in Members /\ snapshots[i].total \in Nat
         /\ i > 1 => snapshots[i-1].at <= snapshots[i].at
    /\ capture.done \in 0..scene.captures
    /\ overview.stage \in {"none", "before", "latest", "from", "answered"}

PerformanceInit ==
    /\ clock = 0
    /\ scene \in Scenes
    /\ rows = [t \in Trades |-> Absent]
    /\ dropped = {} /\ purged = {} /\ held = {}
    /\ report = NoReport
    /\ changed = {}
    /\ balance \in [Members -> [Venues -> Balances]]
    /\ \A m \in Members, v \in Venues : v \notin scene.connected[m] =>
           balance[m][v] = CHOOSE b \in Balances : TRUE
    /\ snapshots = << >>
    /\ capture = NoCapture
    /\ overview = NoOverview

-----------------------------------------------------------------------------
(* The executions table: what the workers commit to it.                    *)

\* history: the clock or a capture moved on under an overview being read
Disturbed ==
    [overview EXCEPT !.disturbed = @ \/ overview.stage \in {"before", "latest", "from"}]

Tick ==
    /\ clock < scene.last
    /\ clock' = clock + 1
    /\ overview' = Disturbed
    /\ UNCHANGED <<scene, rows, dropped, purged, held, report, changed, balance, snapshots, capture>>

\* created_at is the start of the worker's transaction, executed_at the
\* moment after the order
Record(t) ==
    /\ t \in scene.trades
    /\ rows[t].status = "NONE"
    /\ Deals[t].strategy \notin dropped /\ Deals[t].signal \notin purged
    /\ \E began \in {clock, clock - 1} \intersect Instants :
         \/ rows' = [rows EXCEPT ![t] = [Absent EXCEPT !.status = "FILLED", !.created = began,
                                                       !.executed = clock]]
         \/ rows' = [rows EXCEPT ![t] = [Absent EXCEPT !.status = "FAILED", !.created = began]]
    /\ UNCHANGED <<scene, clock, dropped, purged, held, report, changed, portfolio>>

\* history: while a report is being read
Noted(kind, T) == IF report.kind = "none" THEN changed ELSE changed \union ({kind} \X T)

CloseBlank(t, p) ==
    /\ rows[t].status = "FILLED"
    /\ rows' = [rows EXCEPT ![t].status = "CLOSED"]
    /\ changed' = Noted("closed", {t})
    /\ UNCHANGED <<scene, clock, dropped, purged, held, report, portfolio>>

\* apply_close_details: the status is looked at when the row is read, before
\* the exchange is asked; a monitor and a close request that both read it
\* FILLED both write their pnl, the second over the first
Close(t, p) ==
    /\ rows[t].status = "FILLED" \/ t \in held
    /\ rows' = [rows EXCEPT ![t].status = "CLOSED", ![t].pnl = <<p>>]
    /\ held' \in {held \ {t}, held \union ({t} \intersect scene.twice)}
    /\ changed' = Noted(IF rows[t].status = "CLOSED" THEN "resettled" ELSE "closed", {t})
    /\ UNCHANGED <<scene, clock, dropped, purged, report, portfolio>>

\* executions go with what they refer to, closed ones included
Remove(T) ==
    /\ rows' = [t \in Trades |-> IF t \in T THEN Absent ELSE rows[t]]
    /\ held' = held \ T
    /\ changed' = Noted("removed", {t \in T : rows[t].status = "CLOSED"})
    /\ UNCHANGED <<scene, clock, report, portfolio>>

\* db.delete(strategy)
DeleteStrategy(s) ==
    /\ s \in {Deals[t].strategy : t \in scene.trades} \ dropped
    /\ dropped' = dropped \union {s}
    /\ Remove({t \in Trades : Deals[t].strategy = s})
    /\ UNCHANGED purged

\* the weekly _cleanup_old_data_async: old signals that are EXPIRED, of the
\* three tables in one transaction; any that is old may or may not have expired
CleanUp ==
    /\ \E old \in SUBSET {s \in {Deals[t].signal : t \in scene.trades} \ purged :
                             Issued[s].at < clock - Retention} :
         /\ old # {}
         /\ purged' = purged \union old
         /\ Remove({t \in Trades : Deals[t].signal \in old})
    /\ UNCHANGED dropped

-----------------------------------------------------------------------------
(* Figures over a set of booked trades.                                    *)

Total(f, T) == SumFunctionOnSet(f, T)
Earned == [t \in Trades |-> IF rows[t].pnl = << >> THEN 0 ELSE Head(rows[t].pnl)]
Traded == [t \in Trades |-> Deals[t].value]
Levered == [t \in Trades |-> Deals[t].value * Deals[t].leverage]

Won(T) == {t \in T : Earned[t] > 0}
Figures(T) == [trades |-> Cardinality(T), wins |-> Cardinality(Won(T)), pnl |-> Total(Earned, T)]
GroupBy(T, key, K) == [k \in K |-> Figures({t \in T : key[t] = k})]
Present(T, key) == {key[t] : t \in T}

\* a ratio as the code rounds it, in hundredths of a percent
Percent(n, d) == IF d <= 0 THEN 0 ELSE (20000 * n + d) \div (2 * d)

Booked(S, since, until) ==
    {t \in Trades : /\ rows[t].status \in S /\ rows[t].pnl # << >>
                    /\ since <= rows[t].created /\ rows[t].created <= until}

OnVenue(T, v) == {t \in T : v = "any" \/ Deals[t].venue = v}

\* the loop over the days (or trades) of a curve: total, peak and worst fall
Falls(n, step) ==
    LET at[i \in 0..n] ==
            IF i = 0 THEN [total |-> 0, peak |-> 0, worst |-> 0]
            ELSE LET total == at[i-1].total + step[i]
                     peak == IF total > at[i-1].peak THEN total ELSE at[i-1].peak
                 IN [total |-> total, peak |-> peak,
                     worst |-> IF peak - total > at[i-1].worst THEN peak - total
                               ELSE at[i-1].worst]
    IN at[n]

-----------------------------------------------------------------------------
(* The administrator's reports, one SELECT after another.                  *)

Final == {"CLOSED", "FILLED"}      \* closed_statuses
Column(field) == [t \in Trades |-> Deals[t][field]]
DayMade == [t \in Trades |-> Day(rows[t].created)]
TypeOf == [t \in Trades |-> KindOf[Deals[t].strategy]]

Plans == [performance |-> <<"core", "days", "executions", "venues", "sides", "symbols",
                            "bitsymbols", "types", "executed", "profitable", "recent">>,
          trading |-> <<"core", "sums", "days", "executions", "symbols", "sides", "types">>,
          executions |-> <<"count", "statuses">>]

\* the period of a report: today, the last Period instants, or a custom range
Windows(period) ==
    IF period = "today" THEN {<<DayLength * Day(clock), clock>>}
    ELSE IF period = "days" THEN {<<clock - Period, clock>>}
    ELSE (0..scene.last) \X (0..scene.last)

RequestReport ==
    /\ report.kind = "none"
    /\ \E r \in scene.requests : \E w \in Windows(r.period) :
         report' = [NoReport EXCEPT !.kind = r.kind, !.left = Plans[r.kind], !.since = w[1],
                    !.until = IF r.kind = "trading" THEN LastInstant ELSE w[2], !.venue = r.venue]
    /\ changed' = {}
    /\ UNCHANGED <<scene, tables, portfolio>>

Asked(q) == OnVenue(Booked(Final, q.since, q.until), q.venue)
Made(q) == {t \in Trades : /\ rows[t].status # "NONE"
                           /\ q.since <= rows[t].created /\ rows[t].created <= q.until}
MadeThere(q) == OnVenue(Made(q), q.venue)
InState(T, S) == Cardinality({t \in T : rows[t].status \in S})

Core(T) ==
    LET profit == Total(Earned, Won(T))
        loss == -Total(Earned, {t \in T : Earned[t] < 0})
        rate == Percent(profit, profit + loss)
    IN [trades |-> Cardinality(T), wins |-> Cardinality(Won(T)), pnl |-> Total(Earned, T),
        profit |-> profit, loss |-> loss, winRate |-> rate,
        lossRate |-> IF T = {} THEN 0 ELSE 10000 - rate,
        volume |-> Total(Levered, T), users |-> Cardinality(Present(T, Column("owner")))]

\* profit and loss of every day, and the worst fall of their running total
DayGroups(q) == GroupBy(Asked(q), DayMade, Present(Asked(q), DayMade))
DayFall(groups) ==
    Falls(Day(LastInstant) + 1,
          [i \in 1..(Day(LastInstant) + 1) |->
              IF i - 1 \in DOMAIN groups THEN groups[i-1].pnl ELSE 0]).worst

ExecutionGroups(q) ==
    [d \in Present(MadeThere(q), DayMade) |->
        LET T == {t \in MadeThere(q) : DayMade[t] = d}
        IN [filled |-> InState(T, Final), failed |-> InState(T, {"FAILED"}),
            total |-> Cardinality(T)]]

\* the venue section ignores the exchange the report was asked for
VenueGroups(q) == LET T == Booked(Final, q.since, q.until)
                  IN GroupBy(T, Column("venue"), Present(T, Column("venue")))

\* Variant with a slip: the exchange that was asked for is forgotten.
SideGroupsEverywhere(q) == GroupBy(Booked(Final, q.since, q.until), Column("side"), Sides)

SideGroups(q) == GroupBy(Asked(q), Column("side"), Sides)
TypeGroups(q) == GroupBy(Asked(q), TypeOf, Present(Asked(q), TypeOf))

\* symbols come from the signal, looked for in one table at a time; no
\* statement looks in binance_signals
SymbolGroups(q, v) == LET T == OnVenue(Asked(q), v)
                      IN GroupBy(T, Column("symbol"), Present(T, Column("symbol")))
AddedUp(a, b) == [trades |-> a.trades + b.trades, wins |-> a.wins + b.wins, pnl |-> a.pnl + b.pnl]
Merged(g, h) ==
    [k \in DOMAIN g \union DOMAIN h |->
        IF k \notin DOMAIN g THEN h[k] ELSE IF k \notin DOMAIN h THEN g[k] ELSE AddedUp(g[k], h[k])]
\* sorted by profit, the best ones shown
BestOf(g) ==
    {[k \in K |-> g[k]] : K \in {K \in SUBSET DOMAIN g :
        /\ Cardinality(K) = IF Cardinality(DOMAIN g) < TopSymbols THEN Cardinality(DOMAIN g)
                            ELSE TopSymbols
        /\ \A k \in K, o \in DOMAIN g \ K : g[k].pnl >= g[o].pnl}}

Upcoming(section) == report.left # << >> /\ Head(report.left) = section

Read(section, parts, fall) ==
    /\ Upcoming(section)
    /\ report' = [report EXCEPT !.left = Tail(@), !.section = section, !.parts = parts,
                                !.fall = fall]
    /\ UNCHANGED <<scene, tables, changed, portfolio>>

ReadCore ==
    /\ Upcoming("core")
    /\ report' = [report EXCEPT !.left = Tail(@), !.section = "core", !.core = Core(Asked(report))]
    /\ changed' = {}
    /\ UNCHANGED <<scene, tables, portfolio>>

\* the trading report sums profits and losses in a second statement, so its
\* win rate is of another moment than its number of trades
ReadSums ==
    /\ Upcoming("sums")
    /\ LET sums == Core(Asked(report))
       IN report' = [report EXCEPT !.left = Tail(@), !.section = "sums",
                         !.core = [@ EXCEPT !.profit = sums.profit, !.loss = sums.loss,
                                            !.winRate = sums.winRate,
                                            !.lossRate = IF report.core.trades = 0 THEN 0
                                                         ELSE 10000 - sums.winRate]]
    /\ UNCHANGED <<scene, tables, changed, portfolio>>

ReadDays == Read("days", DayGroups(report), DayFall(DayGroups(report)))
ReadExecutions == Read("executions", ExecutionGroups(report), 0)
ReadVenues == Read("venues", VenueGroups(report), 0)
ReadSides == Read("sides", SideGroups(report), 0)
ReadTypes == Read("types", TypeGroups(report), 0)
ReadSymbols == Read("symbols", SymbolGroups(report, "hyperliquid"), 0)
ReadBitSymbols ==
    Upcoming("bitsymbols") /\ \E g \in BestOf(Merged(report.parts, SymbolGroups(report, "bybit"))) :
        Read("bitsymbols", g, 0)

\* the funnel of Hyperliquid's and Bybit's signals; nothing makes one FILLED
ReadExecuted ==
    LET of(v) == {Deals[t].signal : t \in OnVenue(Made(report), v)}
    IN Read("executed",
            [generated |-> Cardinality({s \in Signals \ purged : /\ Issued[s].venue # "binance"
                                                                /\ report.since <= Issued[s].at
                                                                /\ Issued[s].at <= report.until}),
             executed |-> Cardinality(of("hyperliquid")) + Cardinality(of("bybit")),
             filled |-> 0, profitable |-> 0], 0)
ReadProfitable ==
    Read("profitable",
         [report.parts EXCEPT !.profitable =
             Cardinality(Won(Booked(Final, report.since, report.until)))], 0)

\* the last trades of any status, newest first; a Binance trade has no symbol
ReadRecent ==
    Upcoming("recent") /\ \E T \in {T \in SUBSET MadeThere(report) :
                /\ Cardinality(T) <= Shown
                /\ \A o \in MadeThere(report) \ T :
                     Cardinality(T) = Shown /\ \A t \in T : rows[t].created >= rows[o].created} :
        Read("recent", [t \in T |-> [status |-> rows[t].status, pnl |-> rows[t].pnl,
                           symbol |-> IF Deals[t].venue = "binance" THEN "?"
                                      ELSE Deals[t].symbol]], 0)

\* /analytics/executions: all rows, then by status (CLOSED is not one of them)
ReadCount ==
    /\ Upcoming("count")
    /\ report' = [report EXCEPT !.left = Tail(@), !.section = "count",
                                !.core = [trades |-> Cardinality(Made(report))]]
    /\ changed' = {}
    /\ UNCHANGED <<scene, tables, portfolio>>
ReadStatuses ==
    Read("statuses", [filled |-> InState(Made(report), {"FILLED"}),
                      failed |-> InState(Made(report), {"FAILED"}),
                      pnl |-> Total(Earned, Made(report))], 0)

Answer ==
    /\ report.kind # "none" /\ report.left = << >>
    /\ report' = NoReport
    /\ changed' = {}
    /\ UNCHANGED <<scene, tables, portfolio>>

Reporting ==
    \/ RequestReport \/ ReadCore \/ ReadSums \/ ReadDays \/ ReadExecutions \/ ReadVenues
    \/ ReadSides \/ ReadSymbols \/ ReadBitSymbols \/ ReadTypes \/ ReadExecuted
    \/ ReadProfitable \/ ReadRecent \/ ReadCount \/ ReadStatuses \/ Answer

-----------------------------------------------------------------------------
(* A member's overview and the public page: CLOSED only, by the day of the  *)
(* order, without leverage in the volume.                                  *)

MemberTrades(m, since, until) ==
    {t \in Booked({"CLOSED"}, since, until) : Deals[t].owner = m}
PublicTradesDone(since) == {t \in Trades : rows[t].status = "CLOSED" /\ rows[t].executed >= since}

PublicTrades(since) == Booked({"CLOSED"}, since, LastInstant)

DayDone == [t \in Trades |-> Day(rows[t].executed)]

\* one row a day, with the running totals
DailyRows(T) ==
    [d \in Present(T, DayDone) |->
        LET today == {t \in T : DayDone[t] = d}
            sofar == {t \in T : DayDone[t] <= d}
        IN [pnl |-> Total(Earned, today), volume |-> Total(Traded, today),
            trades |-> Cardinality(today), cumulative |-> Total(Earned, sofar),
            percent |-> Percent(Total(Earned, today), Total(Traded, today)),
            sofar |-> Percent(Total(Earned, sofar), Total(Traded, sofar))]]

\* the equity curve: trades in the order they were made
Before(s, t) ==
    \/ rows[s].executed < rows[t].executed
    \/ rows[s].executed = rows[t].executed /\ rows[s].created < rows[t].created
    \/ rows[s].executed = rows[t].executed /\ rows[s].created = rows[t].created /\ s < t
Ordered(T) ==
    [i \in 1..Cardinality(T) |->
        CHOOSE t \in T : Cardinality({s \in T : Before(s, t)}) = i - 1]
EquityCurve(T) ==
    [i \in 1..Cardinality(T) |-> Total(Earned, {Ordered(T)[j] : j \in 1..i})]

\* in percent of the highest point of the whole curve
MaxDrawdown(T) ==
    LET end == Falls(Cardinality(T), [i \in 1..Cardinality(T) |-> Earned[Ordered(T)[i]]])
    IN IF end.peak <= 0 THEN 0 ELSE Percent(end.worst, end.peak)

MemberFigures(T) ==
    [trades |-> Cardinality(T), pnl |-> Total(Earned, T), volume |-> Total(Traded, T),
     winRate |-> Percent(Cardinality(Won(T)), Cardinality(T)),
     onVolume |-> Percent(Total(Earned, T), Total(Traded, T)), drawdown |-> MaxDrawdown(T)]

PublicFigures(T) ==
    [pnl |-> Total(Earned, T), volume |-> Total(Traded, T),
     return |-> Percent(Total(Earned, T), Total(Traded, T)),
     winning |-> Cardinality({d \in DOMAIN DailyRows(T) : DailyRows(T)[d].pnl > 0}),
     losing |-> Cardinality({d \in DOMAIN DailyRows(T) : DailyRows(T)[d].pnl < 0})]

-----------------------------------------------------------------------------
(* Balances: the capture task and the returns an overview shows.           *)

Captured(m) == scene.connected[m] \intersect {"hyperliquid", "bybit"}

Move(m, v, b) ==
    /\ v \in scene.connected[m] /\ b # balance[m][v]
    /\ balance' = [balance EXCEPT ![m][v] = b]
    /\ UNCHANGED <<scene, tables, report, changed, snapshots, capture, overview>>

StartCapture ==
    /\ ~capture.running /\ capture.done < scene.captures
    /\ \E m \in Members : Captured(m) # {}
    /\ capture' = [running |-> TRUE, todo |-> {m \in Members : Captured(m) # {}},
                   taken |-> << >>, done |-> capture.done + 1]
    /\ UNCHANGED <<scene, tables, report, changed, balance, snapshots, overview>>

\* A venue that fails counts nothing (exchange_breakdown names it); of
\* Hyperliquid the spot balances may be missing without a trace.
Taken(m) ==
    \E failed \in SUBSET Captured(m) :
      \E got \in [Captured(m) \ failed -> Balances] :
        /\ \A v \in DOMAIN got : \/ got[v] = balance[m][v]
                                 \/ v = "hyperliquid" /\ got[v] < balance[m][v]
        /\ capture' = [capture EXCEPT !.todo = @ \ {m},
               !.taken = Append(@, [member |-> m, at |-> clock, total |-> SumFunction(got)])]

CaptureMember(m) ==
    /\ capture.running /\ m \in capture.todo
    /\ Taken(m)
    /\ UNCHANGED <<scene, tables, report, changed, balance, snapshots, overview>>

\* one commit for every member, or a rollback for all of them
CommitCapture ==
    /\ capture.running /\ capture.todo = {}
    /\ snapshots' = snapshots \o capture.taken
    /\ capture' = [NoCapture EXCEPT !.done = capture.done]
    /\ overview' = Disturbed
    /\ UNCHANGED <<scene, tables, report, changed, balance>>

AbortCapture ==
    /\ capture.running
    /\ capture' = [NoCapture EXCEPT !.done = capture.done]
    /\ UNCHANGED <<scene, tables, report, changed, balance, snapshots, overview>>

\* _get_snapshot_balance: the newest at or before an instant, if any
BalanceAt(m, i) ==
    LET P == {k \in 1..Len(snapshots) : snapshots[k].member = m /\ snapshots[k].at <= i}
    IN IF P = {} THEN << >> ELSE <<snapshots[CHOOSE k \in P : \A o \in P : o <= k].total>>

ShowOverview(o) ==
    /\ overview' = o
    /\ UNCHANGED <<scene, tables, report, changed, balance, snapshots, capture>>

OpenOverview(m) ==
    /\ overview.stage \in {"none", "answered"} /\ scene.connected[m] # {}
    /\ \/ ShowOverview([NoOverview EXCEPT !.stage = "before", !.member = m,
                                          !.start = clock - Period])
       \/ \E i \in 0..scene.last :
            ShowOverview([NoOverview EXCEPT !.stage = "before", !.member = m,
                                            !.start = i, !.custom = TRUE])

ReadBefore ==
    /\ overview.stage = "before"
    /\ ShowOverview([overview EXCEPT !.stage = "latest",
                         !.before = BalanceAt(overview.member, overview.start)])

ReadLatest ==
    /\ overview.stage = "latest"
    /\ LET latest == BalanceAt(overview.member, LastInstant)
       IN ShowOverview([overview EXCEPT !.latest = latest,
              !.stage = IF overview.before = << >> \/ latest = << >> THEN "answered" ELSE "from"])

ReturnOnLatest(from, latest) ==
    IF from = << >> \/ latest = << >> THEN 0 ELSE Percent(Head(latest) - Head(from), Head(latest))

\* _compute_return_pct reads both again, whatever range was asked for
ReturnOf(from, latest) ==
    IF from = << >> \/ latest = << >> THEN 0 ELSE Percent(Head(latest) - Head(from), Head(from))
ReadReturn ==
    /\ overview.stage = "from"
    /\ ShowOverview([overview EXCEPT !.stage = "answered",
                         !.from = BalanceAt(overview.member, clock - Period),
                         !.return = ReturnOf(BalanceAt(overview.member, clock - Period),
                                             BalanceAt(overview.member, LastInstant))])

Watching ==
    \/ \E m \in Members : CaptureMember(m) \/ OpenOverview(m)
    \/ \E m \in Members, v \in Venues, b \in Balances : Move(m, v, b)
    \/ StartCapture \/ CommitCapture \/ AbortCapture
    \/ ReadBefore \/ ReadLatest \/ ReadReturn

PerformanceNext ==
    \/ Tick
    \/ \E t \in Trades : Record(t) \/ \E p \in Results : Close(t, p)
    \/ \E s \in Strategies : DeleteStrategy(s)
    \/ CleanUp
    \/ Reporting
    \/ Watching

PerformanceSpec == PerformanceInit /\ [][PerformanceNext]_performanceVars

-----------------------------------------------------------------------------
(* Properties.                                                             *)

GroupSum(g, field) == SumFunction([k \in DOMAIN g |-> g[k][field]])
OverAll(g) == [field \in {"trades", "wins", "pnl"} |-> GroupSum(g, field)]
CoreSum == [field \in {"trades", "wins", "pnl"} |-> report.core[field]]
Breakdowns == {"days", "sides", "types"} \union (IF report.venue = "any" THEN {"venues"} ELSE {})

\* When nothing was committed since a report's first SELECT, every breakdown
\* adds up to its totals: by day, direction and strategy type, by exchange
\* unless the report was for one exchange, and by symbol but for the trades
\* of Binance, which no symbol query joins.
ReportAddsUp ==
    changed = {} =>
        /\ report.section \in Breakdowns => OverAll(report.parts) = CoreSum
        /\ report.section = "bitsymbols" /\ Cardinality(DOMAIN report.parts) < TopSymbols =>
             report.core.pnl - GroupSum(report.parts, "pnl") =
               Total(Earned, {t \in Trades : /\ Deals[t].venue = "binance"
                                             /\ rows[t].status = "CLOSED"
                                             /\ rows[t].created \in report.since..report.until
                                             /\ report.venue \in {"any", "binance"}})

Removed == {t \in Trades : <<"removed", t>> \in changed}
Resettled == {t \in Trades : <<"resettled", t>> \in changed}

\* Positions that close while a report is read only add to its later
\* sections. No breakdown has fewer trades than the totals above it but for
\* the closed trades that a deleted strategy or the weekly clean-up of
\* signals removed meanwhile, nor fewer wins but for those and the trades
\* whose pnl a second closing wrote over the first.
NothingLeavesReport ==
    report.section \in Breakdowns =>
        /\ GroupSum(report.parts, "trades") + Cardinality(Removed) >= report.core.trades
        /\ GroupSum(report.parts, "wins") + Cardinality(Removed \union Resettled) >= report.core.wins

\* The drawdown of a report is the largest fall of the running total from
\* any earlier day, or from the zero it starts at, to any later day.
DrawdownIsWorstFall ==
    report.section = "days" =>
        LET D == DOMAIN report.parts
            at(d) == SumFunction([e \in {e \in D : e <= d} |-> report.parts[e].pnl])
            falls == {0} \union {-at(d) : d \in D}
                     \union {at(x[1]) - at(x[2]) : x \in {y \in D \X D : y[1] < y[2]}}
        IN report.fall \in falls /\ \A f \in falls : f <= report.fall

\* A report agrees with itself, whatever is committed while it is read.
ReportAgrees == ReportAddsUp /\ NothingLeavesReport /\ DrawdownIsWorstFall

\* The three programs that add up results agree at every moment: the
\* administrator's total (CLOSED or FILLED) is the sum of the members'
\* overviews (CLOSED) and the figure of the public page, each curve ends at
\* its total, and a trade never shows at members before the administrator's
\* day for it.
ViewsAgree ==
    LET since == clock - Period
        admin == Booked(Final, since, clock)
        of == [m \in Members |-> MemberTrades(m, since, clock)]
        public == PublicTrades(since)
        upto(rowset, d) == SumFunction([e \in {e \in DOMAIN rowset : e <= d} |-> rowset[e].trades])
        theirs == GroupBy(admin, DayMade, Present(admin, DayMade))
    IN /\ Core(admin).pnl = SumFunction([m \in Members |-> MemberFigures(of[m]).pnl])
       /\ Core(admin).pnl = PublicFigures(public).pnl
       /\ \A m \in Members : of[m] # {} =>
            /\ EquityCurve(of[m])[Cardinality(of[m])] = MemberFigures(of[m]).pnl
            /\ \E d \in DOMAIN DailyRows(of[m]) :
                 DailyRows(of[m])[d].cumulative = MemberFigures(of[m]).pnl
       /\ \A d \in 0..Day(LastInstant) : upto(DailyRows(public), d) <= upto(theirs, d)

\* An overview of the default range that no capture and no clock tick
\* disturbed shows the return between the two balances it shows.  (A custom
\* range shows the balance of its first day and the return of the default
\* range.)
ReturnMatchesBalances ==
    /\ overview.stage = "answered" /\ ~overview.disturbed /\ ~overview.custom
    /\ overview.before # << >> /\ overview.latest # << >>
    => LET start == Head(overview.before)
           end == Head(overview.latest)
       IN start > 0 =>
            /\ 2 * start * overview.return - 20000 * (end - start) <= start
            /\ 20000 * (end - start) - 2 * start * overview.return <= start
=============================================================================

---------------------------- MODULE PriceHistory ----------------------------
(***************************************************************************)
(* The daily bars of one symbol: what the readers get                      *)
(* (market_data/service.py), when Stooq is asked (market_data/historical.py *)
(* and calendar.py), the 5:30 PM task, the watchlist's first load and the  *)
(* management commands.                                                    *)
(*                                                                         *)
(* A date is a number, day 0 a Monday.  The day of a bar is all that       *)
(* counts, and whether it was stored before its session ended.  A fetch    *)
(* and its transaction are one step: they take seconds, and the writers    *)
(* run at different hours.                                                 *)
(***************************************************************************)
EXTENDS Integers, FiniteSets, FiniteSetsExt

CONSTANTS
    Start,      \* the first day
    Horizon,    \* the last day
    Outages,    \* how many days may pass without the symbol being used
    Holidays,   \* weekdays without a session
    None

VARIABLES
    today,
    evening,    \* the session of today is over
    rows,       \* the dates of the stored HistoricalPrice rows
    partial,    \* the rows stored before their session ended
    fetched     \* stooq_last_fetch: the half day of the last fetch, or None

vars == <<today, evening, rows, partial, fetched>>

-----------------------------------------------------------------------------
(* Calendar and thresholds *)

Trading(d) == d % 7 \notin {5, 6} /\ d \notin Holidays
Sessions(lo, hi) == {d \in lo..hi : Trading(d)}

\* How many sessions there were from day 0 to this one.
Elapsed(d) ==
    5 * (d \div 7) + Min({d % 7, 4}) + 1 - Cardinality({h \in Holidays : h <= d})

HalfDay == 2 * today + (IF evening THEN 1 ELSE 0)

\* MarketCalendar.get_trading_days_needed on a date: where the last of the
\* sessions start; the schedule runs to tomorrow.
TradingDaysNeeded ==
    [date \in Start..Horizon |-> [days \in {5, 19, 30, 60, 90} |->
        LET schedule == Sessions(date - (((days * 3) \div 2) + 20), date + 1)
        IN Min({d \in schedule : Elapsed(date + 1) - Elapsed(d) < days})]]

MinAcceptable(days) == (days * 95) \div 100
Enough(days) == Cardinality(rows) >= MinAcceptable(days)

\* The newest row; no row is of a later day than today.
Newest == CHOOSE d \in rows : \A e \in d + 1 .. today : e \notin rows

Fresh == rows # {} /\ Newest >= today - 1

\* Mutant: the buffer forgets that five of seven days are sessions.
BufferFlat(days) == 14

\* The calendar days a reader looks back further than it needs sessions.
Buffer(days) == Max({14, ((days * 4) \div 10) + 5})

\* _get_historical_from_database: the rows a reader takes its last days from,
\* and whether they are enough for it.
Found(days) == {d \in rows : d >= today - days - Buffer(days) /\ d <= today}
Readable(days) == Cardinality(Found(days)) >= MinAcceptable(days)

-----------------------------------------------------------------------------
(* Stooq answers with the sessions from lo on.  Today's bar may be missing; *)
(* while the session lasts it is not the final one.                         *)

Served(lo, withToday) ==
    {d \in Sessions(lo, today) : d < today \/ withToday}

\* store_in_database: new rows are inserted, changed ones updated.
Store(data) ==
    /\ rows' = rows \cup data
    /\ partial' = (partial \ data) \cup (IF evening THEN {} ELSE data \cap {today})

\* fetch_historical_prices asks Stooq unless the rows are enough and either
\* fresh or fetched in the last 24 hours.
Skipped(days) ==
    /\ Enough(days)
    /\ Fresh \/ (fetched # None /\ HalfDay - fetched < 2)

\* A fetch that is stored, and one that failed or was skipped.
Fetched(days) ==
    /\ ~Skipped(days)
    /\ \E withToday \in BOOLEAN : Store(Served(TradingDaysNeeded[today][days], withToday))
    /\ fetched' = HalfDay

NotFetched == UNCHANGED <<rows, partial, fetched>>

-----------------------------------------------------------------------------
Init ==
    /\ today = Start
    /\ evening = FALSE
    /\ rows = {} /\ partial = {}
    /\ fetched = None

\* get_historical_prices, for the Bollinger bands, the market conditions and
\* the indicators: the stored rows if they are enough, else what Stooq returns,
\* else nothing.
Read(days) ==
    /\ \/ NotFetched
       \/ ~Readable(days) /\ Fetched(days)
    /\ UNCHANGED <<today, evening>>

\* The readers: the bands take 19 closes and the current price, the conditions of the
\* market 30 closes (and the bands), the indicators 60 bars.
BollingerBands   == Read(19)
MarketConditions == Read(30)
Indicators       == Read(60)

\* Mutant: the update starts after the newest row, which it takes for final.
MissingAfterLatest(days) ==
    IF ~Enough(days) THEN TradingDaysNeeded[today][days]
    ELSE IF Newest < today THEN Newest + 1
    ELSE None

\* Mutant: the update starts where a full one would have ended.
MissingFromYesterday(days) ==
    IF ~Enough(days) THEN TradingDaysNeeded[today][days]
    ELSE IF Newest < today THEN Max({today - 3, Newest})
    ELSE None

\* get_missing_date_range: where the update of the rows starts.
MissingFrom(days) ==
    IF ~Enough(days) THEN TradingDaysNeeded[today][days]
    ELSE IF Newest < today THEN Newest
    ELSE None

\* ensure_minimum_data: rows that are enough and fresh need nothing; otherwise
\* the missing range is fetched, if Stooq answers.
EnsureMinimumData(days) ==
    /\ \/ Enough(days) /\ Fresh /\ UNCHANGED <<rows, partial>>
       \/ /\ ~(Enough(days) /\ Fresh)
          /\ MissingFrom(days) # None
          /\ \E withToday \in BOOLEAN : Store(Served(MissingFrom(days), withToday))
       \/ ~(Enough(days) /\ Fresh) /\ UNCHANGED <<rows, partial>>
    /\ UNCHANGED <<today, evening, fetched>>

\* The task of 5:30 PM on weekdays.
EnsureHistoricalData ==
    /\ evening
    /\ today % 7 \notin {5, 6}
    /\ EnsureMinimumData(90)

\* The symbol is added to a watchlist.
WatchlistAdd == EnsureMinimumData(90)

\* preload_historical --resume as the daily update calls it: a symbol with
\* four rows is complete for ever.
DailyDataUpdate ==
    /\ IF Enough(5) THEN NotFetched
       ELSE Fetched(5) \/ NotFetched
    /\ UNCHANGED <<today, evening>>

\* preload_historical --force: the rows go first.
PreloadForced(days) ==
    /\ \/ rows' = {} /\ partial' = {} /\ UNCHANGED fetched
       \/ \E withToday \in BOOLEAN :
             LET data == Served(TradingDaysNeeded[today][days], withToday) IN
             /\ rows' = data
             /\ partial' = IF evening THEN {} ELSE data \cap {today}
             /\ fetched' = HalfDay
    /\ UNCHANGED <<today, evening>>

\* The session ends; days pass.
Close ==
    /\ ~evening
    /\ evening' = TRUE
    /\ UNCHANGED <<today, rows, partial, fetched>>

DaysPass ==
    /\ evening
    /\ \E days \in Outages : today + days <= Horizon /\ today' = today + days
    /\ evening' = FALSE
    /\ fetched' = IF fetched # None /\ 2 * today' - fetched < 2 THEN fetched ELSE None
    /\ UNCHANGED <<rows, partial>>

Next ==
    \/ BollingerBands \/ MarketConditions \/ Indicators
    \/ EnsureHistoricalData \/ WatchlistAdd
    \/ DailyDataUpdate \/ PreloadForced(90)
    \/ Close \/ DaysPass

Spec == Init /\ [][Next]_vars

-----------------------------------------------------------------------------
TypeOK ==
    /\ today \in Start..Horizon /\ evening \in BOOLEAN
    /\ rows \subseteq Sessions(Start - 200, today)
    /\ partial \subseteq rows
    /\ fetched \in {None} \cup (2 * Start)..HalfDay

\* The sessions that were not stored between the first row and the last.
Holes == IF rows = {} THEN {} ELSE Sessions(Min(rows), Newest) \ rows

\* The sessions since the newest row.
Missed == IF rows = {} THEN 0 ELSE Cardinality(Sessions(Newest + 1, today))

\* A fetch leaves a hole only when the symbol was not fetched for as many sessions as
\* the shortest fetch looks back: the readers' 19, or the daily update's five for a
\* symbol with hardly a row.  The updates of the task leave none.
NoNewHole == Holes' \subseteq Holes \/ Missed >= (IF Enough(5) THEN 19 ELSE 5)
HolesAreOutages == [][NoNewHole]_vars

\* The rows stored during their session that later rows follow.
Unsettled == {d \in partial : \E e \in rows : e > d}

\* A row stored while its session lasted is corrected by the fetch that stores
\* the next one, unless all but one of those sessions have passed since.
Settles == Unsettled' \subseteq Unsettled \/ Missed >= (IF Enough(5) THEN 18 ELSE 4)
LastBarSettles == [][Settles]_vars

\* Once the rows are enough for the daily task, without holes and fresh, every
\* reader is answered from them, with the newest of them.
ReadyForReaders ==
    (Enough(90) /\ Fresh /\ Holes = {}) =>
        \A days \in {19, 30, 60} : Readable(days) /\ Newest \in Found(days)
=============================================================================

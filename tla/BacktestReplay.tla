--------------------------- MODULE BacktestReplay ---------------------------
(***************************************************************************)
(* One strategy replayed over one symbol's history.                        *)
(*                                                                         *)
(* Two books are kept: the factory's, which sizes the signals and decides  *)
(* when a cycle is over, and the fill simulator's, which knows what the    *)
(* market did.  In every bar the simulator walks its open positions over   *)
(* the bar's range, then the strategy's intents are built and filled at    *)
(* the close, then an open cycle is closed if the market shuts for the     *)
(* weekend; after each step the factory's book is told what was filled.    *)
(***************************************************************************)
EXTENDS SignalSizing, Sequences, FiniteSets

CONSTANTS
    Prices,         \* the prices of the history
    MaxBars,        \* bars replayed
    MaxIntents,     \* intents a strategy may give on one bar
    MaxEntries,     \* entries accepted in a run
    Stops,          \* distances a strategy puts its stop at, wrong ones included
    Risks,          \* risk_percent a strategy may ask for
    Proposals,      \* sizes a strategy may name
    CloseActions,   \* closes the strategy gives
    HalfSpread,     \* spread / 2 + slippage
    MovesStop,      \* move_sl_to_be
    Weekends,       \* a bar may lie in the weekend-flat window
    NoLevel         \* a bracket without this level

ASSUME ReplayAssumption ==
    /\ Prices \subseteq Int
    /\ {MaxBars, MaxIntents, MaxEntries, HalfSpread} \subseteq Nat
    /\ Stops \subseteq Int /\ Risks \subseteq Int /\ Proposals \subseteq Nat \ {0}
    /\ CloseActions \subseteq Closes /\ NoLevel \notin Int
    /\ {MovesStop, Weekends} \subseteq BOOLEAN

Uxids == 1..MaxEntries

Bars == {b \in [open : Prices, high : Prices, low : Prices, close : Prices] :
            /\ b.low <= b.open /\ b.open <= b.high
            /\ b.low <= b.close /\ b.close <= b.high}

VARIABLES
    phase,      \* "bar", "decide", "done"
    seen,       \* bars processed
    bar,        \* the bar being replayed
    shut,       \* the bar lies in the weekend-flat window
    asked,      \* intents the strategy has given on it
    book,       \* SignalFactory._book: cycle -> OpenPosition
    positions,  \* BacktestEngine.positions, the last one of each id
    former,     \* the ones before it: an entry under their id has taken their
                \* place in _open, and nobody looks at them again
    told,       \* the newest signal, for the properties
    parted      \* the cycles a terminal close of a size of its own has ended, for
                \* the properties

vars == <<phase, seen, bar, shut, asked, book, positions, former, told, parted>>

\* BacktestEngine._open
Open == {u \in DOMAIN positions : positions[u].left > 0}

NoBar == [open |-> 0, high |-> 0, low |-> 0, close |-> 0]
NoSignal == [uxid |-> 0, action |-> "none", size |-> NoSize, running |-> FALSE, known |-> TRUE]

Without(f, S) == [x \in DOMAIN f \ S |-> f[x]]
With(f, x, v) == [y \in DOMAIN f \cup {x} |-> IF y = x THEN v ELSE f[y]]

Init ==
    /\ phase = "bar"
    /\ seen = 0
    /\ bar = NoBar
    /\ shut = FALSE
    /\ asked = 0
    /\ book = << >>
    /\ positions = << >>
    /\ former = << >>
    /\ told = NoSignal
    /\ parted = {}

(***************************************************************************)
(* The fill simulator.                                                     *)
(***************************************************************************)

\* A long's stop sits below and its target above; a short is the mirror.
Touched(level, dir, b, isStop) ==
    /\ level # NoLevel
    /\ IF (dir = 1) = isStop THEN b.low <= level ELSE b.high >= level

\* _fill_level: at the level, or at the open if the bar gapped past it.
GappedThrough(level, dir, b, isStop) ==
    IF (dir = 1) = isStop THEN b.open < level ELSE b.open > level

\* exit_fill: half the spread and the slippage are paid on the way out too.
ExitFill(price, dir) == price - dir * HalfSpread

\* _close: size leaves the position and a leg is kept; gross is the sum over the
\* legs, against the price that was paid.
WithLeg(p, size, price, leg) ==
    [p EXCEPT !.left = @ - size,
              !.gross = @ + p.dir * (price - p.entry) * size,
              !.legs = Append(@, leg)]

\* _close at a level of the bracket
FilledAt(p, level, size, b, isStop, reason) ==
    LET gapped == GappedThrough(level, p.dir, b, isStop)
        price == ExitFill(IF gapped THEN b.open ELSE level, p.dir)
    IN  WithLeg(p, size, price,
                [reason |-> reason, price |-> price, bracket |-> TRUE, gapped |-> gapped])

BugNoBreakEven(p, b) ==
    LET hit == FilledAt(p, p.tp1, Half(p), b, FALSE, "TP1")
    IN  IF ~p.filled /\ Touched(p.tp1, p.dir, b, FALSE)
        THEN [hit EXCEPT !.filled = TRUE]
        ELSE p

\* TP1 takes half of the entry, and moves the stop to the price that was paid.
FirstTarget(p, b) ==
    LET hit == FilledAt(p, p.tp1, Half(p), b, FALSE, "TP1")
    IN  IF ~p.filled /\ Touched(p.tp1, p.dir, b, FALSE)
        THEN [hit EXCEPT !.filled = TRUE, !.sl = IF MovesStop THEN p.entry ELSE @]
        ELSE p

SecondTarget(p, b) ==
    IF p.left > 0 /\ Touched(p.tp2, p.dir, b, FALSE)
    THEN FilledAt(p, p.tp2, p.left, b, FALSE, "TP2")
    ELSE p

\* process_bar: stop before target, always.
Walked(p, b) ==
    IF p.left = 0 THEN p
    ELSE IF Touched(p.sl, p.dir, b, TRUE)
    THEN FilledAt(p, p.sl, p.left, b, TRUE, IF p.filled /\ MovesStop THEN "R_SL" ELSE "SL")
    ELSE SecondTarget(FirstTarget(p, b), b)

\* close_at: a close of the strategy, the weekend or the end, at the bar's close.
ClosedAt(p, price, size, reason) ==
    LET taken == IF size = NoSize THEN p.left ELSE Lesser(size, p.left)
    IN  IF taken = 0 THEN p
        ELSE LET filled == ExitFill(price, p.dir) IN
             WithLeg(p, taken, filled,
                     [reason |-> reason, price |-> filled, bracket |-> FALSE, gapped |-> FALSE])

BugNoSync(cycles, held) == cycles

\* _drop_closed, _sync_cycle: the factory forgets what is closed, and learns what
\* is left of the rest.
Synced(cycles, held) ==
    [u \in {v \in DOMAIN cycles : held[v].left > 0} |->
        [cycles[u] EXCEPT !.left = held[u].left]]

(***************************************************************************)
(* One bar.                                                                *)
(***************************************************************************)

ProcessBar(b) ==
    /\ phase = "bar"
    /\ seen < MaxBars
    /\ phase' = "decide"
    /\ seen' = seen + 1
    /\ bar' = b
    /\ shut' \in (IF Weekends THEN BOOLEAN ELSE {FALSE})
    /\ asked' = 0
    /\ positions' = [u \in DOMAIN positions |-> Walked(positions[u], b)]
    /\ book' = Synced(book, positions')
    /\ told' = NoSignal
    /\ UNCHANGED <<former, parted>>

\* BracketPolicy.apply: targets one and two stop distances away, unless the
\* strategy has given a single target.
Bracketed(dir, price, stop, single) ==
    LET risk == Distance(price, price - stop) IN
    [sl |-> price - dir * stop,
     tp1 |-> IF single THEN NoLevel ELSE price + dir * risk,
     tp2 |-> price + dir * 2 * risk]

\* _validate_bracket: no stop on the side of the profit
WellSided(dir, price, levels) == dir * (levels.sl - price) <= 0

\* In the window the entries of the strategy are dropped.
MayEnter == ~shut

BugNeverTaken(uxid) == FALSE

\* _prepare_entry: a strategy may name the cycle, and must not name one that is open.
IsTaken(uxid) == uxid \in DOMAIN book

\* new_uxid
FreshId == CHOOSE u \in Uxids : u \notin DOMAIN positions

\* A name never used before is a new id as well; MaxEntries is the bound.
MayName(named) == IF named = 0 THEN DOMAIN positions # Uxids ELSE named \in DOMAIN positions
IdFor(named) == IF named = 0 THEN FreshId ELSE named
HasRoom == Cardinality(DOMAIN positions) + Len(former) < MaxEntries

\* build and _apply of an entry: it is sized, entered in both books and filled at
\* the close; a position _open still holds under its id is replaced.  An entry that
\* cannot be sized, whose stop is wrong or whose id is open is refused.
Enter(dir, stop, single, proposed, requested, named) ==
    LET price == bar.close
        levels == Bracketed(dir, price, stop, single)
        risk == RiskFor(requested)
        size == Sized(price, levels.sl, risk)
        uxid == IdFor(named)
    IN  /\ phase = "decide"
        /\ asked < MaxIntents
        /\ asked' = asked + 1
        /\ MayName(named)
        /\ IF ~MayEnter \/ IsTaken(uxid) \/ size = 0 \/ ~WellSided(dir, price, levels)
           THEN UNCHANGED <<book, positions, former, told, parted>>
           ELSE /\ HasRoom
                /\ book' = With(book, uxid,
                     [quantity |-> size, left |-> size, ours |-> size,
                      theirs |-> IF proposed = NoSize THEN size ELSE proposed])
                /\ positions' = With(positions, uxid,
                     [dir |-> dir, at |-> price, entry |-> price + dir * HalfSpread,
                      risk |-> risk, quantity |-> size, left |-> size, sl |-> levels.sl,
                      tp1 |-> levels.tp1, tp2 |-> levels.tp2, filled |-> FALSE,
                      gross |-> 0, legs |-> << >>])
                /\ former' = IF uxid \in DOMAIN positions
                             THEN Append(former, [was |-> positions[uxid],
                                                  parted |-> uxid \in parted])
                             ELSE former
                /\ parted' = parted \ {uxid}
                /\ told' = [NoSignal EXCEPT !.uxid = uxid, !.action = "entry",
                                            !.size = size, !.running = TRUE]
        /\ UNCHANGED <<phase, seen, bar, shut>>

\* The cycle a close belongs to: the one it names, which the factory does not look
\* for, or the only one there is.
Addressed(named) ==
    IF named # 0 THEN {named}
    ELSE IF Cardinality(DOMAIN book) = 1 THEN DOMAIN book ELSE {}

\* A TP1 of the strategy moves the stop as one of the bracket does.
AfterTp1(p, action) ==
    IF action # "TP1" THEN p
    ELSE [p EXCEPT !.filled = TRUE,
                   !.sl = IF MovesStop /\ p.left > 0 THEN p.entry ELSE @]

\* build and _apply of a close
Close(action, named, size) ==
    /\ phase = "decide"
    /\ asked < MaxIntents
    /\ asked' = asked + 1
    /\ named # 0 => named \in DOMAIN positions
    /\ IF Addressed(named) = {}
       THEN UNCHANGED <<book, positions, told, parted>>
       ELSE \E u \in Addressed(named) :
            LET known == u \in DOMAIN book IN
            \E q \in IF known THEN CloseSizes(size, action, book[u]) ELSE {size} :
                LET over == known /\ Ends(action, q, book[u])
                    after == IF ~known THEN book
                             ELSE IF over THEN Without(book, {u})
                             ELSE [book EXCEPT ![u].left = LeftAfter(q, book[u])]
                    filled == IF positions[u].left = 0 THEN positions[u]
                              ELSE AfterTp1(ClosedAt(positions[u], bar.close, q, action),
                                            action)
                IN  /\ positions' = [positions EXCEPT ![u] = filled]
                    /\ book' = Synced(after, positions')
                    /\ parted' = IF known /\ action \in Terminal /\ size # NoSize
                                 THEN parted \cup {u} ELSE parted
                    /\ told' = [uxid |-> u, action |-> action, size |-> q, known |-> known,
                                running |-> IF known THEN StillRunning(action, q, book[u])
                                            ELSE FALSE]
    /\ UNCHANGED <<phase, seen, bar, shut, former>>

\* _flatten_for_the_weekend: one FLAT per cycle of the factory's book, after the
\* strategy's own exits.
EndBar ==
    /\ phase = "decide"
    /\ phase' = "bar"
    /\ LET flat == IF shut THEN DOMAIN book ELSE {} IN
        /\ positions' = [u \in DOMAIN positions |->
                            IF u \in flat
                            THEN ClosedAt(positions[u], bar.close, NoSize, "FLAT")
                            ELSE positions[u]]
        /\ book' = Without(book, flat)
    /\ told' = NoSignal
    /\ UNCHANGED <<seen, bar, shut, asked, former, parted>>

\* What is open after the last bar is marked out at its close.
Finish ==
    /\ phase = "bar"
    /\ seen > 0
    /\ phase' = "done"
    /\ positions' = [u \in DOMAIN positions |->
                        ClosedAt(positions[u], bar.close, NoSize, "END_OF_DATA")]
    /\ told' = NoSignal
    /\ UNCHANGED <<seen, bar, shut, asked, book, former, parted>>

Decide ==
    \/ \E dir \in {1, -1}, stop \in Stops, single \in BOOLEAN,
          proposed \in Proposals \cup {NoSize}, requested \in Risks \cup {NoRisk},
          named \in Uxids \cup {0} :
            Enter(dir, stop, single, proposed, requested, named)
    \/ \E action \in CloseActions, named \in Uxids \cup {0},
          size \in Proposals \cup {NoSize} : Close(action, named, size)

Next ==
    \/ \E b \in Bars : ProcessBar(b)
    \/ Decide
    \/ EndBar
    \/ Finish

Spec == Init /\ [][Next]_vars

(***************************************************************************)
(* Properties.                                                             *)
(***************************************************************************)

\* The two books agree between any two steps: the factory holds the cycles the
\* simulator holds, with the same size left, and what a payload said in is_running is
\* what came to pass.  They part where a strategy puts a size of its own on a terminal
\* close ("a stop is a stop even if the payload rounds its quantity",
\* OpenPosition.apply_close): the factory forgets the cycle, the simulator keeps what
\* the size left, and there alone; and a position that an entry under its id replaces
\* while it is open, which is then never marked out, was parted before.
BooksAgree ==
    /\ phase # "done" =>
        /\ DOMAIN book \subseteq Open /\ Open \ DOMAIN book \subseteq parted
        /\ \A u \in DOMAIN book : book[u].left = positions[u].left
    /\ phase = "decide" /\ told.uxid # 0 /\ told.uxid \notin parted
         => (told.running <=> told.uxid \in Open)
    /\ \A i \in DOMAIN former : former[i].was.left > 0 => former[i].parted

Allowed == IF DynamicRisk THEN MaxRisk ELSE BaseRisk

\* Half the spread and the slippage are paid on the way in and on the way out.
RoundTrips(p) == 2 * HalfSpread * (p.quantity - p.left)

LossWithinBudget(p) ==
    (\A i \in DOMAIN p.legs : ~p.legs[i].gapped)
      => p.gross >= -(Budget * Allowed * Step) - RoundTrips(p)

RunnerIsProtected(p) ==
    MovesStop =>
        \A i, j \in DOMAIN p.legs :
            /\ i < j /\ p.legs[i].reason = "TP1"
            /\ p.legs[j].bracket /\ p.legs[j].reason # "TP2" /\ ~p.legs[j].gapped
            => p.dir * (p.legs[j].price - p.at) >= 0

\* BacktestEngine.positions
AllPositions ==
    {positions[u] : u \in DOMAIN positions} \cup {former[i].was : i \in DOMAIN former}

\* What a position can cost is bounded, whatever its legs and whatever its strategy
\* asked for: unless a bar gaps through its stop it loses no more than the risk
\* ceiling allows and the costs of the way in and out; once TP1 has filled the stop
\* takes the rest at the price the entry named or better, so that no more than the
\* costs is lost; and nothing is carried into the weekend but what a terminal close of
\* a size of its own has left.
ExposureIsBounded ==
    /\ \A p \in AllPositions : LossWithinBudget(p) /\ RunnerIsProtected(p)
    /\ phase = "bar" /\ shut => Open \subseteq parted

\* The cycles the factory has open, with the size the simulator has left of them.
Cycles ==
    [u \in Uxids |->
        IF u \notin DOMAIN positions THEN [state |-> "none", left |-> 0]
        ELSE IF u \in DOMAIN book /\ positions[u].left > 0
        THEN [state |-> "open", left |-> positions[u].left]
        ELSE [state |-> "over", left |-> 0]]

Book == INSTANCE TradeBook WITH cycles <- Cycles

ImplementsTradeBook == Book!Spec
=============================================================================

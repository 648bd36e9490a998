------------------------ MODULE BacktestReplayProofs ------------------------
(***************************************************************************)
(* For every history, strategy, stop, risk and number of cycles: the book  *)
(* of the factory and that of the fill simulator agree, what a position    *)
(* can lose is bounded, and the positions implement TradeBook.             *)
(***************************************************************************)
EXTENDS BacktestReplay, FiniteSetTheorems, TLAPS

Reasons == Terminal \cup {"TP1", "END_OF_DATA"}
Leg == [reason : Reasons, price : Int, bracket : BOOLEAN, gapped : BOOLEAN]
PositionType ==
    [dir : {1, -1}, at : Int, entry : Int, risk : Nat, quantity : Nat, left : Nat,
     sl : Int, tp1 : Int \cup {NoLevel}, tp2 : Int, filled : BOOLEAN, gross : Int,
     legs : Seq(Leg)]
CycleType == [quantity : Nat, left : Nat, ours : Nat, theirs : Nat \ {0}]
BarType == [open : Int, high : Int, low : Int, close : Int]
SignalType == [uxid : Nat, action : Closes \cup {"none", "entry"}, size : Int, running : BOOLEAN, known : BOOLEAN]

FormerType == [was : PositionType, parted : BOOLEAN]

\* The factory knows no cycle the simulator never filled.
TypeOK ==
    /\ phase \in {"bar", "decide", "done"}
    /\ seen \in Nat /\ asked \in Nat /\ shut \in BOOLEAN
    /\ bar \in BarType
    /\ DOMAIN positions \subseteq Uxids
    /\ positions \in [DOMAIN positions -> PositionType]
    /\ former \in Seq(FormerType) /\ parted \subseteq Uxids
    /\ DOMAIN book \subseteq DOMAIN positions
    /\ book \in [DOMAIN book -> CycleType]
    /\ told \in SignalType
-----------------------------------------------------------------------------
(* Arithmetic.                                                             *)

LEMMA Division ==
    ASSUME NEW x \in Nat, NEW y \in Nat, y # 0
    PROVE  x \div y \in Nat /\ (x \div y) * y <= x
<1> QED BY Z3

LEMMA ProductNat ==
    ASSUME NEW x \in Nat, NEW y \in Nat
    PROVE  x * y \in Nat
<1> QED OBVIOUS

LEMMA ProductMonotone ==
    ASSUME NEW x \in Int, NEW y \in Int, NEW z \in Nat, x <= y
    PROVE  x * z <= y * z
<1> QED OBVIOUS

LEMMA Distances ==
    ASSUME NEW a \in Int, NEW b \in Int
    PROVE  /\ Distance(a, b) \in Nat
           /\ Distance(a, b) = 0 <=> a = b
           /\ \A dir \in {1, -1} : dir * (b - a) >= -Distance(a, b)
BY DEF Distance

LEMMA RiskIsBounded ==
    ASSUME NEW requested \in Risks \cup {NoRisk}
    PROVE  /\ RiskFor(requested) \in Nat
           /\ (DynamicRisk => MaxRisk # 0) => RiskFor(requested) <= Allowed
<1>1. requested \in Int
  BY ReplayAssumption DEF NoRisk
<1>2. BaseRisk \in Nat /\ MaxRisk \in Nat /\ DynamicRisk \in BOOLEAN
  BY SizingAssumption
<1> QED BY <1>1, <1>2 DEF RiskFor, Lesser, Allowed

\* What is bought at a stop loses no more than the budget when the stop fills.
LEMMA SizeIsBounded ==
    ASSUME NEW price \in Int, NEW sl \in Int, NEW risk \in Nat
    PROVE  /\ Sized(price, sl, risk) \in Nat
           /\ Sized(price, sl, risk) * Distance(price, sl) <= Budget * risk * Step
<1>1. Budget \in Nat /\ Step \in Nat /\ MaxQuantity \in Nat
  BY SizingAssumption
<1>2. CASE price = sl
  <2>1. Sized(price, sl, risk) = 0 /\ Distance(price, sl) = 0
    BY <1>2, Distances DEF Sized
  <2>2. Budget * risk \in Nat
    BY <1>1
  <2>3. Budget * risk * Step \in Nat
    BY <1>1, <2>2
  <2> QED BY <2>1, <2>3
<1>3. CASE price # sl
  <2> DEFINE d == Distance(price, sl)
             w == Budget * risk
             q == w \div d
             k == IF MaxQuantity = 0 THEN q ELSE Lesser(q, MaxQuantity)
  <2>1. d \in Nat /\ d # 0
    BY <1>3, Distances
  <2>2. w \in Nat
    BY <1>1
  <2>3. q \in Nat /\ q * d <= w
    <3> HIDE DEF d, w
    <3> QED BY <2>1, <2>2, Division
  <2>4. Sized(price, sl, risk) = Step * k
    BY <1>3 DEF Sized
  <2> HIDE DEF d, w, q
  <2>5. k \in Nat /\ k <= q
    BY <1>1, <2>3 DEF Lesser
  <2> HIDE DEF k
  <2>6. k * d <= w /\ k * d \in Nat
    BY <2>1, <2>2, <2>3, <2>5, ProductMonotone
  <2>7. (k * d) * Step <= w * Step
    BY <1>1, <2>2, <2>6, ProductMonotone
  <2>8. (Step * k) * d = (k * d) * Step /\ Step * k \in Nat
    BY <1>1, <2>1, <2>5
  <2> QED BY <2>4, <2>7, <2>8 DEF d, w
<1> QED BY <1>2, <1>3
-----------------------------------------------------------------------------
(* The operators on one position.                                          *)

\* What an entry fixes for good.
Kept(p, q) ==
    /\ q.dir = p.dir /\ q.at = p.at /\ q.entry = p.entry /\ q.risk = p.risk
    /\ q.quantity = p.quantity /\ q.tp1 = p.tp1 /\ q.tp2 = p.tp2

\* A leg of some size, as WithLeg books it.
LEMMA LegType ==
    ASSUME NEW p \in PositionType, NEW size \in 0..p.left, NEW price \in Int, NEW leg \in Leg,
           NEW q, q = WithLeg(p, size, price, leg)
    PROVE  /\ q \in PositionType
           /\ q.left = p.left - size
           /\ q.gross = p.gross + p.dir * (price - p.entry) * size
           /\ q.legs = Append(p.legs, leg)
           /\ q.sl = p.sl /\ q.filled = p.filled /\ Kept(p, q)
<1> DEFINE g == p.gross + p.dir * (price - p.entry) * size
<1>1. p.left - size \in Nat
  BY DEF PositionType
<1>2. p.dir * (price - p.entry) \in Int
  BY DEF PositionType
<1>3. size \in Int
  OBVIOUS
<1>4. g \in Int
  BY <1>2, <1>3 DEF PositionType
<1>5. Append(p.legs, leg) \in Seq(Leg)
  BY DEF PositionType
<1> HIDE DEF g
<1>6. q = [p EXCEPT !.left = p.left - size, !.gross = g, !.legs = Append(p.legs, leg)]
  BY DEF WithLeg, g, PositionType
<1> QED BY <1>1, <1>4, <1>5, <1>6 DEF PositionType, Kept, g

LEMMA HalfType ==
    ASSUME NEW p, p.quantity \in Nat, p.left \in Nat
    PROVE  Half(p) \in 0..p.left
BY DEF Half, Lesser

LEMMA GappedType ==
    ASSUME NEW level \in Int, NEW dir \in {1, -1}, NEW b \in BarType, NEW isStop \in BOOLEAN
    PROVE  GappedThrough(level, dir, b, isStop) \in BOOLEAN
<1>1. (b.open < level) \in BOOLEAN /\ (b.open > level) \in BOOLEAN
  OBVIOUS
<1> QED BY <1>1 DEF GappedThrough

\* What an exit costs on the way out, seen from the price that was paid and from the
\* one the entry named.
LEMMA Exits ==
    ASSUME NEW p \in PositionType, NEW raw \in Int, NEW x, x = ExitFill(raw, p.dir)
    PROVE  /\ x \in Int
           /\ p.entry = p.at + p.dir * HalfSpread
                => /\ p.dir * (x - p.entry) = p.dir * (raw - p.at) - 2 * HalfSpread
                   /\ p.dir * (x - p.at) = p.dir * (raw - p.entry)
<1>1. /\ p.dir \in {1, -1} /\ p.entry \in Int /\ p.at \in Int /\ HalfSpread \in Int
      /\ x = raw - p.dir * HalfSpread
  BY ReplayAssumption DEF PositionType, ExitFill
<1>2. CASE p.dir = 1
  BY <1>1, <1>2
<1>3. CASE p.dir = -1
  BY <1>1, <1>3
<1> QED BY <1>1, <1>2, <1>3

LEMMA FilledAtType ==
    ASSUME NEW p \in PositionType, NEW level \in Int, NEW size \in 0..p.left,
           NEW b \in BarType, NEW isStop \in BOOLEAN, NEW reason \in Reasons
    PROVE  /\ FilledAt(p, level, size, b, isStop, reason) \in PositionType
           /\ FilledAt(p, level, size, b, isStop, reason).left = p.left - size
<1> DEFINE gapped == GappedThrough(level, p.dir, b, isStop)
           price == ExitFill(IF gapped THEN b.open ELSE level, p.dir)
           leg == [reason |-> reason, price |-> price, bracket |-> TRUE, gapped |-> gapped]
<1>1. gapped \in BOOLEAN
  BY GappedType DEF PositionType
<1>2. price \in Int
  <2>1. (IF gapped THEN b.open ELSE level) \in Int
    BY DEF BarType
  <2> HIDE DEF gapped
  <2> QED BY <2>1, Exits
<1>3. FilledAt(p, level, size, b, isStop, reason) = WithLeg(p, size, price, leg)
  BY DEF FilledAt
<1> HIDE DEF gapped, price
<1>4. leg \in Leg
  BY <1>1, <1>2 DEF Leg
<1> HIDE DEF leg
<1> QED BY <1>2, <1>3, <1>4, LegType

LEMMA ClosedAtType ==
    ASSUME NEW p \in PositionType, NEW price \in Int, NEW size \in Nat \cup {NoSize},
           NEW reason \in Reasons
    PROVE  /\ ClosedAt(p, price, size, reason) \in PositionType
           /\ ClosedAt(p, price, size, reason).left =
                IF size = NoSize THEN 0 ELSE p.left - Lesser(size, p.left)
<1> DEFINE taken == IF size = NoSize THEN p.left ELSE Lesser(size, p.left)
<1>1. taken \in 0..p.left /\ p.left \in Nat
  BY DEF Lesser, PositionType
<1>2. CASE taken = 0
  BY <1>1, <1>2 DEF ClosedAt
<1>3. CASE taken # 0
  <2> DEFINE x == ExitFill(price, p.dir)
             leg == [reason |-> reason, price |-> x, bracket |-> FALSE, gapped |-> FALSE]
  <2>0. x \in Int
    BY Exits
  <2>2. ClosedAt(p, price, size, reason) = WithLeg(p, taken, x, leg)
    BY <1>3 DEF ClosedAt
  <2> HIDE DEF taken, x
  <2>1. leg \in Leg
    BY <2>0 DEF Leg
  <2> HIDE DEF leg
  <2>3. /\ WithLeg(p, taken, x, leg) \in PositionType
        /\ WithLeg(p, taken, x, leg).left = p.left - taken
    BY <1>1, <2>0, <2>1, LegType
  <2> QED BY <1>1, <2>2, <2>3 DEF taken
<1> QED BY <1>2, <1>3

\* A bar takes size from a position and never gives any.
LEMMA WalkedType ==
    ASSUME NEW p \in PositionType, NEW b \in BarType
    PROVE  /\ Walked(p, b) \in PositionType
           /\ Walked(p, b).left <= p.left
<1> DEFINE q == FirstTarget(p, b)
<1>1. q \in PositionType /\ q.left <= p.left
  <2>1. CASE ~p.filled /\ Touched(p.tp1, p.dir, b, FALSE)
    <3> DEFINE hit == FilledAt(p, p.tp1, Half(p), b, FALSE, "TP1")
    <3>1. p.tp1 \in Int /\ p.left \in Nat
      BY <2>1 DEF Touched, PositionType
    <3>2. Half(p) \in 0..p.left
      BY HalfType DEF PositionType
    <3>3. "TP1" \in Reasons
      BY DEF Reasons
    <3>7. hit \in PositionType /\ hit.left = p.left - Half(p)
      BY <3>1, <3>2, <3>3, FilledAtType
    <3>4. q = [hit EXCEPT !.filled = TRUE, !.sl = IF MovesStop THEN p.entry ELSE @]
      BY <2>1 DEF FirstTarget
    <3> HIDE DEF hit, q
    <3> DEFINE sl == IF MovesStop THEN p.entry ELSE hit.sl
    <3>5. sl \in Int
      BY <3>7 DEF PositionType
    <3>6. q = [hit EXCEPT !.filled = TRUE, !.sl = sl]
      BY <3>4, <3>7 DEF PositionType
    <3> HIDE DEF sl
    <3>8. q \in PositionType /\ q.left = hit.left
      BY <3>5, <3>6, <3>7 DEF PositionType
    <3> QED BY <3>1, <3>2, <3>7, <3>8
  <2>2. CASE ~(~p.filled /\ Touched(p.tp1, p.dir, b, FALSE))
    <3>1. q = p
      BY <2>2 DEF FirstTarget
    <3>2. p.left <= p.left
      BY DEF PositionType
    <3> QED BY <3>1, <3>2
  <2> QED BY <2>1, <2>2
<1> HIDE DEF q
<1>2. SecondTarget(q, b) \in PositionType /\ SecondTarget(q, b).left <= q.left
  <2>1. q.tp2 \in Int /\ q.left \in 0..q.left /\ q.left \in Nat
    BY <1>1 DEF PositionType
  <2>2. /\ FilledAt(q, q.tp2, q.left, b, FALSE, "TP2") \in PositionType
        /\ FilledAt(q, q.tp2, q.left, b, FALSE, "TP2").left = q.left - q.left
    <3>1. "TP2" \in Reasons
      BY DEF Reasons, Terminal
    <3> QED BY <1>1, <2>1, <3>1, FilledAtType
  <2>3. \/ SecondTarget(q, b) = q
        \/ SecondTarget(q, b) = FilledAt(q, q.tp2, q.left, b, FALSE, "TP2")
    BY DEF SecondTarget
  <2>4. q.left - q.left <= q.left /\ q.left <= q.left
    BY <2>1
  <2>5. SecondTarget(q, b) \in PositionType
    BY <1>1, <2>2, <2>3
  <2>6. SecondTarget(q, b).left \in {q.left, q.left - q.left}
    BY <2>2, <2>3
  <2> QED BY <2>4, <2>5, <2>6
<1>3. CASE p.left # 0 /\ Touched(p.sl, p.dir, b, TRUE)
  <2> DEFINE r == IF p.filled /\ MovesStop THEN "R_SL" ELSE "SL"
  <2>1. p.sl \in Int /\ p.left \in 0..p.left /\ p.left \in Nat
    BY DEF PositionType
  <2>2. /\ FilledAt(p, p.sl, p.left, b, TRUE, r) \in PositionType
        /\ FilledAt(p, p.sl, p.left, b, TRUE, r).left = p.left - p.left
    <3>1. r \in Reasons
      BY DEF Reasons, Terminal
    <3> HIDE DEF r
    <3> QED BY <2>1, <3>1, FilledAtType
  <2>3. Walked(p, b) = FilledAt(p, p.sl, p.left, b, TRUE, r)
    BY <1>3 DEF Walked
  <2> HIDE DEF r
  <2>4. p.left - p.left <= p.left
    BY <2>1
  <2>5. Walked(p, b) \in PositionType
    BY <2>2, <2>3
  <2>6. Walked(p, b).left = p.left - p.left
    BY <2>2, <2>3
  <2> QED BY <2>4, <2>5, <2>6
<1>4. CASE ~(p.left # 0 /\ Touched(p.sl, p.dir, b, TRUE))
  <2>1. Walked(p, b) = p \/ Walked(p, b) = SecondTarget(q, b)
    BY <1>4 DEF Walked, q
  <2>2. p.left \in Nat /\ q.left \in Nat /\ SecondTarget(q, b).left \in Nat
    BY <1>1, <1>2 DEF PositionType
  <2> QED BY <1>1, <1>2, <2>1, <2>2
<1> QED BY <1>3, <1>4

LEMMA AfterTp1Type ==
    ASSUME NEW p \in PositionType, NEW action
    PROVE  AfterTp1(p, action) \in PositionType /\ AfterTp1(p, action).left = p.left
BY DEF AfterTp1, PositionType

\* The size the factory puts on a close: whole, and never more than what is left.
\* A terminal close without a size of its own takes everything.
LEMMA CloseSizesType ==
    ASSUME NEW c \in CycleType, NEW size \in Nat \cup {NoSize}, NEW action \in Closes,
           NEW q \in CloseSizes(size, action, c)
    PROVE  /\ q \in Nat \cup {NoSize}
           /\ q # NoSize => q <= c.left
           /\ q = NoSize => action \in Terminal
           /\ size = NoSize /\ action \in Terminal => q \in {NoSize, c.left}
<1>1. c.left \in Nat /\ c.quantity \in Nat
  BY DEF CycleType
<1>2. CASE size # NoSize
  <2>1. PICK r \in Rescaled(size, c) : q = Lesser(r, c.left)
    BY <1>2 DEF CloseSizes
  <2>2. r \in Nat
    BY <2>1, SizingAssumption DEF Rescaled
  <2> QED BY <1>1, <1>2, <2>1, <2>2 DEF Lesser, NoSize
<1>3. CASE size = NoSize
  BY <1>1, <1>3, HalfType DEF CloseSizes, Closes, Terminal, NoSize
<1> QED BY <1>2, <1>3
-----------------------------------------------------------------------------
(* Types.                                                                  *)

BookType(cycles, held) ==
    DOMAIN cycles \subseteq DOMAIN held /\ cycles \in [DOMAIN cycles -> CycleType]
PositionsType(held) ==
    /\ DOMAIN held \subseteq Uxids
    /\ held \in [DOMAIN held -> PositionType]

\* The cycles with something left, and how much.
IsSynced(cycles, held) ==
    /\ BookType(Synced(cycles, held), held)
    /\ DOMAIN Synced(cycles, held) = {v \in DOMAIN cycles : held[v].left > 0}
    /\ \A u \in DOMAIN Synced(cycles, held) : Synced(cycles, held)[u].left = held[u].left

LEMMA SyncedType ==
    ASSUME NEW cycles, NEW held, PositionsType(held), BookType(cycles, held)
    PROVE  IsSynced(cycles, held)
<1> DEFINE D == {v \in DOMAIN cycles : held[v].left > 0}
<1>1. Synced(cycles, held) = [u \in D |-> [cycles[u] EXCEPT !.left = held[u].left]]
  BY DEF Synced
<1>2. \A u \in D : cycles[u] \in CycleType /\ held[u].left \in Nat
  BY DEF PositionsType, BookType, PositionType
<1>3. \A u \in D : /\ [cycles[u] EXCEPT !.left = held[u].left] \in CycleType
                   /\ [cycles[u] EXCEPT !.left = held[u].left].left = held[u].left
  BY <1>2 DEF CycleType
<1>4. D \subseteq DOMAIN held
  BY DEF BookType
<1> HIDE DEF D
<1>5. DOMAIN Synced(cycles, held) = D
  BY <1>1
<1>6. \A u \in D : Synced(cycles, held)[u] = [cycles[u] EXCEPT !.left = held[u].left]
  BY <1>1
<1>7. Synced(cycles, held) \in [D -> CycleType]
  BY <1>1, <1>3
<1> QED BY <1>3, <1>4, <1>5, <1>6, <1>7 DEF BookType, D, IsSynced

LEMMA WithoutType ==
    ASSUME NEW cycles, NEW held, NEW S, BookType(cycles, held)
    PROVE  /\ BookType(Without(cycles, S), held)
           /\ DOMAIN Without(cycles, S) = DOMAIN cycles \ S
           /\ \A u \in DOMAIN cycles \ S : Without(cycles, S)[u] = cycles[u]
BY DEF Without, BookType

\* An entry under an id of its own.
LEMMA WithType ==
    ASSUME NEW held, PositionsType(held), NEW p \in PositionType, NEW x \in Uxids,
           NEW new, new = With(held, x, p)
    PROVE  /\ PositionsType(new)
           /\ DOMAIN new = DOMAIN held \cup {x}
           /\ new[x] = p
           /\ \A u \in DOMAIN held : u # x => new[u] = held[u]
<1> DEFINE D == DOMAIN held \cup {x}
<1>1. new = [u \in D |-> IF u = x THEN p ELSE held[u]]
  BY DEF With
<1>2. D \subseteq Uxids /\ x \in D /\ DOMAIN held \subseteq D
  BY DEF PositionsType
<1>3. \A u \in D : u # x => held[u] \in PositionType
  BY DEF PositionsType
<1> HIDE DEF D
<1>4. DOMAIN new = D /\ new \in [D -> PositionType]
  BY <1>1, <1>3
<1>5. new[x] = p /\ \A u \in DOMAIN held : u # x => new[u] = held[u]
  BY <1>1, <1>2
<1> QED BY <1>2, <1>4, <1>5 DEF PositionsType, D

LEMMA BookWithType ==
    ASSUME NEW cycles, NEW held, BookType(cycles, held), NEW c \in CycleType, NEW x,
           NEW new, DOMAIN held \subseteq DOMAIN new, x \in DOMAIN new,
           NEW after, after = With(cycles, x, c)
    PROVE  BookType(after, new)
<1> DEFINE D == DOMAIN cycles \cup {x}
<1>1. after = [y \in D |-> IF y = x THEN c ELSE cycles[y]]
  BY DEF With
<1>2. \A y \in D : y # x => cycles[y] \in CycleType
  BY DEF BookType
<1>3. D \subseteq DOMAIN new
  BY DEF BookType
<1> HIDE DEF D
<1>4. DOMAIN after = D /\ after \in [D -> CycleType]
  BY <1>1, <1>2
<1> QED BY <1>3, <1>4 DEF BookType

\* The id of an entry: one never used, or one a strategy has named before.
LEMMA IdType ==
    ASSUME TypeOK, NEW named \in Uxids \cup {0}, MayName(named)
    PROVE  IdFor(named) \in Uxids
<1>1. CASE named = 0
  <2>1. \E u \in Uxids : u \notin DOMAIN positions
    BY <1>1 DEF MayName, TypeOK
  <2>2. FreshId \in Uxids
    BY <2>1 DEF FreshId
  <2> QED BY <1>1, <2>2 DEF IdFor
<1>2. CASE named # 0
  BY <1>2 DEF IdFor
<1> QED BY <1>1, <1>2

LEMMA TypesInParts == TypeOK <=>
    /\ phase \in {"bar", "decide", "done"}
    /\ seen \in Nat /\ asked \in Nat /\ shut \in BOOLEAN
    /\ bar \in BarType
    /\ PositionsType(positions) /\ BookType(book, positions)
    /\ former \in Seq(FormerType) /\ parted \subseteq Uxids
    /\ told \in SignalType
BY DEF TypeOK, PositionsType, BookType

LEMMA InitType == Init => TypeOK
<1> SUFFICES ASSUME Init PROVE TypeOK
  OBVIOUS
<1>1. /\ DOMAIN positions = {} /\ positions \in [{} -> PositionType]
      /\ former \in Seq(FormerType) /\ parted = {}
  BY DEF Init
<1>2. DOMAIN book = {} /\ book \in [{} -> CycleType]
  BY DEF Init
<1>3. bar \in BarType
  BY DEF Init, NoBar, BarType
<1>4. told \in SignalType
  BY DEF Init, NoSignal, SignalType, NoSize
<1> QED BY <1>1, <1>2, <1>3, <1>4 DEF Init, TypeOK
-----------------------------------------------------------------------------
(* The steps: what each does to the two books.                             *)

\* No position grows and no cycle is entered; or one is, under an id that is not open.
Shrinks ==
    /\ DOMAIN positions' = DOMAIN positions
    /\ \A u \in DOMAIN positions : positions'[u].left <= positions[u].left
    /\ DOMAIN book' \subseteq DOMAIN book
    /\ former' = former
Grows ==
    \E x \in Uxids :
        /\ x \notin DOMAIN book /\ DOMAIN book' = DOMAIN book \cup {x}
        /\ DOMAIN positions' = DOMAIN positions \cup {x}
        /\ positions'[x].left > 0
        /\ \A u \in DOMAIN positions : u # x => positions'[u] = positions[u]
        /\ former' = IF x \in DOMAIN positions
                     THEN Append(former, [was |-> positions[x], parted |-> x \in parted])
                     ELSE former

\* Between two steps the factory holds what the simulator holds, but for what a
\* terminal close of a size of its own has left.
SameBooks ==
    /\ DOMAIN book \subseteq Open /\ Open \ DOMAIN book \subseteq parted
    /\ \A u \in DOMAIN book : book[u].left = positions[u].left

LEMMA ProcessBarStep ==
    ASSUME TypeOK, NEW b \in Bars, ProcessBar(b)
    PROVE  TypeOK' /\ Shrinks /\ (SameBooks => SameBooks')
<1>1. b \in BarType
  BY ReplayAssumption DEF Bars, BarType
<1>2. PositionsType(positions) /\ BookType(book, positions)
  BY TypesInParts
<1>3. positions' = [u \in DOMAIN positions |-> Walked(positions[u], b)]
  BY DEF ProcessBar
<1>4. \A u \in DOMAIN positions :
        /\ positions[u] \in PositionType /\ Walked(positions[u], b) \in PositionType
        /\ Walked(positions[u], b).left <= positions[u].left
  <2>1. \A u \in DOMAIN positions : positions[u] \in PositionType
    BY <1>2 DEF PositionsType
  <2> QED BY <1>1, <2>1, WalkedType
<1>5. /\ PositionsType(positions') /\ DOMAIN positions' = DOMAIN positions
      /\ \A u \in DOMAIN positions : positions'[u] = Walked(positions[u], b)
  BY <1>2, <1>3, <1>4 DEF PositionsType
<1>7. BookType(book, positions')
  BY <1>2, <1>5 DEF BookType
<1>8. /\ BookType(book', positions')
      /\ DOMAIN book' = {v \in DOMAIN book : positions'[v].left > 0}
      /\ \A u \in DOMAIN book' : book'[u].left = positions'[u].left
  <2>1. PICK held : held = positions'
    OBVIOUS
  <2>2. IsSynced(book, held) /\ book' = Synced(book, held)
    BY <1>5, <1>7, <2>1, SyncedType DEF ProcessBar
  <2> QED BY <2>1, <2>2 DEF IsSynced
<1>6. Shrinks
  BY <1>4, <1>5, <1>8 DEF Shrinks, ProcessBar
<1>9. phase' = "decide" /\ seen' \in Nat /\ asked' = 0 /\ shut' \in BOOLEAN /\ bar' = b
  <2>1. shut' \in (IF Weekends THEN BOOLEAN ELSE {FALSE})
    BY DEF ProcessBar
  <2>2. shut' \in BOOLEAN
    BY <2>1
  <2> QED BY <2>2 DEF ProcessBar, TypeOK
<1>10. told' \in SignalType /\ UNCHANGED <<former, parted>>
  BY DEF ProcessBar, NoSignal, SignalType, NoSize
<1>11. TypeOK'
  BY <1>1, <1>5, <1>8, <1>9, <1>10 DEF TypeOK, PositionsType, BookType
<1>12. ASSUME SameBooks PROVE SameBooks'
  <2>1. \A u \in DOMAIN positions : positions[u].left \in Nat /\ positions'[u].left \in Nat
    BY <1>4, <1>5 DEF PositionType
  <2>2. Open' \subseteq Open /\ \A v \in Open' : positions'[v].left > 0
    BY <1>5, <1>6, <2>1 DEF Open, Shrinks
  <2>3. DOMAIN book' \subseteq Open'
    BY <1>5, <1>7, <1>8 DEF Open, BookType
  <2>4. Open' \ DOMAIN book' \subseteq parted'
    BY <1>8, <1>10, <1>12, <2>2 DEF SameBooks
  <2> QED BY <1>8, <2>3, <2>4 DEF SameBooks
<1> QED BY <1>6, <1>11, <1>12

LEMMA FlattenStep ==
    ASSUME TypeOK, NEW S \in SUBSET DOMAIN positions, NEW reason \in Reasons,
           positions' = [u \in DOMAIN positions |->
                            IF u \in S THEN ClosedAt(positions[u], bar.close, NoSize, reason)
                            ELSE positions[u]]
    PROVE  /\ PositionsType(positions') /\ DOMAIN positions' = DOMAIN positions
           /\ \A u \in DOMAIN positions : positions'[u].left <= positions[u].left
           /\ \A u \in S : positions'[u].left = 0
           /\ \A u \in DOMAIN positions \ S : positions'[u] = positions[u]
<1>1. PositionsType(positions) /\ bar.close \in Int
  BY TypesInParts DEF TypeOK, BarType
<1>2. \A u \in DOMAIN positions : positions[u] \in PositionType /\ positions[u].left \in Nat
  BY <1>1 DEF PositionsType, PositionType
<1>3. \A u \in DOMAIN positions :
        /\ ClosedAt(positions[u], bar.close, NoSize, reason) \in PositionType
        /\ ClosedAt(positions[u], bar.close, NoSize, reason).left = 0
  BY <1>1, <1>2, ClosedAtType
<1> QED BY <1>1, <1>2, <1>3 DEF PositionsType

LEMMA EndBarStep ==
    ASSUME TypeOK, EndBar
    PROVE  /\ TypeOK' /\ Shrinks /\ (SameBooks => SameBooks')
           /\ SameBooks /\ shut => Open' \subseteq parted
<1> DEFINE flat == IF shut THEN DOMAIN book ELSE {}
<1>1. BookType(book, positions)
  BY TypesInParts
<1>2. flat \subseteq DOMAIN book /\ flat \in SUBSET DOMAIN positions
  BY <1>1 DEF BookType
<1>3. positions' = [u \in DOMAIN positions |->
                      IF u \in flat THEN ClosedAt(positions[u], bar.close, NoSize, "FLAT")
                      ELSE positions[u]]
  BY DEF EndBar
<1>4. book' = Without(book, flat)
  BY DEF EndBar
<1>5. shut => flat = DOMAIN book
  OBVIOUS
<1> HIDE DEF flat
<1>6. "FLAT" \in Reasons
  BY DEF Reasons, Terminal
<1>7. /\ PositionsType(positions') /\ DOMAIN positions' = DOMAIN positions
      /\ \A u \in DOMAIN positions : positions'[u].left <= positions[u].left
      /\ \A u \in flat : positions'[u].left = 0
      /\ \A u \in DOMAIN positions \ flat : positions'[u] = positions[u]
  BY <1>2, <1>3, <1>6, FlattenStep
<1>8. BookType(book, positions')
  BY <1>1, <1>7 DEF BookType
<1>9. /\ BookType(book', positions') /\ DOMAIN book' = DOMAIN book \ flat
      /\ \A u \in DOMAIN book \ flat : book'[u] = book[u]
  BY <1>4, <1>8, WithoutType
<1>10. /\ told' \in SignalType /\ phase' = "bar"
       /\ UNCHANGED <<seen, bar, shut, asked, former, parted>>
  BY DEF EndBar, NoSignal, SignalType, NoSize
<1>a. Shrinks
  BY <1>7, <1>9, <1>10 DEF Shrinks
<1>11. TypeOK'
  BY <1>7, <1>9, <1>10 DEF TypeOK, PositionsType, BookType
<1>12. Open' = Open \ flat
  BY <1>2, <1>7 DEF Open
<1>13. ASSUME SameBooks PROVE SameBooks'
  <2>1. DOMAIN book' \subseteq Open' /\ Open' \ DOMAIN book' \subseteq parted'
    BY <1>9, <1>10, <1>12, <1>13 DEF SameBooks
  <2>2. ASSUME NEW u \in DOMAIN book' PROVE book'[u].left = positions'[u].left
    <3>1. u \in DOMAIN positions \ flat /\ u \in DOMAIN book \ flat
      BY <1>1, <1>9, <2>2 DEF BookType
    <3> QED BY <1>7, <1>9, <1>13, <3>1 DEF SameBooks
  <2> QED BY <2>1, <2>2 DEF SameBooks
<1> QED BY <1>5, <1>a, <1>11, <1>12, <1>13 DEF SameBooks

LEMMA FinishStep ==
    ASSUME TypeOK, Finish
    PROVE  TypeOK' /\ Shrinks
<1> DEFINE all == DOMAIN positions
<1>1. positions' = [u \in DOMAIN positions |->
                      IF u \in all THEN ClosedAt(positions[u], bar.close, NoSize, "END_OF_DATA")
                      ELSE positions[u]]
  BY DEF Finish
<1>2. "END_OF_DATA" \in Reasons
  BY DEF Reasons
<1>3. /\ PositionsType(positions') /\ DOMAIN positions' = DOMAIN positions
      /\ \A u \in DOMAIN positions : positions'[u].left <= positions[u].left
  <2> HIDE DEF all
  <2> QED BY <1>1, <1>2, FlattenStep DEF all
<1>4. BookType(book', positions') /\ book' = book
  BY <1>3, TypesInParts DEF Finish, BookType
<1>5. /\ told' \in SignalType /\ phase' = "done"
      /\ UNCHANGED <<seen, bar, shut, asked, former, parted>>
  BY DEF Finish, NoSignal, SignalType, NoSize
<1>6. TypeOK'
  BY <1>3, <1>4, <1>5 DEF TypeOK, PositionsType, BookType
<1> QED BY <1>3, <1>4, <1>5, <1>6 DEF Shrinks

\* The position an entry opens, and the cycle the factory keeps of it.
OpenedBy(dir, stop, single, requested) ==
    LET price == bar.close
        levels == Bracketed(dir, price, stop, single)
        risk == RiskFor(requested)
        size == Sized(price, levels.sl, risk)
    IN  [dir |-> dir, at |-> price, entry |-> price + dir * HalfSpread,
         risk |-> risk, quantity |-> size, left |-> size, sl |-> levels.sl,
         tp1 |-> levels.tp1, tp2 |-> levels.tp2, filled |-> FALSE,
         gross |-> 0, legs |-> << >>]

LEMMA OpenedType ==
    ASSUME TypeOK, NEW dir \in {1, -1}, NEW stop \in Stops, NEW single \in BOOLEAN,
           NEW requested \in Risks \cup {NoRisk},
           NEW p, p = OpenedBy(dir, stop, single, requested)
    PROVE  p \in PositionType /\ p.quantity = p.left
<1> DEFINE price == bar.close
           levels == Bracketed(dir, price, stop, single)
           risk == RiskFor(requested)
           size == Sized(price, levels.sl, risk)
<1>1. p = [dir |-> dir, at |-> price, entry |-> price + dir * HalfSpread,
           risk |-> risk, quantity |-> size, left |-> size, sl |-> levels.sl,
           tp1 |-> levels.tp1, tp2 |-> levels.tp2, filled |-> FALSE,
           gross |-> 0, legs |-> << >>]
  BY DEF OpenedBy
<1>2. price \in Int /\ stop \in Int /\ HalfSpread \in Nat
  BY ReplayAssumption DEF TypeOK, BarType
<1>3. /\ levels.sl \in Int /\ levels.tp1 \in Int \cup {NoLevel} /\ levels.tp2 \in Int
  <2>1. price - stop \in Int /\ Distance(price, price - stop) \in Int
    BY <1>2 DEF Distance
  <2> QED BY <1>2, <2>1 DEF Bracketed
<1>4. risk \in Nat
  BY RiskIsBounded
<1> HIDE DEF price, levels, risk
<1>5. size \in Nat
  BY <1>2, <1>3, <1>4, SizeIsBounded
<1> HIDE DEF size
<1>6. price + dir * HalfSpread \in Int
  BY <1>2
<1>7. << >> \in Seq(Leg)
  OBVIOUS
<1> QED BY <1>1, <1>2, <1>3, <1>4, <1>5, <1>6, <1>7 DEF PositionType

\* An entry that is taken.
Taken(x, p, dir, stop, single, proposed, requested) ==
    /\ x \in Uxids /\ x \notin DOMAIN book
    /\ p = OpenedBy(dir, stop, single, requested) /\ p.left # 0
    /\ book' = With(book, x, [quantity |-> p.left, left |-> p.left, ours |-> p.left,
                              theirs |-> IF proposed = NoSize THEN p.left ELSE proposed])
    /\ positions' = With(positions, x, p)
    /\ former' = IF x \in DOMAIN positions
                 THEN Append(former, [was |-> positions[x], parted |-> x \in parted])
                 ELSE former
    /\ parted' = parted \ {x}
    /\ told' = [NoSignal EXCEPT !.uxid = x, !.action = "entry",
                                !.size = p.left, !.running = TRUE]

LEMMA EnterForm ==
    ASSUME TypeOK, NEW dir \in {1, -1}, NEW stop \in Stops, NEW single \in BOOLEAN,
           NEW proposed \in Proposals \cup {NoSize}, NEW requested \in Risks \cup {NoRisk},
           NEW named \in Uxids \cup {0}, Enter(dir, stop, single, proposed, requested, named)
    PROVE  /\ phase = "decide" /\ asked' = asked + 1 /\ UNCHANGED <<phase, seen, bar, shut>>
           /\ \/ UNCHANGED <<book, positions, former, told, parted>>
              \/ \E x, p : Taken(x, p, dir, stop, single, proposed, requested)
<1> DEFINE size == Sized(bar.close, Bracketed(dir, bar.close, stop, single).sl,
                         RiskFor(requested))
           p == OpenedBy(dir, stop, single, requested)
           x == IdFor(named)
<1>1. /\ phase = "decide" /\ asked' = asked + 1 /\ UNCHANGED <<phase, seen, bar, shut>>
      /\ MayName(named)
  BY DEF Enter
<1>2. x \in Uxids
  BY <1>1, IdType
<1>3. p.left = size
  BY DEF OpenedBy
<1>4. CASE ~UNCHANGED <<book, positions, former, told, parted>>
  <2>1. /\ ~IsTaken(x) /\ size # 0
        /\ book' = With(book, x,
                     [quantity |-> size, left |-> size, ours |-> size,
                      theirs |-> IF proposed = NoSize THEN size ELSE proposed])
        /\ positions' = With(positions, x, p)
        /\ former' = IF x \in DOMAIN positions
                     THEN Append(former, [was |-> positions[x], parted |-> x \in parted])
                     ELSE former
        /\ parted' = parted \ {x}
        /\ told' = [NoSignal EXCEPT !.uxid = x, !.action = "entry",
                                    !.size = size, !.running = TRUE]
    BY <1>4 DEF Enter, OpenedBy
  <2> HIDE DEF p, x, size
  <2>2. x \notin DOMAIN book
    BY <2>1 DEF IsTaken
  <2>3. Taken(x, p, dir, stop, single, proposed, requested)
    BY <1>2, <1>3, <2>1, <2>2 DEF Taken, p
  <2> QED BY <1>1, <2>3
<1> QED BY <1>1, <1>4

LEMMA TakenStep ==
    ASSUME TypeOK, NEW dir \in {1, -1}, NEW stop \in Stops, NEW single \in BOOLEAN,
           NEW proposed \in Proposals \cup {NoSize}, NEW requested \in Risks \cup {NoRisk},
           NEW x, NEW p, Taken(x, p, dir, stop, single, proposed, requested)
    PROVE  /\ PositionsType(positions') /\ BookType(book', positions')
           /\ former' \in Seq(FormerType) /\ parted' \subseteq Uxids /\ told' \in SignalType
           /\ Grows /\ told'.running = TRUE /\ told'.uxid \in Open'
           /\ SameBooks => SameBooks'
<1> DEFINE fresh == [quantity |-> p.left, left |-> p.left, ours |-> p.left,
                     theirs |-> IF proposed = NoSize THEN p.left ELSE proposed]
<1>1. /\ x \in Uxids /\ x \notin DOMAIN book /\ p.left # 0
      /\ book' = With(book, x, fresh) /\ positions' = With(positions, x, p)
      /\ former' = IF x \in DOMAIN positions
                   THEN Append(former, [was |-> positions[x], parted |-> x \in parted])
                   ELSE former
      /\ parted' = parted \ {x}
      /\ told' = [NoSignal EXCEPT !.uxid = x, !.action = "entry",
                                  !.size = p.left, !.running = TRUE]
  BY DEF Taken
<1>2. p \in PositionType
  BY OpenedType DEF Taken
<1>3. p.left \in Nat /\ p.left > 0
  BY <1>1, <1>2 DEF PositionType
<1>4. fresh \in CycleType /\ fresh.left = p.left
  <2>1. proposed # NoSize => proposed \in Nat \ {0}
    BY ReplayAssumption
  <2> QED BY <1>3, <2>1 DEF CycleType
<1> HIDE DEF fresh
<1>5. PositionsType(positions) /\ BookType(book, positions)
  BY TypesInParts
<1>6. /\ PositionsType(positions') /\ DOMAIN positions' = DOMAIN positions \cup {x}
      /\ positions'[x] = p
      /\ \A u \in DOMAIN positions : u # x => positions'[u] = positions[u]
  <2>1. x \in Uxids /\ positions' = With(positions, x, p)
    BY <1>1
  <2>2. PICK new : new = positions'
    OBVIOUS
  <2>3. /\ PositionsType(new) /\ DOMAIN new = DOMAIN positions \cup {x}
        /\ new[x] = p
        /\ \A u \in DOMAIN positions : u # x => new[u] = positions[u]
    BY <1>2, <1>5, <2>1, <2>2, WithType
  <2> QED BY <2>2, <2>3
<1>7. BookType(book', positions')
  <2>1. DOMAIN positions \subseteq DOMAIN positions' /\ x \in DOMAIN positions'
    BY <1>6
  <2> QED BY <1>1, <1>4, <1>5, <2>1, BookWithType
<1>8. /\ DOMAIN book' = DOMAIN book \cup {x} /\ book'[x] = fresh
      /\ \A u \in DOMAIN book : u # x => book'[u] = book[u]
  BY <1>1 DEF With
<1>9. former' \in Seq(FormerType)
  <2>1. CASE x \in DOMAIN positions
    <3>1. positions[x] \in PositionType /\ (x \in parted) \in BOOLEAN
      BY <1>5, <2>1 DEF PositionsType
    <3>2. [was |-> positions[x], parted |-> x \in parted] \in FormerType
      BY <3>1 DEF FormerType
    <3> QED BY <1>1, <2>1, <3>2 DEF TypeOK
  <2>2. CASE x \notin DOMAIN positions
    BY <1>1, <2>2 DEF TypeOK
  <2> QED BY <2>1, <2>2
<1>10. told' \in SignalType /\ told'.uxid = x /\ told'.running = TRUE
  <2>1. told' = [uxid |-> x, action |-> "entry", size |-> p.left, running |-> TRUE,
                 known |-> TRUE]
    BY <1>1 DEF NoSignal
  <2>2. x \in Nat /\ p.left \in Int
    BY <1>1, <1>3 DEF Uxids
  <2> QED BY <2>1, <2>2 DEF SignalType
<1>11. parted' \subseteq Uxids
  BY <1>1 DEF TypeOK
<1>12. Grows
  BY <1>1, <1>3, <1>6, <1>8 DEF Grows
<1>13. Open' = Open \cup {x}
  BY <1>3, <1>6 DEF Open
<1>14. ASSUME SameBooks PROVE SameBooks'
  <2>1. DOMAIN book' \subseteq Open'
    BY <1>8, <1>13, <1>14 DEF SameBooks
  <2>2. Open' \ DOMAIN book' \subseteq parted'
    BY <1>1, <1>8, <1>13, <1>14 DEF SameBooks
  <2>3. ASSUME NEW u \in DOMAIN book' PROVE book'[u].left = positions'[u].left
    <3>1. CASE u = x
      BY <1>4, <1>6, <1>8, <3>1
    <3>2. CASE u # x
      <4>1. u \in DOMAIN book /\ u \in DOMAIN positions
        BY <1>5, <1>8, <2>3, <3>2 DEF BookType
      <4> QED BY <1>6, <1>8, <1>14, <3>2, <4>1 DEF SameBooks
    <3> QED BY <3>1, <3>2
  <2> QED BY <2>1, <2>2, <2>3 DEF SameBooks
<1> QED BY <1>6, <1>7, <1>9, <1>10, <1>11, <1>12, <1>13, <1>14

LEMMA EnterStep ==
    ASSUME TypeOK, NEW dir \in {1, -1}, NEW stop \in Stops, NEW single \in BOOLEAN,
           NEW proposed \in Proposals \cup {NoSize}, NEW requested \in Risks \cup {NoRisk},
           NEW named \in Uxids \cup {0}, Enter(dir, stop, single, proposed, requested, named)
    PROVE  TypeOK' /\ (SameBooks => SameBooks')
           /\ \/ UNCHANGED <<book, positions, former, told, parted>>
              \/ Grows /\ told'.running = TRUE /\ told'.uxid \in Open'
<1>1. /\ asked' = asked + 1 /\ UNCHANGED <<phase, seen, bar, shut>>
      /\ \/ UNCHANGED <<book, positions, former, told, parted>>
         \/ \E x, p : Taken(x, p, dir, stop, single, proposed, requested)
  BY EnterForm
<1>2. CASE UNCHANGED <<book, positions, former, told, parted>>
  BY <1>1, <1>2 DEF TypeOK, SameBooks, Open
<1>3. ASSUME NEW x, NEW p, Taken(x, p, dir, stop, single, proposed, requested)
      PROVE  /\ TypeOK' /\ (SameBooks => SameBooks')
             /\ Grows /\ told'.running = TRUE /\ told'.uxid \in Open'
  <2>1. /\ PositionsType(positions') /\ BookType(book', positions')
        /\ former' \in Seq(FormerType) /\ parted' \subseteq Uxids /\ told' \in SignalType
        /\ Grows /\ told'.running = TRUE /\ told'.uxid \in Open'
        /\ SameBooks => SameBooks'
    BY <1>3, TakenStep
  <2>2. TypeOK'
    BY <1>1, <2>1 DEF TypeOK, PositionsType, BookType
  <2> QED BY <2>1, <2>2
<1> QED BY <1>1, <1>2, <1>3

\* What a close of the strategy leaves of the position it is filled on.
ClosedBy(p, q, action) ==
    IF p.left = 0 THEN p ELSE AfterTp1(ClosedAt(p, bar.close, q, action), action)

LEMMA ClosedByType ==
    ASSUME bar.close \in Int, NEW p \in PositionType, NEW q \in Nat \cup {NoSize},
           NEW action \in Closes
    PROVE  /\ ClosedBy(p, q, action) \in PositionType
           /\ ClosedBy(p, q, action).left =
                 IF p.left = 0 \/ q = NoSize THEN 0 ELSE p.left - Lesser(q, p.left)
<1>1. action \in Reasons
  BY DEF Reasons, Closes
<1> DEFINE r == ClosedAt(p, bar.close, q, action)
<1>2. r \in PositionType /\ r.left = IF q = NoSize THEN 0 ELSE p.left - Lesser(q, p.left)
  BY <1>1, ClosedAtType
<1> HIDE DEF r
<1>3. AfterTp1(r, action) \in PositionType /\ AfterTp1(r, action).left = r.left
  BY <1>2, AfterTp1Type
<1>4. ClosedBy(p, q, action) = IF p.left = 0 THEN p ELSE AfterTp1(r, action)
  BY DEF ClosedBy, r
<1> QED BY <1>2, <1>3, <1>4

\* A close that finds a cycle: one the factory knows, or one that is over.
Filled(u, q, action, size) ==
    LET known == u \in DOMAIN book
        after == IF ~known THEN book
                 ELSE IF Ends(action, q, book[u]) THEN Without(book, {u})
                 ELSE [book EXCEPT ![u].left = LeftAfter(q, book[u])]
    IN  /\ IF known THEN q \in CloseSizes(size, action, book[u]) ELSE q = size
        /\ positions' = [positions EXCEPT ![u] = ClosedBy(positions[u], q, action)]
        /\ book' = Synced(after, positions')
        /\ parted' = IF known /\ action \in Terminal /\ size # NoSize
                     THEN parted \cup {u} ELSE parted
        /\ told' = [uxid |-> u, action |-> action, size |-> q, known |-> known,
                    running |-> IF known THEN StillRunning(action, q, book[u]) ELSE FALSE]

LEMMA CloseForm ==
    ASSUME TypeOK, NEW action \in CloseActions, NEW named \in Uxids \cup {0},
           NEW size \in Proposals \cup {NoSize}, Close(action, named, size)
    PROVE  /\ action \in Closes /\ size \in Nat \cup {NoSize}
           /\ phase = "decide" /\ asked' = asked + 1
           /\ UNCHANGED <<phase, seen, bar, shut, former>>
           /\ \/ UNCHANGED <<book, positions, told, parted>>
              \/ \E u \in DOMAIN positions, q \in Nat \cup {NoSize} :
                    Filled(u, q, action, size)
<1>1. action \in Closes /\ size \in Nat \cup {NoSize}
  BY ReplayAssumption
<1>2. CASE Addressed(named) = {}
  BY <1>1, <1>2 DEF Close
<1>3. CASE Addressed(named) # {}
  <2>1. PICK u \in Addressed(named) :
          \E q \in IF u \in DOMAIN book THEN CloseSizes(size, action, book[u]) ELSE {size} :
            Filled(u, q, action, size)
    BY <1>3 DEF Close, Filled, ClosedBy
  <2>2. PICK q \in IF u \in DOMAIN book THEN CloseSizes(size, action, book[u]) ELSE {size} :
            Filled(u, q, action, size)
    BY <2>1
  <2>3. u \in DOMAIN positions
    BY <2>1 DEF Close, Addressed, TypeOK
  <2>4. q \in Nat \cup {NoSize}
    <3>1. CASE u \in DOMAIN book
      <4>1. book[u] \in CycleType /\ q \in CloseSizes(size, action, book[u])
        BY <2>2, <3>1 DEF TypeOK
      <4> QED BY <1>1, <4>1, CloseSizesType
    <3>2. CASE u \notin DOMAIN book
      BY <1>1, <2>2, <3>2
    <3> QED BY <3>1, <3>2
  <2> QED BY <1>1, <2>2, <2>3, <2>4 DEF Close
<1> QED BY <1>2, <1>3

LEMMA FilledStep ==
    ASSUME TypeOK, NEW action \in Closes, NEW size \in Nat \cup {NoSize},
           NEW u \in DOMAIN positions, NEW q \in Nat \cup {NoSize}, Filled(u, q, action, size),
           former' = former
    PROVE  /\ PositionsType(positions') /\ Shrinks /\ BookType(book', positions')
           /\ told' \in SignalType /\ told'.uxid = u /\ parted' \subseteq Uxids
           /\ SameBooks => SameBooks' /\ (u \notin parted' => (told'.running <=> u \in Open'))
<1> DEFINE new == ClosedBy(positions[u], q, action)
           known == u \in DOMAIN book
           over == Ends(action, q, book[u])
           after == IF ~known THEN book
                    ELSE IF over THEN Without(book, {u})
                    ELSE [book EXCEPT ![u].left = LeftAfter(q, book[u])]
<1>1. PositionsType(positions) /\ BookType(book, positions) /\ bar.close \in Int
  BY TypesInParts DEF TypeOK, BarType
<1>2. \A v \in DOMAIN positions : positions[v] \in PositionType /\ positions[v].left \in Nat
  BY <1>1 DEF PositionsType, PositionType
<1>3. /\ new \in PositionType /\ new.left \in Nat
      /\ new.left = IF positions[u].left = 0 \/ q = NoSize THEN 0
                    ELSE positions[u].left - Lesser(q, positions[u].left)
  BY <1>1, <1>2, ClosedByType DEF PositionType
<1>4. /\ IF known THEN q \in CloseSizes(size, action, book[u]) ELSE q = size
      /\ positions' = [positions EXCEPT ![u] = new]
      /\ book' = Synced(after, positions')
      /\ parted' = IF known /\ action \in Terminal /\ size # NoSize
                   THEN parted \cup {u} ELSE parted
      /\ told' = [uxid |-> u, action |-> action, size |-> q, known |-> known,
                  running |-> IF known THEN StillRunning(action, q, book[u]) ELSE FALSE]
  BY DEF Filled
<1>5. known => /\ book[u] \in CycleType /\ book[u].left \in Nat
               /\ q # NoSize => q <= book[u].left
               /\ q = NoSize => action \in Terminal
               /\ size = NoSize /\ action \in Terminal => q \in {NoSize, book[u].left}
  <2>1. known => book[u] \in CycleType /\ book[u].left \in Nat
    BY <1>1 DEF BookType, CycleType
  <2> QED BY <1>4, <2>1, CloseSizesType
<1> HIDE DEF new
<1>6. /\ DOMAIN positions' = DOMAIN positions /\ positions'[u] = new
      /\ \A v \in DOMAIN positions : v # u => positions'[v] = positions[v]
  BY <1>1, <1>4 DEF PositionsType
<1>7. PositionsType(positions')
  BY <1>1, <1>3, <1>4, <1>6 DEF PositionsType
<1>8. new.left <= positions[u].left
  BY <1>2, <1>3 DEF Lesser, NoSize
<1>9. \A v \in DOMAIN positions : positions'[v].left <= positions[v].left
  <2>1. \A v \in DOMAIN positions : positions[v].left <= positions[v].left
    BY <1>2
  <2> QED BY <1>6, <1>8, <2>1
<1>10. BookType(after, positions') /\ DOMAIN after = IF known /\ over THEN DOMAIN book \ {u}
                                                     ELSE DOMAIN book
  <2>1. BookType(book, positions')
    BY <1>1, <1>6 DEF BookType
  <2>2. CASE ~known
    BY <2>1, <2>2
  <2>3. CASE known /\ over
    BY <2>1, <2>3, WithoutType
  <2>4. CASE known /\ ~over
    <3>1. LeftAfter(q, book[u]) \in Nat
      BY <1>5, <2>4 DEF LeftAfter, NoSize
    <3>2. [book[u] EXCEPT !.left = LeftAfter(q, book[u])] \in CycleType
      BY <1>5, <2>4, <3>1 DEF CycleType
    <3>3. after = [book EXCEPT ![u] = [book[u] EXCEPT !.left = LeftAfter(q, book[u])]]
      BY <2>4
    <3> HIDE DEF after
    <3> QED BY <2>1, <2>4, <3>2, <3>3 DEF BookType
  <2> QED BY <2>2, <2>3, <2>4
<1> HIDE DEF after
<1>11. /\ BookType(book', positions')
       /\ DOMAIN book' = {v \in DOMAIN after : positions'[v].left > 0}
       /\ \A v \in DOMAIN book' : book'[v].left = positions'[v].left
  <2>1. BookType(after, positions') /\ book' = Synced(after, positions')
    BY <1>4, <1>10
  <2>2. PICK held, cycles : held = positions' /\ cycles = after
    OBVIOUS
  <2>3. PositionsType(held) /\ BookType(cycles, held) /\ book' = Synced(cycles, held)
    BY <1>7, <2>1, <2>2
  <2>4. IsSynced(cycles, held)
    BY ONLY <2>3, SyncedType
  <2> QED BY <2>2, <2>3, <2>4 DEF IsSynced
<1>12. told' \in SignalType /\ told'.uxid = u
  <2>1. u \in Nat
    BY <1>1 DEF PositionsType, Uxids
  <2>2. q \in Int /\ action \in Closes \cup {"none", "entry"}
    BY DEF NoSize
  <2> DEFINE running == IF known THEN StillRunning(action, q, book[u]) ELSE FALSE
  <2>3. known \in BOOLEAN
    OBVIOUS
  <2>4. running \in BOOLEAN
    <3>1. StillRunning(action, q, book[u]) \in BOOLEAN
      BY DEF StillRunning
    <3> QED BY <3>1
  <2>5. told' = [uxid |-> u, action |-> action, size |-> q, known |-> known,
                running |-> running]
    BY <1>4
  <2> HIDE DEF known, running
  <2> QED BY <2>1, <2>2, <2>3, <2>4, <2>5 DEF SignalType
<1>13. Shrinks
  BY <1>6, <1>9, <1>10, <1>11 DEF Shrinks
<1>14. parted' \subseteq Uxids /\ parted \subseteq parted'
  BY <1>1, <1>4 DEF TypeOK, PositionsType
<1>15. ASSUME SameBooks PROVE SameBooks' /\ (u \notin parted' => (told'.running <=> u \in Open'))
  <2>1. \A v \in DOMAIN positions : v # u => (v \in Open <=> v \in Open')
    BY <1>6 DEF Open
  <2>2. u \in Open' <=> new.left > 0
    BY <1>6 DEF Open
  <2>3. Open \subseteq DOMAIN positions /\ Open' \subseteq DOMAIN positions /\ Open' \subseteq Open
    <3>1. Open \subseteq DOMAIN positions /\ Open' \subseteq DOMAIN positions
      BY <1>6 DEF Open
    <3>2. u \in Open' => u \in Open
      BY <1>2, <1>3, <1>8, <2>2 DEF Open
    <3> QED BY <2>1, <3>1, <3>2
  <2>4. DOMAIN book' \subseteq Open'
    BY <1>6, <1>11 DEF Open, BookType
  <2>5. CASE ~known
    <3>1. u \in Open => u \in parted
      BY <1>15, <2>5 DEF SameBooks
    <3>2. told'.running = FALSE
      BY <1>4, <2>5
    <3>3. Open' \ DOMAIN book' \subseteq parted'
      <4>1. DOMAIN book' = {v \in DOMAIN book : positions'[v].left > 0}
        BY <1>10, <1>11, <2>5
      <4>2. \A v \in Open' : positions'[v].left > 0
        BY DEF Open
      <4> QED BY <1>14, <1>15, <2>3, <4>1, <4>2 DEF SameBooks
    <3>4. u \notin parted' => u \notin Open'
      BY <1>14, <2>3, <3>1
    <3> QED BY <1>11, <2>4, <3>2, <3>3, <3>4 DEF SameBooks
  <2>6. CASE known
    <3>1. book[u].left = positions[u].left /\ positions[u].left > 0
      BY <1>15, <2>6 DEF SameBooks, Open
    <3>2. action \in Terminal /\ size = NoSize => new.left = 0
      BY <1>2, <1>3, <1>5, <2>6, <3>1 DEF Lesser, Terminal
    <3>3. action \notin Terminal => q # NoSize /\ new.left = positions[u].left - q
      BY <1>2, <1>3, <1>5, <2>6, <3>1 DEF Lesser, NoSize
    <3>4. action \in Terminal /\ size # NoSize => u \in parted'
      BY <1>4, <2>6
    <3>5. u \notin parted' => (told'.running <=> new.left > 0)
      <4>1. told'.running <=> StillRunning(action, q, book[u])
        <5>1. told'.running = StillRunning(action, q, book[u])
          BY <1>4, <2>6
        <5> QED BY ONLY <5>1
      <4>2. CASE action \in Terminal
        <5>1. ~StillRunning(action, q, book[u])
          BY <4>2 DEF StillRunning
        <5>2. u \notin parted' => ~(new.left > 0)
          BY <3>2, <3>4, <4>2
        <5> QED BY <4>1, <5>1, <5>2
      <4>3. CASE action \notin Terminal
        <5>1. q \in Nat /\ book[u].left \in Nat
          BY <1>5, <2>6, <3>3, <4>3
        <5>2. StillRunning(action, q, book[u]) <=> book[u].left > q
          BY <4>3 DEF StillRunning
        <5>3. new.left > 0 <=> book[u].left > q
          BY <3>1, <3>3, <4>3, <5>1
        <5> QED BY <4>1, <5>2, <5>3
      <4> QED BY <4>2, <4>3
    <3>6. over /\ u \notin parted' => new.left = 0
      <4>1. CASE action \in Terminal
        BY <3>2, <3>4, <4>1
      <4>2. CASE action \notin Terminal
        BY <1>2, <1>5, <2>6, <3>1, <3>3, <4>2 DEF Ends, LeftAfter, NoSize
      <4> QED BY <4>1, <4>2
    <3>7. Open' \ DOMAIN book' \subseteq parted'
      <4>1. ASSUME NEW v \in Open', v \notin DOMAIN book', v \notin parted' PROVE FALSE
        <5>1. v \in Open /\ v \notin parted /\ positions'[v].left > 0
          BY <1>14, <2>3, <4>1 DEF Open
        <5>2. v \in DOMAIN book
          BY <1>15, <5>1 DEF SameBooks
        <5>3. v = u /\ over
          BY <1>10, <1>11, <2>6, <4>1, <5>1, <5>2
        <5>4. new.left > 0
          BY <2>2, <4>1, <5>3
        <5> QED BY <3>6, <4>1, <5>3, <5>4
      <4> QED BY <4>1
    <3> QED BY <1>11, <2>2, <2>4, <3>5, <3>7 DEF SameBooks
  <2> QED BY <2>5, <2>6
<1> QED BY <1>7, <1>11, <1>12, <1>13, <1>14, <1>15

\* The same position is no larger.
LEMMA StandingShrinks ==
    ASSUME TypeOK, UNCHANGED <<book, positions, former>>
    PROVE  Shrinks
BY DEF TypeOK, Shrinks, PositionType

LEMMA CloseStep ==
    ASSUME TypeOK, NEW action \in CloseActions, NEW named \in Uxids \cup {0},
           NEW size \in Proposals \cup {NoSize}, Close(action, named, size)
    PROVE  /\ TypeOK' /\ Shrinks
           /\ SameBooks
                => /\ SameBooks'
                   /\ \/ UNCHANGED <<book, positions, told, parted>>
                      \/ told'.uxid \notin parted' => (told'.running <=> told'.uxid \in Open')
<1>1. /\ action \in Closes /\ size \in Nat \cup {NoSize}
      /\ asked' = asked + 1 /\ UNCHANGED <<phase, seen, bar, shut, former>>
  BY CloseForm
<1>2. CASE UNCHANGED <<book, positions, told, parted>>
  BY <1>1, <1>2, StandingShrinks DEF TypeOK, SameBooks, Open
<1>3. ASSUME NEW u \in DOMAIN positions, NEW q \in Nat \cup {NoSize}, Filled(u, q, action, size)
      PROVE  /\ TypeOK' /\ Shrinks
             /\ SameBooks
                  => /\ SameBooks'
                     /\ told'.uxid \notin parted' => (told'.running <=> told'.uxid \in Open')
  <2>1. /\ PositionsType(positions') /\ Shrinks /\ BookType(book', positions')
        /\ told' \in SignalType /\ told'.uxid = u /\ parted' \subseteq Uxids
        /\ SameBooks => SameBooks' /\ (u \notin parted' => (told'.running <=> u \in Open'))
    BY <1>1, <1>3, FilledStep
  <2>2. TypeOK'
    BY <1>1, <2>1 DEF TypeOK, PositionsType, BookType
  <2> QED BY <2>1, <2>2
<1>4. \/ UNCHANGED <<book, positions, told, parted>>
      \/ \E u \in DOMAIN positions, q \in Nat \cup {NoSize} : Filled(u, q, action, size)
  BY CloseForm
<1> QED BY <1>2, <1>3, <1>4

LEMMA StepTypes ==
    ASSUME TypeOK, [Next]_vars
    PROVE  TypeOK' /\ (Shrinks \/ Grows)
<1>1. CASE \E b \in Bars : ProcessBar(b)
  BY <1>1, ProcessBarStep
<1>2. CASE Decide
  <2>1. CASE \E dir \in {1, -1}, stop \in Stops, single \in BOOLEAN,
                proposed \in Proposals \cup {NoSize}, requested \in Risks \cup {NoRisk},
                named \in Uxids \cup {0} :
                  Enter(dir, stop, single, proposed, requested, named)
    BY <2>1, EnterStep, StandingShrinks
  <2>2. CASE \E action \in CloseActions, named \in Uxids \cup {0},
                size \in Proposals \cup {NoSize} : Close(action, named, size)
    BY <2>2, CloseStep
  <2> QED BY <1>2, <2>1, <2>2 DEF Decide
<1>3. CASE EndBar
  BY <1>3, EndBarStep
<1>4. CASE Finish
  BY <1>4, FinishStep
<1>5. CASE UNCHANGED vars
  BY <1>5, StandingShrinks DEF vars, TypeOK
<1> QED BY <1>1, <1>2, <1>3, <1>4, <1>5 DEF Next

\* The variables keep their types, whatever the strategy asks for.
THEOREM ReplayTypeCorrect == Spec => []TypeOK
<1>1. Init => TypeOK
  BY InitType
<1>2. TypeOK /\ [Next]_vars => TypeOK'
  BY StepTypes
<1> QED BY <1>1, <1>2, PTL DEF Spec
-----------------------------------------------------------------------------
(* The books agree.                                                        *)

\* What has been replaced while it was open had been parted.
Replaced == \A i \in DOMAIN former : former[i].was.left > 0 => former[i].parted

LEMMA ReplacedGrows ==
    ASSUME TypeOK, phase # "done" => SameBooks, phase # "done", Replaced, Grows
    PROVE  Replaced'
<1>1. PICK x \in Uxids :
        /\ x \notin DOMAIN book
        /\ former' = IF x \in DOMAIN positions
                     THEN Append(former, [was |-> positions[x], parted |-> x \in parted])
                     ELSE former
  BY DEF Grows
<1>2. CASE x \notin DOMAIN positions
  BY <1>1, <1>2 DEF Replaced
<1>3. CASE x \in DOMAIN positions
  <2> DEFINE f == [was |-> positions[x], parted |-> x \in parted]
  <2>1. former' = Append(former, f)
    BY <1>1, <1>3
  <2>2. f.was.left > 0 => f.parted
    <3>1. positions[x].left > 0 => x \in Open \ DOMAIN book
      BY <1>1, <1>3 DEF Open
    <3> QED BY <3>1 DEF SameBooks
  <2>3. former \in Seq(FormerType)
    BY DEF TypeOK
  <2> HIDE DEF f
  <2>4. ASSUME NEW i \in DOMAIN former'
        PROVE  former'[i].was.left > 0 => former'[i].parted
    <3>1. \/ i \in DOMAIN former /\ former'[i] = former[i]
          \/ former'[i] = f
      BY <2>1, <2>3, <2>4
    <3> QED BY <2>2, <3>1 DEF Replaced
  <2> QED BY <2>4 DEF Replaced
<1> QED BY <1>2, <1>3

\* The factory's book and the simulator's agree between any two steps of the replay but
\* for the cycles that a terminal close of a size of its own has ended, and every payload
\* has said of the others what came to pass (SignalFactory, BacktestEngine._sync_cycle).
THEOREM ReplayBooksAgree == Spec => []BooksAgree
<1>1. Init => BooksAgree
  <2> SUFFICES ASSUME Init PROVE BooksAgree
    OBVIOUS
  <2>1. DOMAIN book = {} /\ DOMAIN positions = {} /\ told.uxid = 0 /\ DOMAIN former = {}
    BY DEF Init, NoSignal
  <2> QED BY <2>1 DEF BooksAgree, Open
<1>2. TypeOK /\ BooksAgree /\ [Next]_vars => BooksAgree'
  <2> SUFFICES ASSUME TypeOK, BooksAgree, [Next]_vars PROVE BooksAgree'
    OBVIOUS
  <2>1. (phase # "done" => SameBooks) /\ Replaced
    BY DEF BooksAgree, SameBooks, Replaced
  <2>2. ASSUME NEW b \in Bars, ProcessBar(b) PROVE BooksAgree'
    <3>1. phase # "done" /\ told'.uxid = 0 /\ former' = former
      BY <2>2 DEF ProcessBar, NoSignal
    <3>2. SameBooks' /\ Replaced'
      BY <2>1, <2>2, <3>1, ProcessBarStep DEF Replaced
    <3> QED BY <3>1, <3>2 DEF BooksAgree, SameBooks, Replaced
  <2>3. ASSUME NEW dir \in {1, -1}, NEW stop \in Stops, NEW single \in BOOLEAN,
               NEW proposed \in Proposals \cup {NoSize}, NEW requested \in Risks \cup {NoRisk},
               NEW named \in Uxids \cup {0},
               Enter(dir, stop, single, proposed, requested, named)
        PROVE  BooksAgree'
    <3>1. phase = "decide" /\ phase' = phase
      BY <2>3, EnterForm
    <3>2. /\ SameBooks'
          /\ \/ UNCHANGED <<book, positions, former, told, parted>>
             \/ Grows /\ told'.running = TRUE /\ told'.uxid \in Open'
      BY <2>1, <2>3, <3>1, EnterStep
    <3>3. told'.uxid # 0 /\ told'.uxid \notin parted' => (told'.running <=> told'.uxid \in Open')
      BY <3>1, <3>2 DEF BooksAgree, Open
    <3>4. Replaced'
      <4>1. CASE former' = former
        BY <2>1, <4>1 DEF Replaced
      <4>2. CASE Grows
        BY <2>1, <3>1, <4>2, ReplacedGrows
      <4> QED BY <3>2, <4>1, <4>2
    <3> QED BY <3>2, <3>3, <3>4 DEF BooksAgree, SameBooks, Replaced
  <2>4. ASSUME NEW action \in CloseActions, NEW named \in Uxids \cup {0},
               NEW size \in Proposals \cup {NoSize}, Close(action, named, size)
        PROVE  BooksAgree'
    <3>1. phase = "decide" /\ phase' = phase /\ former' = former
      BY <2>4, CloseForm
    <3>2. /\ SameBooks'
          /\ \/ UNCHANGED <<book, positions, told, parted>>
             \/ told'.uxid \notin parted' => (told'.running <=> told'.uxid \in Open')
      BY <2>1, <2>4, <3>1, CloseStep
    <3>3. told'.uxid # 0 /\ told'.uxid \notin parted' => (told'.running <=> told'.uxid \in Open')
      BY <3>1, <3>2 DEF BooksAgree, Open
    <3>4. Replaced'
      BY <2>1, <3>1 DEF Replaced
    <3> QED BY <3>2, <3>3, <3>4 DEF BooksAgree, SameBooks, Replaced
  <2>5. ASSUME EndBar PROVE BooksAgree'
    <3>1. phase # "done" /\ phase' = "bar" /\ former' = former
      BY <2>5 DEF EndBar
    <3>2. SameBooks' /\ Replaced'
      BY <2>1, <2>5, <3>1, EndBarStep DEF Replaced
    <3> QED BY <3>1, <3>2 DEF BooksAgree, SameBooks, Replaced
  <2>6. ASSUME Finish PROVE BooksAgree'
    BY <2>6 DEF Finish, BooksAgree
  <2>7. CASE UNCHANGED vars
    BY <2>7 DEF vars, BooksAgree, Open
  <2> QED BY <2>2, <2>3, <2>4, <2>5, <2>6, <2>7 DEF Next, Decide
<1> QED BY <1>1, <1>2, ReplayTypeCorrect, PTL DEF Spec
-----------------------------------------------------------------------------
(* The refinement.                                                         *)

\* The cycles the factory has open, with what the simulator has left of them, are a book
\* of cycles: an id that is open is never entered again, whatever names a strategy gives
\* its entries, and its cycle gets smaller and smaller until it is over, whatever levels
\* a bar touches and whatever the strategy closes, also a cycle that is over.
THEOREM ReplayImplementsTradeBook == Spec => ImplementsTradeBook
<1>1. Init => Book!Init
  <2> SUFFICES ASSUME Init PROVE Book!Init
    OBVIOUS
  <2>1. DOMAIN positions = {}
    BY DEF Init
  <2> QED BY <2>1 DEF Book!Init, Cycles
<1>2. TypeOK /\ TypeOK' /\ [Next]_vars => [Book!Next]_Cycles
  <2> SUFFICES ASSUME TypeOK, TypeOK', [Next]_vars PROVE Book!Next
    OBVIOUS
  <2>1. Cycles' \in [Uxids -> Book!Cycle]
    <3>1. \A u \in DOMAIN positions' : positions'[u].left \in Nat
      BY DEF TypeOK, PositionType
    <3> QED BY <3>1 DEF Cycles, Book!Cycle
  <2>2. ASSUME NEW u \in Uxids
        PROVE  \/ Cycles'[u] = Cycles[u]
               \/ Book!Enters(Cycles[u], Cycles'[u])
               \/ Book!Reduces(Cycles[u], Cycles'[u])
               \/ Book!Finishes(Cycles[u], Cycles'[u])
    <3> DEFINE At(held, cycles) ==
                 IF u \notin DOMAIN held THEN [state |-> "none", left |-> 0]
                 ELSE IF u \in DOMAIN cycles /\ held[u].left > 0
                 THEN [state |-> "open", left |-> held[u].left]
                 ELSE [state |-> "over", left |-> 0]
    <3>1. Cycles[u] = At(positions, book) /\ Cycles'[u] = At(positions', book')
      BY DEF Cycles
    <3>2. /\ u \in DOMAIN positions => positions[u].left \in Nat
          /\ u \in DOMAIN positions' => positions'[u].left \in Nat
      BY DEF TypeOK, PositionType
    <3>3. CASE Shrinks
      <4>1. /\ u \in DOMAIN positions' <=> u \in DOMAIN positions
            /\ u \in DOMAIN book' => u \in DOMAIN book
        BY <3>3 DEF Shrinks
      <4>2. CASE u \notin DOMAIN positions
        BY <3>1, <4>1, <4>2
      <4>3. CASE u \in DOMAIN positions
        <5>1. positions'[u].left <= positions[u].left
          BY <3>3, <4>3 DEF Shrinks
        <5>2. CASE ~(u \in DOMAIN book /\ positions[u].left > 0)
          <6>1. ~(u \in DOMAIN book' /\ positions'[u].left > 0)
            BY <3>2, <4>1, <4>3, <5>1, <5>2
          <6> QED BY <3>1, <4>1, <4>3, <5>2, <6>1
        <5>3. CASE u \in DOMAIN book /\ positions[u].left > 0
          <6>1. CASE u \in DOMAIN book' /\ positions'[u].left = positions[u].left
            BY <3>1, <4>1, <4>3, <5>3, <6>1
          <6>2. CASE /\ u \in DOMAIN book'
                     /\ positions'[u].left < positions[u].left /\ positions'[u].left > 0
            BY <3>1, <3>2, <4>1, <4>3, <5>3, <6>2 DEF Book!Reduces
          <6>3. CASE u \notin DOMAIN book' \/ positions'[u].left = 0
            BY <3>1, <3>2, <4>1, <4>3, <5>3, <6>3 DEF Book!Finishes
          <6> QED BY <3>2, <4>1, <4>3, <5>1, <6>1, <6>2, <6>3
        <5> QED BY <5>2, <5>3
      <4> QED BY <4>2, <4>3
    <3>4. CASE Grows
      <4>1. PICK x \in Uxids :
              /\ x \notin DOMAIN book /\ DOMAIN book' = DOMAIN book \cup {x}
              /\ DOMAIN positions' = DOMAIN positions \cup {x}
              /\ positions'[x].left > 0
              /\ \A v \in DOMAIN positions : v # x => positions'[v] = positions[v]
        BY <3>4 DEF Grows
      <4>2. CASE u = x
        <5>1. u \notin DOMAIN book /\ u \in DOMAIN book' /\ u \in DOMAIN positions'
          BY <4>1, <4>2
        <5>2. positions'[u].left > 0
          BY <4>1, <4>2
        <5> QED BY <3>1, <3>2, <5>1, <5>2 DEF Book!Enters
      <4>3. CASE u # x
        <5>1. /\ u \in DOMAIN positions' <=> u \in DOMAIN positions
              /\ u \in DOMAIN book' <=> u \in DOMAIN book
          BY <4>1, <4>3
        <5> QED BY <3>1, <4>1, <4>3, <5>1
      <4> QED BY <4>2, <4>3
    <3> QED BY <3>3, <3>4, StepTypes
  <2> QED BY <2>1, <2>2 DEF Book!Next
<1> QED BY <1>1, <1>2, ReplayTypeCorrect, PTL DEF Spec, ImplementsTradeBook, Book!Spec
-----------------------------------------------------------------------------
(* What a position can cost.                                               *)
(*                                                                         *)
(* A position is sound with the distance d of its first stop when every    *)
(* unit that has left it has cost d and the costs of the way in and out at *)
(* most, so that the whole of it loses no more than it was sized for and   *)
(* what it costs; the stop never moves further away.                       *)

Ungapped(p) == \A i \in DOMAIN p.legs : ~p.legs[i].gapped
HasTp1(p) == \E i \in DOMAIN p.legs : p.legs[i].reason = "TP1"

\* The levels of the bracket, and the price that was paid.
Levelled(p, d) ==
    /\ p.left <= p.quantity
    /\ p.quantity * d <= Budget * Allowed * Step
    /\ p.dir * (p.sl - p.at) + d >= 0
    /\ p.tp1 # NoLevel => p.dir * (p.tp1 - p.at) >= 0
    /\ p.dir * (p.tp2 - p.at) >= 0
    /\ p.entry = p.at + p.dir * HalfSpread

Cost(d) == d + 2 * HalfSpread
Covered(p, d) == Ungapped(p) => p.gross + Cost(d) * (p.quantity - p.left) >= 0

LEMMA CostType ==
    ASSUME NEW d \in Nat
    PROVE  Cost(d) \in Nat
BY ReplayAssumption DEF Cost

LEMMA PaidIsBeyond ==
    ASSUME NEW p \in PositionType, NEW d \in Nat, Levelled(p, d)
    PROVE  p.dir * (p.entry - p.at) >= 0
<1>1. /\ p.dir \in {1, -1} /\ p.at \in Int /\ HalfSpread \in Nat
      /\ p.entry = p.at + p.dir * HalfSpread
  BY ReplayAssumption DEF PositionType, Levelled
<1> QED BY <1>1

\* Once TP1 has filled, what is left has its stop at the price that was paid.
Guarded(p) ==
    /\ RunnerIsProtected(p)
    /\ MovesStop /\ HasTp1(p) /\ p.left > 0 => p.filled /\ p.sl = p.entry

Sound(p, d) == Levelled(p, d) /\ Covered(p, d) /\ Guarded(p)

LEMMA LossAdds ==
    ASSUME NEW g \in Int, NEW x \in Int, NEW d \in Nat, NEW k \in Int, NEW size \in Nat,
           g + d * k >= 0, x + d >= 0
    PROVE  g + x * size + d * (k + size) >= 0
<1>1. (x + d) * size >= 0
  <2>1. x + d \in Nat
    OBVIOUS
  <2> QED BY <2>1, ProductNat
<1>2. (x + d) * size = x * size + d * size
  OBVIOUS
<1>3. d * (k + size) = d * k + d * size
  OBVIOUS
<1>4. x * size \in Int /\ d * k \in Int /\ d * size \in Int
  OBVIOUS
<1> QED BY <1>1, <1>2, <1>3, <1>4

\* Appending a leg.
LEMMA Appended ==
    ASSUME NEW p \in PositionType, NEW leg \in Leg, NEW r \in PositionType,
           r.legs = Append(p.legs, leg)
    PROVE  /\ Ungapped(r) => Ungapped(p) /\ ~leg.gapped
           /\ HasTp1(r) => HasTp1(p) \/ leg.reason = "TP1"
           /\ r.at = p.at /\ r.dir = p.dir /\ RunnerIsProtected(p)
              /\ (MovesStop /\ HasTp1(p) /\ leg.bracket /\ leg.reason # "TP2" /\ ~leg.gapped
                    => p.dir * (leg.price - p.at) >= 0)
              => RunnerIsProtected(r)
<1> DEFINE n == Len(p.legs)
<1>1. n \in Nat /\ DOMAIN p.legs = 1..n /\ DOMAIN r.legs = 1..(n + 1)
  BY DEF PositionType
<1>2. r.legs[n + 1] = leg /\ \A i \in 1..n : r.legs[i] = p.legs[i]
  BY DEF PositionType
<1> HIDE DEF n
<1>3. \A i \in 1..n : i \in 1..(n + 1)
  BY <1>1
<1>4. n + 1 \in 1..(n + 1) /\ \A i \in 1..(n + 1) : i = n + 1 \/ i \in 1..n
  BY <1>1
<1>5. Ungapped(r) => Ungapped(p) /\ ~leg.gapped
  BY <1>1, <1>2, <1>3, <1>4 DEF Ungapped
<1>6. HasTp1(r) => HasTp1(p) \/ leg.reason = "TP1"
  BY <1>1, <1>2, <1>4 DEF HasTp1
<1>7. ASSUME r.at = p.at, r.dir = p.dir, RunnerIsProtected(p),
             MovesStop /\ HasTp1(p) /\ leg.bracket /\ leg.reason # "TP2" /\ ~leg.gapped
               => p.dir * (leg.price - p.at) >= 0,
             MovesStop, NEW i \in DOMAIN r.legs, NEW j \in DOMAIN r.legs,
             i < j, r.legs[i].reason = "TP1",
             r.legs[j].bracket, r.legs[j].reason # "TP2", ~r.legs[j].gapped
      PROVE  r.dir * (r.legs[j].price - r.at) >= 0
  <2>1. i \in 1..n
    BY <1>1, <1>4, <1>7
  <2>2. p.legs[i].reason = "TP1"
    BY <1>2, <1>7, <2>1
  <2>3. CASE j \in 1..n
    BY <1>1, <1>2, <1>7, <2>1, <2>2, <2>3 DEF RunnerIsProtected
  <2>4. CASE j = n + 1
    BY <1>1, <1>2, <1>7, <2>1, <2>2, <2>4 DEF HasTp1
  <2> QED BY <1>1, <1>4, <2>3, <2>4
<1> QED BY <1>5, <1>6, <1>7 DEF RunnerIsProtected

\* A leg at a price no worse than the first stop, and once TP1 has filled no worse
\* than the price the entry named, but for the costs.
Fair(p, d, leg) ==
    /\ leg.gapped \/ p.dir * (leg.price - p.entry) + Cost(d) >= 0
    /\ MovesStop /\ HasTp1(p) /\ leg.bracket /\ leg.reason # "TP2" /\ ~leg.gapped
         => p.dir * (leg.price - p.at) >= 0

\* The stop stays or moves to the price that was paid, which TP1 makes it do.
Moved(hit, r, reason) ==
    /\ Kept(hit, r) /\ r.left = hit.left /\ r.legs = hit.legs /\ r.gross = hit.gross
    /\ r.sl = hit.sl \/ r.sl = hit.entry
    /\ hit.filled => r.filled
    /\ hit.sl = hit.entry => r.sl = hit.entry
    /\ MovesStop /\ reason = "TP1" /\ r.left > 0 => r.filled /\ r.sl = hit.entry

\* A leg of this size has left p, and r is what stays.
Booked(p, r, size, leg) ==
    /\ Kept(p, r) /\ r.left = p.left - size /\ r.legs = Append(p.legs, leg)
    /\ r.gross = p.gross + p.dir * (leg.price - p.entry) * size
    /\ r.sl = p.sl \/ r.sl = p.entry
    /\ p.filled => r.filled
    /\ p.sl = p.entry => r.sl = p.entry
    /\ MovesStop /\ leg.reason = "TP1" /\ r.left > 0 => r.filled /\ r.sl = p.entry

\* A position stays sound when a leg at a fair price leaves it and its stop stays or
\* moves to the price that was paid.
LEMMA SoundAfter ==
    ASSUME NEW p \in PositionType, NEW r \in PositionType, NEW d \in Nat, Sound(p, d),
           NEW size \in 0..p.left, NEW leg \in Leg, Fair(p, d, leg), Booked(p, r, size, leg)
    PROVE  Sound(r, d)
<1>0. /\ p.left \in Nat /\ p.quantity \in Nat /\ p.at \in Int /\ p.sl \in Int
      /\ p.entry \in Int /\ p.gross \in Int /\ p.dir \in {1, -1}
      /\ leg.price \in Int /\ size \in Nat
  BY DEF PositionType, Leg
<1>a. /\ Kept(p, r) /\ r.left = p.left - size /\ r.legs = Append(p.legs, leg)
      /\ r.gross = p.gross + p.dir * (leg.price - p.entry) * size
      /\ r.sl = p.sl \/ r.sl = p.entry
      /\ p.filled => r.filled
      /\ p.sl = p.entry => r.sl = p.entry
      /\ MovesStop /\ leg.reason = "TP1" /\ r.left > 0 => r.filled /\ r.sl = p.entry
  BY DEF Booked
<1>b. /\ leg.gapped \/ p.dir * (leg.price - p.entry) + Cost(d) >= 0
      /\ MovesStop /\ HasTp1(p) /\ leg.bracket /\ leg.reason # "TP2" /\ ~leg.gapped
           => p.dir * (leg.price - p.at) >= 0
  BY DEF Fair
<1>1. Levelled(r, d)
  <2>1. Levelled(p, d)
    BY DEF Sound
  <2>2. r.left <= r.quantity
    BY <1>0, <1>a, <2>1 DEF Levelled, Kept
  <2>3. p.dir * (p.entry - p.at) + d >= 0
    <3>1. p.dir * (p.entry - p.at) >= 0
      BY <2>1, PaidIsBeyond
    <3>2. p.entry - p.at \in Int
      BY <1>0
    <3> QED BY <1>0, <3>1, <3>2
  <2>4. r.dir * (r.sl - r.at) + d >= 0
    <3>1. r.dir = p.dir /\ r.at = p.at
      BY <1>a DEF Kept
    <3>2. CASE r.sl = p.sl
      BY <2>1, <3>1, <3>2 DEF Levelled
    <3>3. CASE r.sl = p.entry
      BY <2>3, <3>1, <3>3
    <3> QED BY <1>a, <3>2, <3>3
  <2> QED BY <1>a, <2>1, <2>2, <2>4 DEF Levelled, Kept
<1>2. Covered(r, d)
  <2>1. SUFFICES ASSUME Ungapped(r) PROVE r.gross + Cost(d) * (r.quantity - r.left) >= 0
    BY DEF Covered
  <2>2. Ungapped(p) /\ ~leg.gapped
    BY <1>a, <2>1, Appended
  <2> DEFINE x == p.dir * (leg.price - p.entry)
             k == p.quantity - p.left
             e == Cost(d)
  <2>3. x \in Int /\ k \in Int /\ p.gross \in Int /\ size \in Nat
    <3>1. leg.price - p.entry \in Int /\ k \in Int
      BY <1>0
    <3>2. x \in Int
      BY <1>0, <3>1
    <3> QED BY <1>0, <3>1, <3>2
  <2>4. r.quantity - r.left = k + size
    BY <1>0, <1>a DEF Kept
  <2>5. p.gross + e * k >= 0 /\ x + e >= 0
    BY <1>b, <2>2 DEF Sound, Covered
  <2>6. r.gross = p.gross + x * size
    BY <1>a
  <2>7. e \in Nat
    BY CostType
  <2> HIDE DEF x, k, e
  <2>8. p.gross + x * size + e * (k + size) >= 0
    BY <2>3, <2>5, <2>7, LossAdds
  <2> QED BY <2>4, <2>6, <2>8 DEF e
<1>3. Guarded(r)
  <2>1. RunnerIsProtected(r)
    BY <1>a, <1>b, Appended DEF Sound, Guarded, Kept
  <2>2. MovesStop /\ HasTp1(r) /\ r.left > 0 => r.filled /\ r.sl = r.entry
    <3>1. HasTp1(r) => HasTp1(p) \/ leg.reason = "TP1"
      BY <1>a, Appended
    <3>2. r.left > 0 => p.left > 0
      BY <1>0, <1>a
    <3>3. MovesStop /\ HasTp1(p) /\ p.left > 0 => p.filled /\ p.sl = p.entry
      BY DEF Sound, Guarded
    <3> QED BY <1>a, <3>1, <3>2, <3>3 DEF Kept
  <2> QED BY <2>1, <2>2 DEF Guarded
<1> QED BY <1>1, <1>2, <1>3 DEF Sound

\* A level of the bracket, as FilledAt books it.
LEMMA FilledAtKeeps ==
    ASSUME NEW p \in PositionType, NEW level \in Int, NEW size \in 0..p.left,
           NEW b \in BarType, NEW isStop \in BOOLEAN, NEW reason \in Reasons
    PROVE  /\ FilledAt(p, level, size, b, isStop, reason) \in PositionType
           /\ FilledAt(p, level, size, b, isStop, reason).left = p.left - size
           /\ FilledAt(p, level, size, b, isStop, reason).sl = p.sl
           /\ FilledAt(p, level, size, b, isStop, reason).filled = p.filled
           /\ Kept(p, FilledAt(p, level, size, b, isStop, reason))
<1> DEFINE gapped == GappedThrough(level, p.dir, b, isStop)
           price == ExitFill(IF gapped THEN b.open ELSE level, p.dir)
           leg == [reason |-> reason, price |-> price, bracket |-> TRUE, gapped |-> gapped]
<1>1. gapped \in BOOLEAN
  BY GappedType DEF PositionType
<1>2. price \in Int
  <2>1. (IF gapped THEN b.open ELSE level) \in Int
    BY DEF BarType
  <2> HIDE DEF gapped
  <2> QED BY <2>1, Exits
<1>3. FilledAt(p, level, size, b, isStop, reason) = WithLeg(p, size, price, leg)
  BY DEF FilledAt
<1> HIDE DEF gapped, price
<1>4. leg \in Leg
  BY <1>1, <1>2 DEF Leg
<1> HIDE DEF leg
<1> QED BY <1>2, <1>3, <1>4, LegType

\* A bracket's level that is hit at a price no worse than the first stop.
LEMMA FilledAtSound ==
    ASSUME NEW p \in PositionType, NEW d \in Nat, Sound(p, d), NEW level \in Int,
           NEW size \in 0..p.left, NEW b \in BarType, NEW isStop \in BOOLEAN,
           NEW reason \in Reasons, p.dir * (level - p.at) + d >= 0,
           MovesStop /\ HasTp1(p) /\ reason # "TP2" => p.dir * (level - p.entry) >= 0,
           NEW hit, hit = FilledAt(p, level, size, b, isStop, reason),
           NEW r \in PositionType, Moved(hit, r, reason)
    PROVE  Sound(r, d)
<1> DEFINE gapped == GappedThrough(level, p.dir, b, isStop)
           price == ExitFill(IF gapped THEN b.open ELSE level, p.dir)
           leg == [reason |-> reason, price |-> price, bracket |-> TRUE, gapped |-> gapped]
<1>1. gapped \in BOOLEAN
  BY GappedType DEF PositionType
<1>2. /\ price \in Int
      /\ ~gapped => p.dir * (price - p.entry) + Cost(d) >= 0
      /\ ~gapped /\ MovesStop /\ HasTp1(p) /\ reason # "TP2" => p.dir * (price - p.at) >= 0
  <2> DEFINE raw == IF gapped THEN b.open ELSE level
  <2>1. raw \in Int /\ (~gapped => raw = level)
    BY DEF BarType
  <2> HIDE DEF gapped
  <2>2. price = ExitFill(raw, p.dir)
    OBVIOUS
  <2> HIDE DEF raw, price
  <2>3. /\ price \in Int
        /\ p.dir * (price - p.entry) = p.dir * (raw - p.at) - 2 * HalfSpread
        /\ p.dir * (price - p.at) = p.dir * (raw - p.entry)
    BY <2>1, <2>2, Exits DEF Sound, Levelled
  <2>4. /\ p.dir \in {1, -1} /\ p.at \in Int /\ HalfSpread \in Nat
    BY ReplayAssumption DEF PositionType
  <2>5. p.dir * (raw - p.at) \in Int
    BY <2>1, <2>4
  <2>6. ~gapped => p.dir * (price - p.entry) + Cost(d) >= 0
    <3> SUFFICES ASSUME ~gapped PROVE p.dir * (price - p.entry) + Cost(d) >= 0
      OBVIOUS
    <3>1. p.dir * (raw - p.at) + d >= 0
      BY <2>1
    <3> DEFINE y == p.dir * (raw - p.at)
               z == p.dir * (price - p.entry)
    <3>2. z = y - 2 * HalfSpread /\ y \in Int /\ y + d >= 0
      BY <2>3, <2>5, <3>1
    <3> HIDE DEF y, z
    <3>3. z + (d + 2 * HalfSpread) >= 0
      BY <2>4, <3>2
    <3> QED BY <3>3 DEF Cost, z
  <2> QED BY <2>1, <2>3, <2>6
<1>3. hit = WithLeg(p, size, price, leg)
  BY DEF FilledAt
<1> HIDE DEF gapped, price
<1>4. /\ leg \in Leg /\ leg.price = price /\ leg.gapped = gapped
      /\ leg.reason = reason /\ leg.bracket = TRUE
  BY <1>1, <1>2 DEF Leg
<1> HIDE DEF leg
<1>5. /\ hit.left = p.left - size /\ hit.legs = Append(p.legs, leg)
      /\ hit.gross = p.gross + p.dir * (price - p.entry) * size
      /\ hit.sl = p.sl /\ hit.filled = p.filled /\ Kept(p, hit)
  BY <1>2, <1>3, <1>4, LegType
<1>6. Kept(p, r) /\ hit.entry = p.entry
  BY <1>5 DEF Kept, Moved
<1>7. Fair(p, d, leg)
  BY <1>2, <1>4 DEF Fair
<1>8. Booked(p, r, size, leg)
  BY <1>4, <1>5, <1>6 DEF Booked, Moved
<1> QED BY <1>4, <1>7, <1>8, SoundAfter

\* A close of the strategy at a price no worse than the first stop.
LEMMA ClosedBySound ==
    ASSUME bar.close \in Int, NEW p \in PositionType, NEW d \in Nat, Sound(p, d),
           p.left > 0, p.dir * (bar.close - p.at) + d >= 0,
           NEW size \in Nat \cup {NoSize}, NEW reason \in Reasons,
           NEW hit, hit = ClosedAt(p, bar.close, size, reason),
           NEW r \in PositionType, Moved(hit, r, reason)
    PROVE  Sound(r, d)
<1> DEFINE taken == IF size = NoSize THEN p.left ELSE Lesser(size, p.left)
           x == ExitFill(bar.close, p.dir)
           leg == [reason |-> reason, price |-> x, bracket |-> FALSE, gapped |-> FALSE]
<1>1. taken \in 0..p.left
  <2>1. p.left \in Nat /\ p.left \in 0..p.left
    BY DEF PositionType
  <2> QED BY <2>1 DEF Lesser
<1>2. CASE taken # 0
  <2>1. hit = WithLeg(p, taken, x, leg)
    BY <1>2 DEF ClosedAt
  <2>a. /\ x \in Int
        /\ p.dir * (x - p.entry) = p.dir * (bar.close - p.at) - 2 * HalfSpread
    BY Exits DEF Sound, Levelled
  <2> HIDE DEF taken, x
  <2>2. /\ leg \in Leg /\ leg.price = x /\ leg.gapped = FALSE
        /\ leg.reason = reason /\ leg.bracket = FALSE
    BY <2>a DEF Leg
  <2> HIDE DEF leg
  <2>3. /\ hit.left = p.left - taken /\ hit.legs = Append(p.legs, leg)
        /\ hit.gross = p.gross + p.dir * (x - p.entry) * taken
        /\ hit.sl = p.sl /\ hit.filled = p.filled /\ Kept(p, hit)
    BY <1>1, <2>1, <2>2, <2>a, LegType
  <2>4. Kept(p, r) /\ hit.entry = p.entry
    BY <2>3 DEF Kept, Moved
  <2>5. Booked(p, r, taken, leg)
    BY <2>2, <2>3, <2>4 DEF Booked, Moved
  <2>6. Fair(p, d, leg)
    <3>1. /\ p.dir \in {1, -1} /\ p.at \in Int /\ HalfSpread \in Nat
      BY ReplayAssumption DEF PositionType
    <3>2. p.dir * (bar.close - p.at) \in Int
      BY <3>1
    <3> DEFINE y == p.dir * (bar.close - p.at)
               z == p.dir * (x - p.entry)
    <3>3. z = y - 2 * HalfSpread /\ y \in Int /\ y + d >= 0
      BY <2>a, <3>2
    <3> HIDE DEF y, z
    <3>4. z + (d + 2 * HalfSpread) >= 0
      BY <3>1, <3>3
    <3>5. p.dir * (x - p.entry) + Cost(d) >= 0
      BY <3>4 DEF Cost, z
    <3> QED BY <2>2, <3>5 DEF Fair
  <2> QED BY <1>1, <2>2, <2>5, <2>6, SoundAfter
<1>3. CASE taken = 0
  <2>1. hit = p
    BY <1>3 DEF ClosedAt
  <2>0. /\ Kept(p, r) /\ r.left = p.left /\ r.legs = p.legs /\ r.gross = p.gross
        /\ r.sl = p.sl \/ r.sl = p.entry
        /\ p.filled => r.filled
        /\ p.sl = p.entry => r.sl = p.entry
    BY <2>1 DEF Moved
  <2>2. Levelled(r, d)
    <3>1. Levelled(p, d) /\ r.dir = p.dir /\ r.at = p.at
      BY <2>0 DEF Sound, Kept
    <3>2. /\ p.entry \in Int /\ p.at \in Int /\ p.dir \in {1, -1}
      BY DEF PositionType
    <3>3. r.dir * (r.sl - r.at) + d >= 0
      <4>1. CASE r.sl = p.sl
        BY <3>1, <4>1 DEF Levelled
      <4>2. CASE r.sl = p.entry
        <5>1. p.dir * (p.entry - p.at) >= 0
          BY <3>1, PaidIsBeyond
        <5>2. p.entry - p.at \in Int
          BY <3>2
        <5> QED BY <3>1, <3>2, <4>2, <5>1, <5>2
      <4> QED BY <2>0, <4>1, <4>2
    <3> QED BY <2>0, <3>1, <3>3 DEF Levelled, Kept
  <2>3. Covered(r, d)
    BY <2>0 DEF Sound, Covered, Ungapped, Kept
  <2>4. RunnerIsProtected(r)
    <3>1. RunnerIsProtected(p) /\ r.legs = p.legs /\ r.dir = p.dir /\ r.at = p.at
      BY <2>0 DEF Sound, Guarded, Kept
    <3> QED BY <3>1 DEF RunnerIsProtected
  <2>5. Guarded(r)
    <3>1. MovesStop /\ HasTp1(p) /\ p.left > 0 => p.filled /\ p.sl = p.entry
      BY DEF Sound, Guarded
    <3>2. HasTp1(r) <=> HasTp1(p)
      BY <2>0 DEF HasTp1
    <3> QED BY <2>0, <2>4, <3>1, <3>2 DEF Guarded, Kept
  <2> QED BY <2>2, <2>3, <2>5 DEF Sound
<1> QED BY <1>2, <1>3

LEMMA ClosedAtForm ==
    ASSUME NEW p \in PositionType, NEW price \in Int, NEW size \in Nat \cup {NoSize},
           NEW reason \in Reasons, NEW hit, hit = ClosedAt(p, price, size, reason)
    PROVE  hit = p \/ \E t \in 0..p.left, x \in Int, leg \in Leg : hit = WithLeg(p, t, x, leg)
<1> DEFINE taken == IF size = NoSize THEN p.left ELSE Lesser(size, p.left)
           x == ExitFill(price, p.dir)
           leg == [reason |-> reason, price |-> x, bracket |-> FALSE, gapped |-> FALSE]
<1>1. taken \in 0..p.left
  <2>1. p.left \in Nat /\ p.left \in 0..p.left
    BY DEF PositionType
  <2> QED BY <2>1 DEF Lesser
<1>0. x \in Int
  BY Exits
<1>3. hit = p \/ hit = WithLeg(p, taken, x, leg)
  BY DEF ClosedAt
<1> HIDE DEF x
<1>2. leg \in Leg
  BY <1>0 DEF Leg
<1> HIDE DEF taken, leg
<1> QED BY <1>0, <1>1, <1>2, <1>3

\* The first target is no worse than the entry.
LEMMA FirstTargetSound ==
    ASSUME NEW p \in PositionType, NEW d \in Nat, Sound(p, d), p.left > 0, NEW b \in BarType,
           NEW r, r = FirstTarget(p, b)
    PROVE  r \in PositionType /\ Sound(r, d) /\ Kept(p, r)
<1>1. CASE ~p.filled /\ Touched(p.tp1, p.dir, b, FALSE)
  <2> DEFINE hit == FilledAt(p, p.tp1, Half(p), b, FALSE, "TP1")
             sl == IF MovesStop THEN p.entry ELSE hit.sl
  <2>1. p.tp1 \in Int /\ p.left \in Nat /\ p.at \in Int /\ p.dir \in {1, -1}
    BY <1>1 DEF Touched, PositionType
  <2>2. Half(p) \in 0..p.left
    BY HalfType DEF PositionType
  <2>3. "TP1" \in Reasons
    BY DEF Reasons
  <2>4. /\ hit \in PositionType
        /\ hit.sl = p.sl /\ hit.filled = p.filled /\ Kept(p, hit)
    BY <2>1, <2>2, <2>3, FilledAtKeeps
  <2>5. r = [hit EXCEPT !.filled = TRUE, !.sl = sl]
    BY <1>1, <2>4 DEF FirstTarget, PositionType
  <2>6. p.dir * (p.tp1 - p.at) + d >= 0
    <3>1. p.dir * (p.tp1 - p.at) >= 0
      BY <2>1, ReplayAssumption DEF Sound, Levelled
    <3>2. p.tp1 - p.at \in Int
      BY <2>1
    <3> QED BY <2>1, <3>1, <3>2
  <2>7. ~(MovesStop /\ HasTp1(p))
    BY <1>1 DEF Sound, Guarded
  <2>8. sl \in Int /\ (sl = hit.sl \/ sl = hit.entry) /\ (MovesStop => sl = hit.entry)
        /\ (hit.sl = hit.entry => sl = hit.entry)
    BY <2>4 DEF PositionType, Kept
  <2> HIDE DEF sl
  <2>9. hit = FilledAt(p, p.tp1, Half(p), b, FALSE, "TP1")
    OBVIOUS
  <2> HIDE DEF hit
  <2>10. /\ r \in PositionType /\ r.left = hit.left /\ r.legs = hit.legs
         /\ r.gross = hit.gross /\ r.sl = sl /\ r.filled = TRUE /\ Kept(hit, r)
    BY <2>4, <2>5, <2>8 DEF PositionType, Kept
  <2>11. Moved(hit, r, "TP1")
    BY <2>8, <2>10 DEF Moved
  <2>12. Sound(r, d)
    BY <2>1, <2>2, <2>3, <2>6, <2>7, <2>9, <2>10, <2>11, FilledAtSound
  <2> QED BY <2>4, <2>10, <2>12 DEF Kept
<1>2. CASE ~(~p.filled /\ Touched(p.tp1, p.dir, b, FALSE))
  BY <1>2 DEF FirstTarget, Kept
<1> QED BY <1>1, <1>2

\* A bar leaves a position sound, and what it leaves of one closes within the stop.
LEMMA WalkedSound ==
    ASSUME NEW p \in PositionType, NEW d \in Nat, Sound(p, d), NEW b \in BarType,
           b.low <= b.close, b.close <= b.high, NEW r, r = Walked(p, b)
    PROVE  /\ r \in PositionType /\ Sound(r, d) /\ Kept(p, r)
           /\ r.left > 0 => p.dir * (b.close - p.at) + d >= 0
<1>0. /\ p.left \in Nat /\ p.sl \in Int /\ p.at \in Int /\ p.dir \in {1, -1}
      /\ p.entry \in Int /\ b.close \in Int /\ b.low \in Int /\ b.high \in Int
  BY DEF PositionType, BarType
<1>1. CASE p.left = 0
  BY <1>1 DEF Walked, Kept
<1>2. CASE p.left > 0 /\ Touched(p.sl, p.dir, b, TRUE)
  <2> DEFINE reason == IF p.filled /\ MovesStop THEN "R_SL" ELSE "SL"
  <2>1. reason \in Reasons /\ reason # "TP1" /\ reason # "TP2"
    BY DEF Reasons, Terminal
  <2>2. r = FilledAt(p, p.sl, p.left, b, TRUE, reason)
    <3>1. p.left # 0
      BY <1>0, <1>2
    <3> QED BY <1>2, <3>1 DEF Walked
  <2> HIDE DEF reason
  <2>3. p.left \in 0..p.left
    BY <1>0
  <2>4. r \in PositionType /\ Kept(p, r) /\ r.left = p.left - p.left
    <3> DEFINE q == FilledAt(p, p.sl, p.left, b, TRUE, reason)
    <3>1. q \in PositionType /\ Kept(p, q) /\ q.left = p.left - p.left
      BY <1>0, <2>1, <2>3, FilledAtKeeps
    <3> QED BY <2>2, <3>1
  <2>5. p.dir * (p.sl - p.at) + d >= 0
    BY DEF Sound, Levelled
  <2>6. MovesStop /\ HasTp1(p) => p.dir * (p.sl - p.entry) >= 0
    <3>1. MovesStop /\ HasTp1(p) => p.sl = p.entry
      BY <1>2 DEF Sound, Guarded
    <3>2. p.entry - p.entry = 0 /\ p.dir * 0 = 0
      BY <1>0
    <3> QED BY <3>1, <3>2
  <2>7. Moved(r, r, reason)
    BY <2>1 DEF Moved, Kept
  <2>8. Sound(r, d)
    BY <1>0, <2>1, <2>2, <2>3, <2>4, <2>5, <2>6, <2>7, FilledAtSound
  <2> QED BY <1>0, <2>4, <2>8
<1>3. CASE p.left > 0 /\ ~Touched(p.sl, p.dir, b, TRUE)
  <2>1. PICK q : q = FirstTarget(p, b)
    OBVIOUS
  <2>2. q \in PositionType /\ Sound(q, d) /\ Kept(p, q)
    BY <1>3, <2>1, FirstTargetSound
  <2>3. r = SecondTarget(q, b)
    BY <1>3, <2>1 DEF Walked
  <2>4. r \in PositionType /\ Sound(r, d) /\ Kept(q, r)
    <3>1. CASE q.left > 0 /\ Touched(q.tp2, q.dir, b, FALSE)
      <4>1. r = FilledAt(q, q.tp2, q.left, b, FALSE, "TP2")
        BY <2>3, <3>1 DEF SecondTarget
      <4>2. /\ q.tp2 \in Int /\ q.left \in Nat /\ q.left \in 0..q.left /\ q.at \in Int
            /\ q.dir \in {1, -1}
        BY <2>2 DEF PositionType
      <4>3. "TP2" \in Reasons
        BY DEF Reasons, Terminal
      <4>4. r \in PositionType /\ Kept(q, r)
        <5> DEFINE w == FilledAt(q, q.tp2, q.left, b, FALSE, "TP2")
        <5>1. w \in PositionType /\ Kept(q, w)
          BY <2>2, <4>2, <4>3, FilledAtKeeps
        <5> QED BY <4>1, <5>1
      <4>5. q.dir * (q.tp2 - q.at) + d >= 0
        <5>1. q.dir * (q.tp2 - q.at) >= 0
          BY <2>2 DEF Sound, Levelled
        <5>2. q.tp2 - q.at \in Int
          BY <4>2
        <5> QED BY <4>2, <5>1, <5>2
      <4>6. Moved(r, r, "TP2")
        BY DEF Moved, Kept
      <4>7. Sound(r, d)
        BY <2>2, <4>1, <4>2, <4>3, <4>4, <4>5, <4>6, FilledAtSound
      <4> QED BY <4>4, <4>7
    <3>2. CASE ~(q.left > 0 /\ Touched(q.tp2, q.dir, b, FALSE))
      BY <2>2, <2>3, <3>2 DEF SecondTarget, Kept
    <3> QED BY <3>1, <3>2
  <2>5. p.dir * (b.close - p.at) + d >= 0
    <3>1. p.dir * (p.sl - p.at) + d >= 0
      BY DEF Sound, Levelled
    <3>2. p.sl # NoLevel
      BY <1>0, ReplayAssumption
    <3>3. CASE p.dir = 1
      <4>1. b.low > p.sl
        BY <1>0, <1>3, <3>2, <3>3 DEF Touched
      <4> QED BY <1>0, <3>1, <3>3, <4>1
    <3>4. CASE p.dir = -1
      <4>1. b.high < p.sl
        BY <1>0, <1>3, <3>2, <3>4 DEF Touched
      <4> QED BY <1>0, <3>1, <3>4, <4>1
    <3> QED BY <1>0, <3>3, <3>4
  <2> QED BY <2>2, <2>4, <2>5 DEF Kept
<1>4. p.left = 0 \/ p.left > 0
  BY <1>0
<1> QED BY <1>1, <1>2, <1>3, <1>4

\* While a position is open the price has not gone beyond its first stop.
Within(p, d, c) == p.left > 0 => p.dir * (c - p.at) + d >= 0

\* A position that is entered is sound with the distance of its stop: what is bought
\* at it is what the budget of the risk allows.
LEMMA EnteredSound ==
    ASSUME NEW p \in PositionType, NEW stop \in Int, NEW single \in BOOLEAN,
           NEW requested \in Risks \cup {NoRisk}, DynamicRisk => MaxRisk # 0,
           NEW levels, levels = Bracketed(p.dir, p.at, stop, single),
           p.quantity = Sized(p.at, levels.sl, RiskFor(requested)),
           p.left = p.quantity, p.sl = levels.sl, p.tp1 = levels.tp1, p.tp2 = levels.tp2,
           p.entry = p.at + p.dir * HalfSpread, p.gross = 0, p.legs = << >>
    PROVE  Sound(p, Distance(p.at, p.sl))
<1> DEFINE d == Distance(p.at, p.sl)
           risk == RiskFor(requested)
           w == Distance(p.at, p.at - stop)
<1>1. /\ p.at \in Int /\ p.sl \in Int /\ p.dir \in {1, -1} /\ p.quantity \in Nat
      /\ p.entry \in Int
  BY DEF PositionType
<1>2. d \in Nat /\ p.dir * (p.sl - p.at) >= -d
  BY <1>1, Distances
<1>3. w \in Nat
  <2>1. p.at - stop \in Int
    BY <1>1
  <2> QED BY <1>1, <2>1, Distances
<1>4. risk \in Nat /\ risk <= Allowed
  BY RiskIsBounded
<1>5. p.quantity * d <= Budget * risk * Step
  <2> HIDE DEF risk
  <2>1. p.quantity = Sized(p.at, p.sl, risk)
    BY DEF risk
  <2> QED BY <1>1, <1>4, <2>1, SizeIsBounded
<1>6. Budget * risk * Step <= Budget * Allowed * Step
  <2>1. Allowed \in Nat /\ Budget \in Nat /\ Step \in Nat
    BY SizingAssumption DEF Allowed
  <2> HIDE DEF risk
  <2>2. risk * Budget <= Allowed * Budget
    BY <1>4, <2>1, ProductMonotone
  <2>3. risk * Budget = Budget * risk /\ Allowed * Budget = Budget * Allowed
        /\ Budget * risk \in Int /\ Budget * Allowed \in Int
    BY <1>4, <2>1
  <2> QED BY <2>1, <2>2, <2>3, ProductMonotone
<1>7. p.quantity * d <= Budget * Allowed * Step
  <2>1. Allowed \in Nat /\ Budget \in Nat /\ Step \in Nat
    BY SizingAssumption DEF Allowed
  <2>2. /\ p.quantity * d \in Int /\ Budget * risk * Step \in Int
        /\ Budget * Allowed * Step \in Int
    <3> HIDE DEF d, risk
    <3>1. p.quantity * d \in Int
      BY <1>1, <1>2, ProductNat
    <3>2. Budget * risk \in Nat /\ Budget * Allowed \in Nat
      BY <1>4, <2>1, ProductNat
    <3> QED BY <2>1, <3>1, <3>2, ProductNat
  <2> HIDE DEF d, risk
  <2> QED BY <1>5, <1>6, <2>2
<1>8. p.dir * (p.sl - p.at) + d >= 0
  <2> HIDE DEF d
  <2> QED BY <1>1, <1>2
<1>9. p.tp1 # NoLevel => p.dir * (p.tp1 - p.at) >= 0
  <2>1. p.tp1 = IF single THEN NoLevel ELSE p.at + p.dir * w
    BY DEF Bracketed
  <2> HIDE DEF w
  <2> QED BY <1>1, <1>3, <2>1
<1>10. p.dir * (p.tp2 - p.at) >= 0
  <2>1. p.tp2 = p.at + p.dir * 2 * w
    BY DEF Bracketed
  <2> HIDE DEF w
  <2> QED BY <1>1, <1>3, <2>1
<1>11. p.entry = p.at + p.dir * HalfSpread
  OBVIOUS
<1>12. p.left <= p.quantity
  BY <1>1
<1>13. Levelled(p, d)
  <2> HIDE DEF d
  <2> QED BY <1>7, <1>8, <1>9, <1>10, <1>11, <1>12 DEF Levelled
<1>14. Covered(p, d)
  <2> HIDE DEF d
  <2>1. Cost(d) \in Nat
    BY <1>2, CostType
  <2>2. p.quantity - p.left = 0 /\ Cost(d) * 0 = 0
    BY <1>1, <2>1
  <2> QED BY <1>1, <2>2 DEF Covered
<1>15. Guarded(p)
  BY DEF Guarded, RunnerIsProtected, HasTp1
<1> QED BY <1>13, <1>14, <1>15 DEF Sound

\* A close that takes everything: the weekend's, or the end's.
LEMMA FlatSound ==
    ASSUME bar.close \in Int, NEW p \in PositionType, NEW d \in Nat, Sound(p, d),
           Within(p, d, bar.close), NEW reason \in Reasons, reason # "TP1",
           NEW r, r = ClosedAt(p, bar.close, NoSize, reason)
    PROVE  r.left = 0 /\ Sound(r, d)
<1>1. p.left \in Nat
  BY DEF PositionType
<1>2. ClosedAt(p, bar.close, NoSize, reason) \in PositionType
      /\ ClosedAt(p, bar.close, NoSize, reason).left = 0
  BY ClosedAtType
<1>3. CASE p.left = 0
  BY <1>2, <1>3 DEF ClosedAt
<1>4. CASE p.left > 0
  <2>1. Moved(r, r, reason)
    BY DEF Moved, Kept
  <2>2. p.dir * (bar.close - p.at) + d >= 0
    BY <1>4 DEF Within
  <2>3. r \in PositionType
    BY <1>2
  <2>4. NoSize \in Nat \cup {NoSize}
    OBVIOUS
  <2>5. Sound(r, d)
    BY <1>4, <2>1, <2>2, <2>3, <2>4, ClosedBySound
  <2> QED BY <1>2, <2>5
<1> QED BY <1>1, <1>3, <1>4

\* A close of the strategy.
LEMMA StrategyCloseSound ==
    ASSUME bar.close \in Int, NEW p \in PositionType, NEW d \in Nat, Sound(p, d),
           Within(p, d, bar.close), NEW q \in Nat \cup {NoSize}, NEW action \in Closes,
           NEW r, r = ClosedBy(p, q, action)
    PROVE  Sound(r, d) /\ Within(r, d, bar.close)
<1>1. p.left \in Nat
  BY DEF PositionType
<1>2. CASE p.left = 0
  BY <1>2 DEF ClosedBy
<1>3. CASE p.left > 0
  <2>1. action \in Reasons
    BY DEF Reasons, Closes
  <2>2. PICK hit : hit = ClosedAt(p, bar.close, q, action)
    OBVIOUS
  <2>3. hit \in PositionType
    BY <2>1, <2>2, ClosedAtType
  <2>4. r = AfterTp1(hit, action) /\ r \in PositionType /\ r.left = hit.left
    <3>1. p.left # 0
      BY <1>1, <1>3
    <3>2. r = AfterTp1(hit, action)
      BY <2>2, <3>1 DEF ClosedBy
    <3> QED BY <2>3, <3>2, AfterTp1Type
  <2>5. Moved(hit, r, action)
    BY <2>3, <2>4 DEF AfterTp1, Moved, Kept, PositionType
  <2>6. p.dir * (bar.close - p.at) + d >= 0
    BY <1>3 DEF Within
  <2>7. Sound(r, d)
    BY <1>3, <2>1, <2>2, <2>4, <2>5, <2>6, ClosedBySound
  <2>8. r.dir = p.dir /\ r.at = p.at
    <3>1. hit.dir = p.dir /\ hit.at = p.at
      <4>1. \/ hit = p
            \/ \E t \in 0..p.left, x \in Int, leg \in Leg : hit = WithLeg(p, t, x, leg)
        BY <2>1, <2>2, ClosedAtForm
      <4>2. ASSUME NEW t \in 0..p.left, NEW x \in Int, NEW leg \in Leg,
                   hit = WithLeg(p, t, x, leg)
            PROVE  hit.dir = p.dir /\ hit.at = p.at
        BY <4>2, LegType DEF Kept
      <4> QED BY <4>1, <4>2
    <3> QED BY <2>5, <3>1 DEF Moved, Kept
  <2> QED BY <2>6, <2>7, <2>8 DEF Within
<1> QED BY <1>1, <1>2, <1>3

\* Every position is sound with the distance of some first stop, also one whose id
\* stands for another by now.
Standing ==
    \A u \in DOMAIN positions :
        \E d \in Nat : Sound(positions[u], d) /\ Within(positions[u], d, bar.close)
FormerStand == \A i \in DOMAIN former : \E d \in Nat : Sound(former[i].was, d)

LEMMA SoundBounds ==
    ASSUME NEW p \in PositionType, NEW d \in Nat, Sound(p, d)
    PROVE  LossWithinBudget(p) /\ RunnerIsProtected(p)
<1>1. RunnerIsProtected(p)
  BY DEF Sound, Guarded
<1>2. ASSUME Ungapped(p) PROVE p.gross >= -(Budget * Allowed * Step) - RoundTrips(p)
  <2> DEFINE w == Budget * Allowed * Step
             x == p.quantity * d
             y == d * p.left
             k == p.quantity - p.left
             z == 2 * HalfSpread * k
  <2>1. /\ p.gross + Cost(d) * k >= 0 /\ x <= w
    BY <1>2 DEF Sound, Covered, Levelled
  <2>2. p.quantity \in Nat /\ p.left \in Nat /\ p.gross \in Int /\ HalfSpread \in Nat /\ k \in Int
    BY ReplayAssumption DEF PositionType
  <2>3. Cost(d) * k = x - y + z /\ z \in Int
    <3>1. Cost(d) * k = d * k + z /\ z \in Int
      <4> HIDE DEF k
      <4> QED BY <2>2 DEF Cost
    <3>2. d * k = x - y
      BY <2>2
    <3> HIDE DEF k, x, y, z
    <3> QED BY <3>1, <3>2
  <2>4. y \in Nat /\ x \in Nat
    BY <2>2, ProductNat
  <2>5. w \in Int
    <3>1. Allowed \in Nat /\ Budget \in Nat /\ Step \in Nat
      BY SizingAssumption DEF Allowed
    <3>2. Budget * Allowed \in Nat
      BY <3>1, ProductNat
    <3> QED BY <3>1, <3>2, ProductNat
  <2>6. RoundTrips(p) = z
    BY DEF RoundTrips
  <2>7. p.gross >= -w - z
    <3> HIDE DEF x, y, w, z, k
    <3>1. p.gross + (x - y + z) >= 0
      BY <2>1, <2>3
    <3> QED BY <2>1, <2>2, <2>3, <2>4, <2>5, <3>1
  <2> QED BY <2>6, <2>7
<1> QED BY <1>1, <1>2 DEF LossWithinBudget, Ungapped

LEMMA StandingBounds ==
    ASSUME TypeOK, Standing, FormerStand, NEW p \in AllPositions
    PROVE  LossWithinBudget(p) /\ RunnerIsProtected(p)
<1>1. CASE \E u \in DOMAIN positions : p = positions[u]
  <2>1. PICK u \in DOMAIN positions : p = positions[u]
    BY <1>1
  <2>2. p \in PositionType /\ \E d \in Nat : Sound(p, d)
    BY <2>1 DEF TypeOK, Standing
  <2> QED BY <2>2, SoundBounds
<1>2. CASE \E i \in DOMAIN former : p = former[i].was
  <2>1. PICK i \in DOMAIN former : p = former[i].was
    BY <1>2
  <2>2. former[i] \in FormerType
    BY DEF TypeOK
  <2>3. p \in PositionType /\ \E d \in Nat : Sound(p, d)
    BY <2>1, <2>2 DEF FormerType, FormerStand
  <2> QED BY <2>3, SoundBounds
<1> QED BY <1>1, <1>2 DEF AllPositions

\* Positions that are closed whole, the others being left alone.
LEMMA FlattenStands ==
    ASSUME TypeOK, Standing, NEW S \in SUBSET DOMAIN positions, NEW reason \in Reasons,
           reason # "TP1", bar' = bar,
           positions' = [u \in DOMAIN positions |->
                            IF u \in S THEN ClosedAt(positions[u], bar.close, NoSize, reason)
                            ELSE positions[u]]
    PROVE  Standing'
<1>1. bar.close \in Int /\ \A u \in DOMAIN positions : positions[u] \in PositionType
  BY DEF TypeOK, BarType
<1>2. ASSUME NEW u \in DOMAIN positions
      PROVE  \E d \in Nat : Sound(positions'[u], d) /\ Within(positions'[u], d, bar'.close)
  <2>1. PICK d \in Nat : Sound(positions[u], d) /\ Within(positions[u], d, bar.close)
    BY DEF Standing
  <2>2. CASE u \in S
    <3>1. positions'[u].left = 0 /\ Sound(positions'[u], d)
      BY <1>1, <2>1, <2>2, FlatSound
    <3> QED BY <3>1 DEF Within
  <2>3. CASE u \notin S
    BY <2>1, <2>3 DEF Within
  <2> QED BY <2>2, <2>3
<1>3. DOMAIN positions' = DOMAIN positions
  OBVIOUS
<1> QED BY <1>2, <1>3 DEF Standing

LEMMA ProcessBarStands ==
    ASSUME TypeOK, Standing, NEW b \in Bars, ProcessBar(b)
    PROVE  Standing'
<1>1. b \in BarType /\ b.low <= b.close /\ b.close <= b.high /\ bar' = b
  BY ReplayAssumption DEF Bars, BarType, ProcessBar
<1>2. positions' = [u \in DOMAIN positions |-> Walked(positions[u], b)]
  BY DEF ProcessBar
<1>3. ASSUME NEW u \in DOMAIN positions
      PROVE  \E d \in Nat : Sound(positions'[u], d) /\ Within(positions'[u], d, bar'.close)
  <2>1. PICK p, r : p = positions[u] /\ r = Walked(p, b)
    OBVIOUS
  <2>2. PICK d \in Nat : Sound(p, d)
    BY <2>1 DEF Standing
  <2>3. p \in PositionType
    BY <2>1 DEF TypeOK
  <2>4. /\ Sound(r, d) /\ Kept(p, r)
        /\ r.left > 0 => p.dir * (b.close - p.at) + d >= 0
    BY <1>1, <2>1, <2>2, <2>3, WalkedSound
  <2>5. positions'[u] = r
    BY <1>2, <2>1
  <2>6. r.left > 0 => r.dir * (b.close - r.at) + d >= 0
    BY <2>4 DEF Kept
  <2> QED BY <1>1, <2>4, <2>5, <2>6 DEF Within
<1>4. DOMAIN positions' = DOMAIN positions
  BY <1>2
<1> QED BY <1>3, <1>4 DEF Standing

\* What an entry opens is sound, and what it replaces was.
LEMMA TakenStands ==
    ASSUME TypeOK, Standing, FormerStand, DynamicRisk => MaxRisk # 0, bar' = bar,
           NEW dir \in {1, -1}, NEW stop \in Stops, NEW single \in BOOLEAN,
           NEW proposed \in Proposals \cup {NoSize}, NEW requested \in Risks \cup {NoRisk},
           NEW x, NEW p, Taken(x, p, dir, stop, single, proposed, requested)
    PROVE  Standing' /\ FormerStand'
<1>1. /\ x \in Uxids /\ positions' = With(positions, x, p)
      /\ former' = IF x \in DOMAIN positions
                   THEN Append(former, [was |-> positions[x], parted |-> x \in parted])
                   ELSE former
      /\ p = OpenedBy(dir, stop, single, requested)
  BY DEF Taken
<1>2. p \in PositionType /\ p.quantity = p.left
  BY <1>1, OpenedType
<1> DEFINE levels == Bracketed(p.dir, p.at, stop, single)
<1>3. /\ p.at = bar.close /\ p.entry = p.at + p.dir * HalfSpread
      /\ p.quantity = Sized(p.at, levels.sl, RiskFor(requested))
      /\ p.sl = levels.sl /\ p.tp1 = levels.tp1 /\ p.tp2 = levels.tp2
      /\ p.gross = 0 /\ p.legs = << >>
  BY <1>1 DEF OpenedBy
<1>4. stop \in Int
  BY ReplayAssumption
<1>5. Sound(p, Distance(p.at, p.sl))
  <2> HIDE DEF levels
  <2>1. levels = Bracketed(p.dir, p.at, stop, single)
    BY DEF levels
  <2> QED BY <1>2, <1>3, <1>4, <2>1, EnteredSound
<1>6. p.at \in Int /\ p.sl \in Int /\ p.dir \in {1, -1}
  BY <1>2 DEF PositionType
<1>7. Distance(p.at, p.sl) \in Nat
  BY <1>6, Distances
<1>8. Within(p, Distance(p.at, p.sl), bar'.close)
  <2>1. p.dir * (bar'.close - p.at) = 0
    BY <1>3, <1>6
  <2> QED BY <1>7, <2>1 DEF Within
<1>9. /\ DOMAIN positions' = DOMAIN positions \cup {x} /\ positions'[x] = p
      /\ \A u \in DOMAIN positions : u # x => positions'[u] = positions[u]
  BY <1>1 DEF With
<1>10. Standing'
  BY <1>5, <1>7, <1>8, <1>9 DEF Standing
<1>11. FormerStand'
  <2>1. CASE x \notin DOMAIN positions
    BY <1>1, <2>1 DEF FormerStand
  <2>2. CASE x \in DOMAIN positions
    <3> DEFINE f == [was |-> positions[x], parted |-> x \in parted]
    <3>1. former' = Append(former, f) /\ \E d \in Nat : Sound(f.was, d)
      BY <1>1, <2>2 DEF Standing
    <3>2. former \in Seq(FormerType)
      BY DEF TypeOK
    <3> HIDE DEF f
    <3>3. ASSUME NEW i \in DOMAIN former' PROVE \E d \in Nat : Sound(former'[i].was, d)
      <4>1. \/ i \in DOMAIN former /\ former'[i] = former[i]
            \/ former'[i] = f
        BY <3>1, <3>2, <3>3
      <4> QED BY <3>1, <4>1 DEF FormerStand
    <3> QED BY <3>3 DEF FormerStand
  <2> QED BY <2>1, <2>2
<1> QED BY <1>10, <1>11

LEMMA EnterStands ==
    ASSUME TypeOK, Standing, FormerStand, DynamicRisk => MaxRisk # 0,
           NEW dir \in {1, -1}, NEW stop \in Stops, NEW single \in BOOLEAN,
           NEW proposed \in Proposals \cup {NoSize}, NEW requested \in Risks \cup {NoRisk},
           NEW named \in Uxids \cup {0}, Enter(dir, stop, single, proposed, requested, named)
    PROVE  Standing' /\ FormerStand'
<1>1. /\ bar' = bar
      /\ \/ UNCHANGED <<book, positions, former, told, parted>>
         \/ \E x, p : Taken(x, p, dir, stop, single, proposed, requested)
  BY EnterForm
<1>2. CASE UNCHANGED <<book, positions, former, told, parted>>
  BY <1>1, <1>2 DEF Standing, FormerStand
<1>3. CASE \E x, p : Taken(x, p, dir, stop, single, proposed, requested)
  BY <1>1, <1>3, TakenStands
<1> QED BY <1>1, <1>2, <1>3

LEMMA CloseStands ==
    ASSUME TypeOK, Standing, NEW action \in CloseActions, NEW named \in Uxids \cup {0},
           NEW size \in Proposals \cup {NoSize}, Close(action, named, size)
    PROVE  Standing'
<1>1. /\ action \in Closes /\ bar' = bar
      /\ \/ UNCHANGED <<book, positions, told, parted>>
         \/ \E u \in DOMAIN positions, q \in Nat \cup {NoSize} : Filled(u, q, action, size)
  BY CloseForm
<1>2. CASE UNCHANGED <<book, positions, told, parted>>
  BY <1>1, <1>2 DEF Standing
<1>3. ASSUME NEW u \in DOMAIN positions, NEW q \in Nat \cup {NoSize}, Filled(u, q, action, size)
      PROVE  Standing'
  <2>1. bar.close \in Int /\ \A v \in DOMAIN positions : positions[v] \in PositionType
    BY DEF TypeOK, BarType
  <2>2. PICK p, r : p = positions[u] /\ r = ClosedBy(p, q, action)
    OBVIOUS
  <2>3. PICK d \in Nat : Sound(p, d) /\ Within(p, d, bar.close)
    BY <2>2 DEF Standing
  <2>4. Sound(r, d) /\ Within(r, d, bar.close)
    BY <1>1, <2>1, <2>2, <2>3, StrategyCloseSound
  <2>5. positions' = [positions EXCEPT ![u] = r]
    BY <1>3, <2>2 DEF Filled
  <2>6. /\ DOMAIN positions' = DOMAIN positions /\ positions'[u] = r
        /\ \A v \in DOMAIN positions : v # u => positions'[v] = positions[v]
    BY <2>5
  <2> QED BY <1>1, <2>4, <2>6 DEF Standing
<1> QED BY <1>1, <1>2, <1>3

\* Every step keeps the positions sound.
LEMMA StepStands ==
    ASSUME TypeOK, Standing, FormerStand, [Next]_vars, DynamicRisk => MaxRisk # 0
    PROVE  Standing' /\ FormerStand'
<1>0. ASSUME former' = former PROVE FormerStand'
  BY <1>0 DEF FormerStand
<1>1. CASE \E b \in Bars : ProcessBar(b)
  <2>1. former' = former
    BY <1>1 DEF ProcessBar
  <2> QED BY <1>0, <1>1, <2>1, ProcessBarStands
<1>2. CASE Decide
  <2>1. CASE \E dir \in {1, -1}, stop \in Stops, single \in BOOLEAN,
                proposed \in Proposals \cup {NoSize}, requested \in Risks \cup {NoRisk},
                named \in Uxids \cup {0} :
                  Enter(dir, stop, single, proposed, requested, named)
    BY <2>1, EnterStands
  <2>2. CASE \E action \in CloseActions, named \in Uxids \cup {0},
                size \in Proposals \cup {NoSize} : Close(action, named, size)
    <3>1. former' = former
      BY <2>2, CloseForm
    <3> QED BY <1>0, <2>2, <3>1, CloseStands
  <2> QED BY <1>2, <2>1, <2>2 DEF Decide
<1>3. CASE EndBar
  <2> DEFINE flat == IF shut THEN DOMAIN book ELSE {}
  <2>1. flat \in SUBSET DOMAIN positions
    BY DEF TypeOK
  <2>2. "FLAT" \in Reasons
    BY DEF Reasons, Terminal
  <2>3. /\ positions' = [u \in DOMAIN positions |->
                           IF u \in flat
                           THEN ClosedAt(positions[u], bar.close, NoSize, "FLAT")
                           ELSE positions[u]]
        /\ bar' = bar /\ former' = former
    BY <1>3 DEF EndBar
  <2> HIDE DEF flat
  <2> QED BY <1>0, <2>1, <2>2, <2>3, FlattenStands
<1>4. CASE Finish
  <2>1. PICK all : all = DOMAIN positions
    OBVIOUS
  <2>2. "END_OF_DATA" \in Reasons
    BY DEF Reasons
  <2>3. /\ positions' = [u \in DOMAIN positions |->
                           IF u \in all
                           THEN ClosedAt(positions[u], bar.close, NoSize, "END_OF_DATA")
                           ELSE positions[u]]
        /\ bar' = bar /\ former' = former
    BY <1>4, <2>1 DEF Finish
  <2>4. all \in SUBSET DOMAIN positions
    BY <2>1
  <2> QED BY <1>0, <2>2, <2>3, <2>4, FlattenStands
<1>5. CASE UNCHANGED vars
  BY <1>5 DEF vars, Standing, FormerStand
<1> QED BY <1>1, <1>2, <1>3, <1>4, <1>5 DEF Next

\* A pair that takes its strategy's risk having a ceiling: no position loses more than
\* the ceiling allows and the costs of the way in and out unless a bar gaps through its
\* stop, what TP1 leaves is stopped at the price the entry named or better, and nothing
\* is open over the weekend but what a terminal close of a size of its own has left
\* (FillSimulator, BracketPolicy, PositionSizer, _flatten_for_the_weekend).
THEOREM ReplayExposure ==
    ASSUME DynamicRisk => MaxRisk # 0
    PROVE  Spec => []ExposureIsBounded
<1> DEFINE Rested == phase = "bar" /\ shut => Open \subseteq parted
<1>1. Init => Standing /\ FormerStand /\ Rested
  BY DEF Init, Standing, FormerStand
<1>2. TypeOK /\ Standing /\ FormerStand /\ [Next]_vars => Standing' /\ FormerStand'
  BY StepStands
<1>3. TypeOK /\ BooksAgree /\ Rested /\ [Next]_vars => Rested'
  <2> SUFFICES ASSUME TypeOK, BooksAgree, Rested, [Next]_vars PROVE Rested'
    OBVIOUS
  <2>1. CASE \E b \in Bars : ProcessBar(b)
    BY <2>1 DEF ProcessBar
  <2>2. CASE Decide
    <3>1. ASSUME NEW dir, NEW stop, NEW single, NEW proposed, NEW requested, NEW named,
                 Enter(dir, stop, single, proposed, requested, named)
          PROVE  phase' # "bar"
      BY <3>1 DEF Enter
    <3>2. ASSUME NEW action, NEW named, NEW size, Close(action, named, size)
          PROVE  phase' # "bar"
      BY <3>2 DEF Close
    <3>3. phase' # "bar"
      BY <2>2, <3>1, <3>2 DEF Decide
    <3> QED BY <3>3
  <2>3. CASE EndBar
    <3>1. SameBooks /\ shut' = shut /\ parted' = parted
      BY <2>3 DEF EndBar, BooksAgree, SameBooks
    <3> QED BY <2>3, <3>1, EndBarStep
  <2>4. CASE Finish
    BY <2>4 DEF Finish
  <2>5. CASE UNCHANGED vars
    BY <2>5 DEF vars, Open
  <2> QED BY <2>1, <2>2, <2>3, <2>4, <2>5 DEF Next
<1>4. TypeOK /\ Standing /\ FormerStand /\ Rested => ExposureIsBounded
  BY StandingBounds DEF ExposureIsBounded
<1>5. Spec => [](Standing /\ FormerStand /\ Rested)
  <2>1. Spec => []BooksAgree
    BY ReplayBooksAgree
  <2> HIDE DEF Rested
  <2> QED BY <1>1, <1>2, <1>3, <2>1, ReplayTypeCorrect, PTL DEF Spec
<1> HIDE DEF Rested
<1> QED BY <1>4, <1>5, ReplayTypeCorrect, PTL
=============================================================================

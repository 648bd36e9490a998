---------------------------- MODULE SignalSizing ----------------------------
(***************************************************************************)
(* The sizes a SignalFactory puts on a pair's signals: an entry is sized   *)
(* against the account, a close against the cycle it belongs to.           *)
(*                                                                         *)
(* Sizes are naturals in units of 1/Step of a quantity step, so that half  *)
(* of an entry is a size too; prices are integers.                         *)
(***************************************************************************)
EXTENDS Integers

CONSTANTS
    Step,           \* units in one quantity step (10^-QTE_ACCOUNT__QUANTITY_PRECISION)
    Budget,         \* capital / 100: what one percent of risk is, in price x steps
    BaseRisk,       \* the pair's risk_percent
    MaxRisk,        \* the ceiling on one entry's risk, 0 for none
    DynamicRisk,    \* the pair takes the risk its strategy states
    MaxQuantity     \* QTE_ACCOUNT__MAX_QUANTITY in steps, 0 for none

ASSUME SizingAssumption ==
    /\ Step \in Nat \ {0} /\ Step % 2 = 0
    /\ Budget \in Nat \ {0} /\ MaxQuantity \in Nat
    /\ BaseRisk \in Nat \ {0} /\ MaxRisk \in Nat /\ DynamicRisk \in BOOLEAN

\* An intent that names no risk or no size; a cycle whose size is unknown is left out.
NoRisk == -9
NoSize == -1

Terminal == {"TP2", "SL", "R_SL", "FLAT"}
Closes == Terminal \cup {"TP1"}

Lesser(a, b) == IF a <= b THEN a ELSE b
Distance(a, b) == IF a <= b THEN b - a ELSE a - b

\* PositionSizer.risk_for: what a strategy asks for counts on a dynamic pair only,
\* and up to the ceiling.  0 refuses the entry.
RiskFor(requested) ==
    LET wanted == IF ~DynamicRisk \/ requested = NoRisk THEN BaseRisk
                  ELSE IF requested <= 0 THEN 0 ELSE requested
    IN  IF MaxRisk # 0 THEN Lesser(wanted, MaxRisk) ELSE wanted

\* PositionSizer.size, limit_quantity: what the risk budget buys at this stop, in
\* whole steps and below the ceiling.  0 is a refused trade.
Sized(price, sl, risk) ==
    IF price = sl THEN 0
    ELSE LET bought == (Budget * risk) \div Distance(price, sl)
         IN  Step * (IF MaxQuantity = 0 THEN bought ELSE Lesser(bought, MaxQuantity))

\* PositionSizer.rescale: a strategy's size in ours, rounded to a whole step.  A
\* size halfway between two steps may become either, as floating point has it.
Rescaled(size, position) ==
    {r \in {Step * n : n \in 0..((size * position.ours) \div position.theirs + 1)} :
        2 * Distance(r * position.theirs, size * position.ours) <= Step * position.theirs}

\* OpenPosition.share at a tp1_percent of 50, the default
Half(position) == Lesser(position.quantity \div 2, position.left)

\* SignalFactory._size_close: never more than what is left.  FLAT means everything
\* and stays without a size.
CloseSizes(size, action, position) ==
    IF size # NoSize
    THEN {Lesser(r, position.left) : r \in Rescaled(size, position)}
    ELSE CASE action = "FLAT" -> {NoSize}
           [] action = "TP1"  -> {Half(position)}
           [] OTHER           -> {position.left}

\* _still_running: what the payload says of the cycle once this close is filled
StillRunning(action, size, position) ==
    action \notin Terminal /\ position.left > size

\* OpenPosition.apply_close: what is left of the cycle, and whether it is over
LeftAfter(size, position) ==
    IF size = NoSize THEN position.left
    ELSE IF size <= position.left THEN position.left - size ELSE 0

Ends(action, size, position) ==
    action \in Terminal \/ LeftAfter(size, position) = 0
=============================================================================

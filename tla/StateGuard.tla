------------------------------- MODULE StateGuard -------------------------------
(***************************************************************************)
(* Which candle state a start of ingestion may build on: the provenance of *)
(* bars (state_scope.py) and the guard that discards what another feed     *)
(* wrote or what is dated after now (state_guard.py).  The state is Redis, *)
(* of one namespace.  Between two starts the plan may give a symbol to     *)
(* another provider of the scope; the guard discards key by key, and the   *)
(* process may die between any two of its writes.                          *)
(*                                                                         *)
(* A bar is [symbol, by, closes]: its producer and the end of its bucket.  *)
(* One timeframe per symbol.  MaxNow, MaxBars and MaxCrashes are bounds.   *)
(***************************************************************************)
EXTENDS Integers, FiniteSets

CONSTANTS
    Symbols,
    Scopes,         \* [environment, mode, providers] a deployment may be given
    Legacy,         \* bars that may be in Redis before the first start
    MaxNow, MaxBars, MaxCrashes

VARIABLES
    now,
    scope,      \* of this deployment
    plan,       \* symbol -> its provider, for the symbols subscribed
    ticks,      \* symbol -> producer of the cached tick
    closed,     \* closed bars in the lists
    opened,     \* open bars
    outbox,     \* staged closes
    writer,     \* the recorded history provider: "none", "other" or "key"
    phase,      \* [at, todo, horizon]
    loose,      \* staged closes whose list was discarded without them
    made, crashes

guardVars == <<now, scope, plan, ticks, closed, opened, outbox, writer, phase, loose, made,
               crashes>>

-----------------------------------------------------------------------------
(* StateScope.__post_init__ and origin.                                    *)
Synthetic(name) == name = "simulator"

ValidScope(s) ==
    /\ s.mode = "dev" => s.environment = "dev"
    /\ s.mode = "live" => s.environment # "dev"
    /\ "simulator" \in s.providers => s.mode = "dev" /\ s.providers = {"simulator"}

\* StateScope.accepts: of some provider of the scope.
Accepts(by) == by \in scope.providers

AnySynthetic == \E name \in scope.providers : Synthetic(name)

\* _feeding_provider and _origin_for; the origin is named by its provider.
ExpectedOrigin(symbol) == plan[symbol]
Plans == {p \in UNION {[S -> scope.providers] : S \in SUBSET Symbols} : DOMAIN p # {}}
Subscribed == DOMAIN plan

-----------------------------------------------------------------------------
NoTick == "none"
Down == [at |-> "down", todo |-> {}, horizon |-> 0]

Init ==
    /\ now = 0
    /\ scope \in {s \in Scopes : ValidScope(s)}
    /\ plan = [s \in {} |-> ""]
    /\ ticks = [s \in Symbols |-> NoTick]
    /\ closed \in SUBSET Legacy /\ outbox \in {{}, closed}
    /\ opened = {}
    /\ writer \in {"none", "other"}
    /\ phase = Down /\ loose = {} /\ made = 0 /\ crashes = 0

Clock ==
    /\ now < MaxNow /\ now' = now + 1
    /\ UNCHANGED <<scope, plan, ticks, closed, opened, outbox, writer, phase, loose, made,
                   crashes>>

-----------------------------------------------------------------------------
(* discard_foreign_candle_state.  The horizon is taken first.              *)

Kept == {b \in closed \cup opened : b.symbol \in Subscribed}

\* The cached ticks go while the lists are being read.
Begins ==
    /\ phase.at = "down"
    /\ plan' \in Plans
    /\ phase' = [at |-> "reading", todo |-> DOMAIN plan', horizon |-> now]
    /\ UNCHANGED <<now, scope, ticks, closed, opened, outbox, writer, loose, made, crashes>>

ReadsTick(s) ==
    /\ phase.at = "reading" /\ s \in phase.todo
    /\ ticks' = [ticks EXCEPT ![s] = IF @ = ExpectedOrigin(s) THEN @ ELSE NoTick]
    /\ phase' = [phase EXCEPT !.todo = @ \ {s}]
    /\ UNCHANGED <<now, scope, plan, closed, opened, outbox, writer, loose, made, crashes>>

Unrecorded == writer = "none" /\ (Kept # {} \/ outbox # {})

\* _future_dated_bars: a live feed cannot have closed a bar whose bucket has
\* not ended, or opened one that has not begun.
FutureDated ==
    \/ \E b \in closed : b.symbol \in Subscribed /\ b.closes > phase.horizon
    \/ \E b \in opened : b.symbol \in Subscribed /\ b.closes - 1 > phase.horizon
    \/ \E b \in outbox : b.closes > phase.horizon

\* A slip that reads well: the provider must be one of the scope.
BugForeignBars == \E b \in Kept : ~Accepts(b.by)

ForeignBars == \E b \in Kept : b.by # ExpectedOrigin(b.symbol)

\* The outbox is read with no regard to the symbol.
ForeignOutbox == \E b \in outbox : ~Accepts(b.by)

Judges ==
    /\ phase.at = "reading" /\ phase.todo = {}
    /\ phase' = IF \/ Unrecorded \/ writer = "other" \/ ForeignBars \/ ForeignOutbox
                   \/ ~AnySynthetic /\ FutureDated
                THEN [phase EXCEPT !.at = "discarding", !.todo = Subscribed]
                ELSE [phase EXCEPT !.at = "recording"]
    /\ UNCHANGED <<now, scope, plan, ticks, closed, opened, outbox, writer, loose, made, crashes>>

\* discard_last_tick of one symbol, then discard_candle_state: two writes.
DropsTick(s) ==
    /\ phase.at = "discarding" /\ s \in phase.todo
    /\ ticks[s] # NoTick
    /\ ticks' = [ticks EXCEPT ![s] = NoTick]
    /\ UNCHANGED <<now, scope, plan, closed, opened, outbox, writer, phase, loose, made, crashes>>

Discards(s) ==
    /\ phase.at = "discarding" /\ s \in phase.todo
    /\ ticks[s] = NoTick
    /\ closed' = {b \in closed : b.symbol # s}
    /\ opened' = {b \in opened : b.symbol # s}
    /\ loose' = loose \cup {b \in outbox : b.symbol = s}
    /\ phase' = [phase EXCEPT !.todo = @ \ {s}]
    /\ UNCHANGED <<now, scope, plan, ticks, outbox, writer, made, crashes>>

DiscardsOutbox ==
    /\ phase.at = "discarding" /\ phase.todo = {}
    /\ outbox' = {} /\ loose' = {}
    /\ phase' = [phase EXCEPT !.at = "recording"]
    /\ UNCHANGED <<now, scope, plan, ticks, closed, opened, writer, made, crashes>>

Records ==
    /\ phase.at = "recording"
    /\ writer' = "key"
    /\ phase' = [phase EXCEPT !.at = "running"]
    /\ UNCHANGED <<now, scope, plan, ticks, closed, opened, outbox, loose, made, crashes>>

-----------------------------------------------------------------------------
(* The running service, as far as its state goes: bars are stamped with    *)
(* the provider that feeds their symbol; those of ticks follow the clock   *)
(* of the vendor, which may be ahead, as the simulator is on purpose.      *)

Bar(s, closes) == [symbol |-> s, by |-> plan[s], closes |-> closes]
Running == phase.at = "running"

\* A tick opens the next bar of a symbol.
OpensBar(s) ==
    /\ Running /\ s \in Subscribed /\ made < MaxBars /\ made' = made + 1
    /\ \A b \in opened : b.symbol # s
    /\ \E closes \in {now + 1, now + 2} : opened' = opened \cup {Bar(s, closes)}
    /\ ticks' = [ticks EXCEPT ![s] = plan[s]]
    /\ UNCHANGED <<now, scope, plan, closed, outbox, writer, phase, loose, crashes>>

\* It closes, at a tick or the clock, and is staged.
Stages(b) ==
    /\ Running
    /\ closed' = closed \cup {b} /\ outbox' = outbox \cup {b} /\ opened' = opened \ {b}
    /\ UNCHANGED <<now, scope, plan, ticks, writer, phase, loose, made, crashes>>

\* The drain: the event goes out, or the outbox waits for the bus.
Drains(b) ==
    /\ Running
    /\ outbox' = outbox \ {b} /\ loose' = loose \ {b}
    /\ UNCHANGED <<now, scope, plan, ticks, closed, opened, writer, phase, made, crashes>>

\* /flush of a symbol leaves what is staged.
Flushed(s) ==
    /\ Running /\ s \in Subscribed
    /\ closed' = {b \in closed : b.symbol # s} /\ opened' = {b \in opened : b.symbol # s}
    /\ loose' = loose \cup {b \in outbox : b.symbol = s}
    /\ UNCHANGED <<now, scope, plan, ticks, outbox, writer, phase, made, crashes>>

\* Stopped, or dead in the middle of a start.
Ends ==
    /\ phase.at # "down" /\ crashes < MaxCrashes /\ crashes' = crashes + 1
    /\ phase' = Down /\ plan' = [s \in {} |-> ""]
    /\ UNCHANGED <<now, scope, ticks, closed, opened, outbox, writer, loose, made>>

Next ==
    \/ Clock \/ Begins \/ Judges \/ DiscardsOutbox \/ Records \/ Ends
    \/ \E s \in Symbols : ReadsTick(s) \/ DropsTick(s) \/ Discards(s) \/ OpensBar(s) \/ Flushed(s)
    \/ \E b \in opened : Stages(b)
    \/ \E b \in outbox : Drains(b)

Spec == Init /\ [][Next]_guardVars

-----------------------------------------------------------------------------
(* A start that gets to run builds on windows, open bars and ticks of its  *)
(* own markets only: each comes from the provider that feeds the symbol    *)
(* now, and none is dated after the moment of the start unless the feed is *)
(* synthetic, wherever earlier starts died and whatever an older scope     *)
(* left.  For what is staged the guard promises less: an outbox survives a *)
(* start that dies between discarding a list and discarding the outbox,    *)
(* and a /flush, and the next start asks only whether it is of the scope.  *)
(* So the close of another market may be published, but only in this way,  *)
(* only from a provider of the scope and never one of the future.          *)
WindowsAreOwn ==
    /\ \A b \in Kept : b.by = plan[b.symbol]
    /\ \A s \in Subscribed : ticks[s] \in {NoTick, plan[s]}

StagedIsOwnOrLeft ==
    \A b \in outbox :
        /\ Accepts(b.by)
        /\ b.symbol \in Subscribed => b.by = plan[b.symbol] \/ b \in loose

NothingIsAhead ==
    ~AnySynthetic =>
        /\ \A b \in closed : b.symbol \in Subscribed => b.closes <= phase.horizon
        /\ \A b \in opened : b.symbol \in Subscribed => b.closes - 1 <= phase.horizon
        /\ \A b \in outbox : b.closes <= phase.horizon

BuildsOnItsOwn ==
    phase.at # "running" /\ phase'.at = "running" =>
        WindowsAreOwn' /\ StagedIsOwnOrLeft' /\ NothingIsAhead'
=================================================================================

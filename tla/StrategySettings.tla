-------------------------- MODULE StrategySettings --------------------------
(***************************************************************************)
(* What a strategy repository declares about the market its strategies     *)
(* trade, and what one pair makes of it: strategy_settings.py.  A payload  *)
(* is what the settings hook returned for one alias, a moment is a minute  *)
(* of the trading week, and a closure is a dated span of the calendar.     *)
(* A value that Python refuses with ValueError is Refused here.            *)
(***************************************************************************)
EXTENDS Integers, FiniteSets

CONSTANTS
    Week,       \* minutes in a week
    Absent,     \* a key the payload does not carry, or carries as None
    Junk,       \* a value of the wrong type, or one that does not parse
    On, Off,    \* the Booleans a table or a switch may hold
    Refused     \* ValueError

IsRefused(x) == x = Refused

\* What a strategy that declares nothing trades under.
NoWeekendFlat == [enabled |-> FALSE, from |-> Absent, until |-> Absent, extra |-> {}]

\* WeeklyMoment.parse: a weekday and a time of day that both read.
IsMoment(x) == x \in 0..(Week - 1)

\* DatedFlatWindow.from_mapping: two dates that read, in order.
IsClosure(c) == c # Junk /\ c.from < c.until

\* WeekendFlatPolicy.parse.  A payload is Absent, On, Off, Junk, or the
\* table [unknown, enabled, from, until, extra].
ParsePolicy(p) ==
    IF p \in {Absent, Off} THEN NoWeekendFlat
    ELSE IF p \in {On, Junk} THEN Refused
    ELSE IF p.unknown \/ p.enabled = Junk THEN Refused
    ELSE LET enabled == p.enabled # Off
         IN  IF ~enabled /\ Absent \in {p.from, p.until} THEN NoWeekendFlat
             ELSE IF /\ IsMoment(p.from) /\ IsMoment(p.until)
                     /\ p.from # p.until
                     /\ p.extra # Junk
                     /\ \A c \in p.extra : IsClosure(c)
                  THEN [enabled |-> enabled, from |-> p.from,
                        until |-> p.until, extra |-> p.extra]
                  ELSE Refused

DeclaresWindow(policy) == Absent \notin {policy.from, policy.until}

\* WeekendFlatPolicy.covers: the span from the cut-off, measured forward
\* modulo the week, and the dated closures, of a policy that is switched on.
Covers(policy, moment) ==
    /\ policy.enabled
    /\ DeclaresWindow(policy)
    /\ \/ \E c \in policy.extra : moment \in c.from..(c.until - 1)
       \/ (moment - policy.from) % Week < (policy.until - policy.from) % Week

\* StrategySettings.parse and parse_settings_table: one entry that does not
\* read refuses the whole table.  A table is Absent, Junk, or a function from
\* aliases to [unknown, weekend].
ParseTable(table) ==
    IF table = Absent THEN [a \in {} |-> NoWeekendFlat]
    ELSE IF table = Junk THEN Refused
    ELSE IF \E a \in DOMAIN table :
               table[a] # Absent /\ (table[a] = Junk
                                     \/ table[a].unknown
                                     \/ IsRefused(ParsePolicy(table[a].weekend)))
         THEN Refused
         ELSE [a \in DOMAIN table |->
                  IF table[a] = Absent THEN NoWeekendFlat
                                       ELSE ParsePolicy(table[a].weekend)]

\* resolve_weekend_flat: the switch of one pair over the declared policy.
ResolveWeekendFlat(policy, switch) ==
    IF switch = Absent THEN policy
    ELSE IF switch = Junk \/ (switch = On /\ ~DeclaresWindow(policy)) THEN Refused
    ELSE [policy EXCEPT !.enabled = (switch = On)]

\* resolve_warmup: the bars a pair collects before it decides.
ResolveWarmup(declared, history, wanted) ==
    IF wanted = Absent THEN declared
    ELSE IF wanted = Junk \/ wanted < 1 \/ (history # Absent /\ wanted > history)
         THEN Refused
         ELSE wanted
=============================================================================

-------------------------------- MODULE DemoDrill --------------------------------
(***************************************************************************)
(* The demo drill: every mounted strategy is driven over ideal bars and    *)
(* one payload of each is published on a subject the broker answers with a *)
(* card and nothing else (demo_signal.py).  Operators start it in the bot, *)
(* one at a time (handlers.py, engine_client.py), or from the console.     *)
(* What counts is the report: it decides whether the drill is run again,   *)
(* and a card that is fired twice shows twice in the channel.              *)
(***************************************************************************)
EXTENDS Integers, Sequences, FiniteSets, SequencesExt

CONSTANTS
    Mounted,        \* names the mount record publishes
    Loaded,         \* the strategies that load, in order
    SymbolsOf,      \* name -> its symbols, in order
    Broken,         \* loaded strategies that cannot be configured
    Regimes,        \* the kinds of bars tried, in order
    MayDo,          \* name -> what it may do: [on, fillable], on a regime each
    Drills,         \* each started by the bot or from the console
    MaxFaults       \* bound

VARIABLES
    drill,      \* [by, at, want, pairs, demos, failures, deliveries, report, cut]
    lock,       \* the drills at _demo_lock in their order: the first holds it
    wire,       \* drill -> envelopes published that have not left yet
    cards,      \* the cards of the broker in their order
    faults

drillVars == <<drill, lock, wire, cards, faults>>

Fault == faults < MaxFaults /\ faults' = faults + 1
Names == Range(Loaded)
Synthetic == "synthetic"

-----------------------------------------------------------------------------
(* What is fired: build_demo_pairs.                                        *)

\* Of one loaded strategy: the first of its symbols, or the one asked for.
SymbolsFired(name, symbol) ==
    IF symbol = "any" THEN IF SymbolsOf[name] = <<>> THEN <<>> ELSE <<Head(SymbolsOf[name])>>
    ELSE SelectSeq(SymbolsOf[name], LAMBDA s : s = symbol)

PairsOf(want) ==
    LET asked == SelectSeq(Loaded, LAMBDA n : want.name \in {"all", n})
        fired == SelectSeq(asked, LAMBDA n : SymbolsFired(n, want.symbol) # <<>>)
    IN  [i \in DOMAIN fired |-> <<fired[i], SymbolsFired(fired[i], want.symbol)[1]>>]

\* One that cannot be configured, or a name that fires nothing, raises.
PairsRaise(want) ==
    \/ \E i \in DOMAIN PairsOf(want) : PairsOf(want)[i][1] \in Broken
    \/ want.name # "all" /\ PairsOf(want) = <<>>

-----------------------------------------------------------------------------
(* build_demo_signal: the regimes in order until one makes the strategy    *)
(* enter.  A strategy that raises gives its regime up, one that returns    *)
(* what is no intent the whole payload (as_intents).                       *)
\* "enters", "declines", "raises" or "junk"; and whether its payload can be
\* filled.
Decided(on) ==
    {i \in DOMAIN Regimes : on[i] \in {"enters", "junk"}
                            /\ \A j \in 1..(i - 1) : on[j] \in {"declines", "raises"}}

\* first_error: of the regimes that were tried.
Raised(on) ==
    \E i \in DOMAIN Regimes : on[i] = "raises" /\ \A j \in Decided(on) : i < j

\* The payload, or none: _first_entry and _payload.
Built(pair, does) ==
    LET decided == Decided(does.on) IN
    IF ~does.fillable \/ \E i \in decided : does.on[i] = "junk" THEN <<>>
    ELSE <<[pair |-> pair, raised |-> Raised(does.on),
            source |-> IF decided = {} THEN Synthetic
                       ELSE Regimes[CHOOSE i \in decided : TRUE]]>>

-----------------------------------------------------------------------------
Idle(by) == [by |-> by, at |-> "idle", want |-> [name |-> "all", symbol |-> "any"], pairs |-> <<>>,
             demos |-> <<>>, failures |-> {}, deliveries |-> <<>>, report |-> "none", cut |-> FALSE]

Init ==
    /\ drill \in [Drills -> {Idle("bot"), Idle("console")}]
    /\ lock = <<>>
    /\ wire = [d \in Drills |-> <<>>]
    /\ cards = <<>> /\ faults = 0

Now(d, record) == drill' = [drill EXCEPT ![d] = record]

\* The report of a drill that ends; the lock goes to the next that waits.
Ended(d, record, text) ==
    /\ Now(d, [record EXCEPT !.at = "done", !.report = text])
    /\ lock' = SelectSeq(lock, LAMBDA e : e # d)

\* /demo: fire_demo.  Only the mount knows the names; between the check of
\* the lock and its taking the drill is announced.
AskDemo(d, name) ==
    /\ drill[d].at = "idle" /\ drill[d].by = "bot"
    /\ Now(d, IF name # "all" /\ name \notin Mounted
              THEN [drill[d] EXCEPT !.at = "done", !.report = "usage"]
              ELSE IF lock # <<>>
              THEN [drill[d] EXCEPT !.at = "done", !.report = "running"]
              ELSE [drill[d] EXCEPT !.at = "announced", !.want.name = name])
    /\ UNCHANGED <<lock, wire, cards, faults>>

\* fire_demo_signals: the lock, in the order of asking for it.
TakeLock(d) ==
    /\ drill[d].at = "announced"
    /\ Now(d, [drill[d] EXCEPT !.at = "selecting"])
    /\ lock' = Append(lock, d)
    /\ UNCHANGED <<wire, cards, faults>>

\* make demo-signal: run_demo, which asks nobody.
RunDemo(d, want) ==
    /\ drill[d].at = "idle" /\ drill[d].by = "console"
    /\ Now(d, [drill[d] EXCEPT !.at = "selecting", !.want = want])
    /\ UNCHANGED <<lock, wire, cards, faults>>

MayRun(d) == drill[d].by = "bot" => Head(lock) = d

Select(d) ==
    /\ drill[d].at = "selecting" /\ MayRun(d)
    /\ LET want == drill[d].want IN
         IF PairsRaise(want) THEN Ended(d, drill[d], "could not run")
         ELSE IF PairsOf(want) = <<>> THEN Ended(d, drill[d], "nothing to fire")
         ELSE /\ Now(d, [drill[d] EXCEPT !.at = "building", !.pairs = PairsOf(want)])
              /\ UNCHANGED lock
    /\ UNCHANGED <<wire, cards, faults>>

\* _build_demos: a pair that cannot be built is named, the others are fired.
Build(d) ==
    LET r == drill[d]
        next == r.pairs[Len(r.demos) + Cardinality(r.failures) + 1] IN
    /\ r.at = "building"
    /\ \E does \in MayDo[next[1]] :
         LET built == Built(next, does)
             after == IF built = <<>> THEN [r EXCEPT !.failures = @ \cup {next}]
                      ELSE [r EXCEPT !.demos = @ \o built]
         IN  Now(d, IF Len(after.demos) + Cardinality(after.failures) < Len(r.pairs) THEN after
                    ELSE [after EXCEPT !.at = "connecting"])
    /\ UNCHANGED <<lock, wire, cards, faults>>

\* publish_demo_signals: nothing to publish is published without the broker.
ConnectBroker(d) ==
    LET r == drill[d] IN
    /\ r.at = "connecting"
    /\ \/ r.demos = <<>> /\ Ended(d, r, "result") /\ UNCHANGED faults
       \/ r.demos # <<>> /\ Now(d, [r EXCEPT !.at = "publishing"])
          /\ UNCHANGED <<lock, faults>>
       \/ r.demos # <<>> /\ Fault /\ Ended(d, r, "could not run")
    /\ UNCHANGED <<wire, cards>>

\* An envelope that fails does not discard the ones before it.
Publish(d) ==
    LET r == drill[d]
        demo == r.demos[Len(r.deliveries) + 1] IN
    /\ r.at = "publishing" /\ Len(r.deliveries) < Len(r.demos)
    /\ \/ /\ wire' = [wire EXCEPT ![d] = Append(@, [drill |-> d, pair |-> demo.pair])]
          /\ Now(d, [r EXCEPT !.deliveries = Append(@, [demo |-> demo, error |-> "none"])])
          /\ UNCHANGED faults
       \/ /\ Fault /\ UNCHANGED wire
          /\ Now(d, [r EXCEPT !.deliveries = Append(@, [demo |-> demo, error |-> "publish"])])
    /\ UNCHANGED <<lock, cards>>

\* A slip: a flush that fails is logged only.
BugInDoubt(deliveries) == deliveries

\* with_error: a flush that fails leaves every delivery in doubt.
InDoubt(deliveries) ==
    [i \in DOMAIN deliveries |->
        IF deliveries[i].error = "none" THEN [deliveries[i] EXCEPT !.error = "unflushed"]
        ELSE deliveries[i]]

\* The flush waits until everything left; the connection is closed after it.
FlushBroker(d) ==
    LET r == drill[d] IN
    /\ r.at = "publishing" /\ Len(r.deliveries) = Len(r.demos)
    /\ \/ wire[d] = <<>> /\ Ended(d, r, "result") /\ UNCHANGED faults
       \/ Fault /\ Ended(d, [r EXCEPT !.deliveries = InDoubt(@)], "result")
    /\ wire' = [wire EXCEPT ![d] = <<>>]
    /\ UNCHANGED cards

-----------------------------------------------------------------------------
(* The connection to the broker: envelopes leave in order; those on a      *)
(* connection that is lost may be gone, and the client connects again.     *)
Leaves(d) ==
    /\ wire[d] # <<>>
    /\ cards' = Append(cards, Head(wire[d]))
    /\ wire' = [wire EXCEPT ![d] = Tail(@)]
    /\ UNCHANGED <<drill, lock, faults>>

LinkDrops(d) ==
    /\ drill[d].at = "publishing" /\ Fault
    /\ wire' = [wire EXCEPT ![d] = <<>>]
    /\ Now(d, [drill[d] EXCEPT !.cut = TRUE])
    /\ UNCHANGED <<lock, cards>>

Wants == [name : {"all"} \cup Names, symbol : {"any"} \cup UNION {Range(SymbolsOf[n]) : n \in Names}]

Next ==
    \E d \in Drills :
        \/ \E name \in {"all"} \cup Mounted \cup Names : AskDemo(d, name)
        \/ \E want \in Wants : RunDemo(d, want)
        \/ TakeLock(d) \/ Select(d) \/ Build(d) \/ ConnectBroker(d) \/ Publish(d) \/ FlushBroker(d)
        \/ Leaves(d) \/ LinkDrops(d)

Spec == Init /\ [][Next]_drillVars

-----------------------------------------------------------------------------
CardsOf(d) == SelectSeq(cards, LAMBDA c : c.drill = d)
Times(d, pair) == Len(SelectSeq(cards, LAMBDA c : c.drill = d /\ c.pair = pair))

(* A report is what happened: every pair of the drill is in it once; one   *)
(* it calls delivered has shown its card once, unless the connection was   *)
(* lost and found again; one that did not build or was not published has   *)
(* shown none, nor has any of a drill that could not run or that was       *)
(* refused (demo_signal.py publish_demo_signals, presenters.demo_result).  *)
ReportIsTrue ==
    \A d \in Drills :
        LET r == drill[d] IN
        r.at = "done" =>
            IF r.report # "result" THEN CardsOf(d) = <<>>
            ELSE /\ \A pair \in Range(r.pairs) :
                      Len(SelectSeq(r.deliveries, LAMBDA x : x.demo.pair = pair))
                        + Cardinality(r.failures \cap {pair}) = 1
                 /\ \A x \in Range(r.deliveries) :
                      /\ x.error = "none" /\ ~r.cut => Times(d, x.demo.pair) = 1
                      /\ x.error = "publish" => Times(d, x.demo.pair) = 0
                 /\ \A pair \in r.failures : Times(d, pair) = 0

(* Two drills of the bot never mix their cards: all of one come before any *)
(* of the other (engine_client.py _demo_lock).                             *)
DrillsDoNotMix ==
    \A i, j, k \in DOMAIN cards :
        i < j /\ j < k /\ cards[i].drill = cards[k].drill /\ drill[cards[i].drill].by = "bot"
            /\ drill[cards[j].drill].by = "bot"
        => cards[j].drill = cards[i].drill
================================================================================

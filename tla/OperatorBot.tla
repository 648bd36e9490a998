------------------------------- MODULE OperatorBot -------------------------------
(***************************************************************************)
(* The Telegram bot as its operators use it (handlers.py, access.py,       *)
(* pagination.py) beside the runner that answers it (engine_client.py,     *)
(* runner.py).  /flat asks before it closes, and the question may be       *)
(* answered at any later moment, twice, or by another operator: its button *)
(* carries the scope.  /closed pages through cycles that are ending while  *)
(* it is read, each page by a count and a select.  /warmup and /flush take *)
(* symbols only.                                                           *)
(*                                                                         *)
(* A name is the sequence of its parts between colons.  How a FLAT is      *)
(* built, sent and settled is OrphanSettlement: here a cycle of the scope  *)
(* is closed or refused.  The switches of the bot are OperatorSwitches,    *)
(* its drill is DemoDrill.                                                 *)
(***************************************************************************)
EXTENDS Integers, Sequences, FiniteSets, SequencesExt

CONSTANTS
    Users, Operators,
    Symbols,        \* the planned symbols
    Cycles,         \* cycle -> [strategy, symbol]
    TooLong,        \* names whose button passes the 64 bytes of Telegram
    PerPage,        \* CLOSED_PER_PAGE
    MaxMessages, MaxPresses, MaxFaults  \* bounds

VARIABLES
    open,       \* the rows of open_positions
    ended,      \* the delivered cycles without a row, newest signal first
    runner,     \* "up" or "down"
    blocked,    \* cycles whose pair refuses a FLAT for now
    messages,   \* what the bot has sent, in order
    flats,      \* confirmations under way: [msg, press, scope, at, awaited]
    reading,    \* pages being read: [msg, offset, total, kept]
    closedBy,   \* cycle -> the message whose button closed it
    windows,    \* symbols whose window ingestion holds
    presses, faults

botVars == <<open, ended, runner, blocked, messages, flats, reading, closedBy, windows,
             presses, faults>>

Everything == [kind |-> "a", name |-> <<>>]
Strategies == {Cycles[c].strategy : c \in DOMAIN Cycles}
Arguments == {<<"all">>, <<"typo">>} \cup Symbols \cup Strategies

-----------------------------------------------------------------------------
(* Scopes: all, a symbol or a strategy, the symbol first.                  *)

\* _known_names: the strategies come from the running runner only.
KnownStrategies == IF runner = "up" THEN Strategies ELSE {}

\* _as_scope: none for an argument that is no name of the book.
AsScope(argument) ==
    IF argument = <<"all">> THEN {Everything}
    ELSE IF argument \in Symbols THEN {[kind |-> "s", name |-> argument]}
    ELSE IF argument \in KnownStrategies THEN {[kind |-> "t", name |-> argument]}
    ELSE {}

\* _matches of a row, and the same test in the runner.
Matches(c, scope) ==
    \/ scope.kind = "a"
    \/ scope.kind = "s" /\ Cycles[c].symbol = scope.name
    \/ scope.kind = "t" /\ Cycles[c].strategy = scope.name

\* _flat_keyboard: what the button carries, between its colons.
Encoded(scope) == <<"flat", "ok", scope.kind>> \o scope.name

\* A slip: the name is the one field after the third colon.
BugScopeFromCallback(data) ==
    IF data[3] = "a" THEN Everything ELSE [kind |-> data[3], name |-> <<data[4]>>]

\* _scope_from_callback splits at three colons: the rest is the name.
ScopeFromCallback(data) ==
    IF data[3] = "a" THEN Everything ELSE [kind |-> data[3], name |-> SubSeq(data, 4, Len(data))]

-----------------------------------------------------------------------------
(* What the bot sends: an answer, a question, or a page of /closed.        *)
Answer(text) == [kind |-> "answer", text |-> text]
Question(scope) == [kind |-> "question", text |-> "asked", scope |-> scope, data |-> Encoded(scope)]
NoPage == [kind |-> "page", offset |-> 0, total |-> 0, began |-> {}, seen |-> {}, whole |-> FALSE,
           raced |-> FALSE]

Says(message) == Len(messages) < MaxMessages /\ messages' = Append(messages, message)
Edits(i, text) == messages' = [messages EXCEPT ![i].text = text]
IsOperator(user) == user \in Operators
Press == presses < MaxPresses /\ presses' = presses + 1
Fault == faults < MaxFaults /\ faults' = faults + 1

Init ==
    /\ open = DOMAIN Cycles
    /\ ended = <<>> /\ closedBy = [c \in {} |-> 0]
    /\ runner = "up" /\ blocked = {}
    /\ messages = <<>> /\ flats = {} /\ reading = {}
    /\ windows = Symbols
    /\ presses = 0 /\ faults = 0

\* A row goes; the cycle is listed where its last signal puts it, which is
\* not the front when another was signalled later and confirmed sooner.
Ends(c) ==
    /\ open' = open \ {c}
    /\ \E k \in 1..(Len(ended) + 1) : ended' = InsertAt(ended, k, c)
    /\ reading' = {[r EXCEPT !.raced = TRUE] : r \in reading}

-----------------------------------------------------------------------------
(* /flat: ask_flat, then confirm_flat or cancel_flat.                      *)

\* list_open answers with nothing when Postgres does not.
AskFlat(user, argument) ==
    /\ IsOperator(user)
    /\ \/ AsScope(argument) = {} /\ Says(Answer("usage")) /\ UNCHANGED faults
       \/ \E scope \in AsScope(argument) :
            \/ Fault /\ Says(Answer("nothing is open"))
            \/ /\ UNCHANGED faults
               /\ IF \E c \in open : Matches(c, scope)
                  THEN scope.name \notin TooLong /\ Says(Question(scope))
                  ELSE Says(Answer("nothing is open"))
    /\ UNCHANGED <<open, ended, runner, blocked, flats, reading, closedBy, windows, presses>>

\* The buttons of a message that was edited may still be on their way.
Asked(i) == i \in DOMAIN messages /\ messages[i].kind = "question"

ConfirmFlat(user, i) ==
    /\ Asked(i) /\ Press /\ IsOperator(user)
    /\ flats' = flats \cup {[msg |-> i, press |-> presses, awaited |-> TRUE,
                             at |-> IF runner = "up" THEN "sent" ELSE "lost",
                             scope |-> ScopeFromCallback(messages[i].data)]}
    /\ UNCHANGED <<open, ended, runner, blocked, messages, reading, closedBy, windows, faults>>

CancelFlat(user, i) ==
    /\ Asked(i) /\ Press /\ IsOperator(user)
    /\ Edits(i, "cancelled")
    /\ UNCHANGED <<open, ended, runner, blocked, flats, reading, closedBy, windows, faults>>

\* The runner answers one request at a time, in their order: _on_control_message.
TakeFlat(f) ==
    /\ runner = "up" /\ f.at = "sent"
    /\ \A g \in flats \ {f} : g.at # "closing" /\ (g.at = "sent" => g.press > f.press)
    /\ flats' = (flats \ {f}) \cup {[f EXCEPT !.at = "closing"]}
    /\ UNCHANGED <<open, ended, runner, blocked, messages, reading, closedBy, windows, presses,
                   faults>>

\* _flat_on_request: a cycle of the scope that no _flat_refusal keeps.
CloseCycle(f, c) ==
    /\ runner = "up" /\ f.at = "closing" /\ c \in open \ blocked /\ Matches(c, f.scope)
    /\ Ends(c)
    /\ closedBy' = [d \in DOMAIN closedBy \cup {c} |-> IF d = c THEN f.msg ELSE closedBy[d]]
    /\ UNCHANGED <<runner, blocked, messages, flats, windows, presses, faults>>

\* The reply goes to whoever still waits for it.
ReplyFlat(f) ==
    /\ runner = "up" /\ f.at = "closing"
    /\ \A c \in open \ blocked : ~Matches(c, f.scope)
    /\ IF f.awaited THEN Edits(f.msg, "result") ELSE UNCHANGED messages
    /\ flats' = flats \ {f}
    /\ UNCHANGED <<open, ended, runner, blocked, reading, closedBy, windows, presses, faults>>

\* Nobody answered in time; a request that was sent is still worked off.
Unanswered(f) ==
    /\ f.awaited /\ Fault
    /\ Edits(f.msg, "no runner")
    /\ flats' = (flats \ {f}) \cup (IF f.at = "lost" THEN {} ELSE {[f EXCEPT !.awaited = FALSE]})
    /\ UNCHANGED <<open, ended, runner, blocked, reading, closedBy, windows, presses>>

-----------------------------------------------------------------------------
(* /closed: show_closed and page_closed.                                   *)

\* The count of one page: of a new message (0) or of a button of message i.
CountClosed(user, i, offset) ==
    /\ IsOperator(user)
    /\ IF i = 0 THEN Says(NoPage) /\ offset = 0 ELSE UNCHANGED messages
    /\ reading' = reading \cup {[msg |-> IF i = 0 THEN Len(messages') ELSE i, press |-> presses,
                                 offset |-> offset, total |-> Len(ended), raced |-> FALSE]}
    /\ UNCHANGED <<open, ended, runner, blocked, flats, closedBy, windows, faults>>

ShowClosed(user) == CountClosed(user, 0, 0) /\ UNCHANGED presses

\* A slip at a boundary: one page too few.
BugHasNext(page) == page.offset + PerPage < page.total - 1

\* pagination_row.
HasNext(page) == page.offset + PerPage < page.total
Buttons(page) ==
    (IF page.offset > 0 THEN {IF page.offset > PerPage THEN page.offset - PerPage ELSE 0} ELSE {})
    \cup (IF HasNext(page) THEN {page.offset + PerPage} ELSE {})

PageClosed(user, i) ==
    /\ i \in DOMAIN messages /\ messages[i].kind = "page"
    /\ \A r \in reading : r.msg # i
    /\ Press
    /\ \E offset \in Buttons(messages[i]) : CountClosed(user, i, offset)

\* closed_cycles and the edit: [], 0 when Postgres fails.
RowsAt(offset) == {ended[k] : k \in (offset + 1)..(offset + PerPage) \cap DOMAIN ended}

ShowPage(r) ==
    /\ LET before == messages[r.msg]
           began == IF before.seen = {} THEN Range(ended) ELSE before.began IN
         \/ /\ messages' = [messages EXCEPT ![r.msg] =
                  [kind |-> "page", offset |-> r.offset, total |-> r.total, whole |-> TRUE,
                   began |-> began, seen |-> before.seen \cup RowsAt(r.offset),
                   raced |-> before.raced \/ r.raced]]
            /\ UNCHANGED faults
         \/ /\ Fault
            /\ messages' = [messages EXCEPT ![r.msg].offset = r.offset, ![r.msg].total = 0,
                                            ![r.msg].whole = FALSE]
    /\ reading' = reading \ {r}
    /\ UNCHANGED <<open, ended, runner, blocked, flats, closedBy, windows, presses>>

-----------------------------------------------------------------------------
(* /warmup and /flush of all or of one symbol: _resolve_symbols, and the   *)
(* request to ingestion.                                                   *)
NamedSymbols(argument) ==
    IF argument = <<"all">> THEN Symbols ELSE {argument} \cap Symbols

RequestWindows(user, argument, verb) ==
    /\ IsOperator(user)
    /\ LET named == NamedSymbols(argument) IN
         \/ /\ Says(Answer(IF named = {} THEN "usage" ELSE "result"))
            /\ windows' = IF verb = "flush" THEN windows \ named ELSE windows \cup named
            /\ UNCHANGED faults
         \/ /\ named # {} /\ Fault /\ Says(Answer("no ingestion"))
            /\ UNCHANGED windows
    /\ UNCHANGED <<open, ended, runner, blocked, flats, reading, closedBy, presses>>

-----------------------------------------------------------------------------
(* The rest of the system: a cycle ends by itself, a pair is blocked or    *)
(* free again, the runner stops and starts.                                *)
CycleEnds(c) ==
    /\ c \in open /\ runner = "up" /\ Ends(c)
    /\ UNCHANGED <<runner, blocked, messages, flats, closedBy, windows, presses, faults>>

PairChanges(c) ==
    /\ c \in open /\ Fault
    /\ blocked' = IF c \in blocked THEN blocked \ {c} ELSE blocked \cup {c}
    /\ UNCHANGED <<open, ended, runner, messages, flats, reading, closedBy, windows, presses>>

\* What it was asked is lost with it; the bot waits for its time-out.
RunnerStops ==
    /\ runner = "up" /\ Fault /\ runner' = "down"
    /\ flats' = {[f EXCEPT !.at = "lost"] : f \in {g \in flats : g.awaited}}
    /\ UNCHANGED <<open, ended, blocked, messages, reading, closedBy, windows, presses>>

RunnerStarts ==
    /\ runner = "down" /\ runner' = "up"
    /\ UNCHANGED <<open, ended, blocked, messages, flats, reading, closedBy, windows, presses,
                   faults>>

Next ==
    \/ \E user \in Users : \E argument \in Arguments :
          \/ AskFlat(user, argument)
          \/ \E verb \in {"warmup", "flush"} : RequestWindows(user, argument, verb)
    \/ \E user \in Users :
          \/ ShowClosed(user)
          \/ \E i \in DOMAIN messages :
                ConfirmFlat(user, i) \/ CancelFlat(user, i) \/ PageClosed(user, i)
    \/ \E f \in flats : \/ TakeFlat(f) \/ ReplyFlat(f) \/ Unanswered(f)
                        \/ \E c \in open : CloseCycle(f, c)
    \/ \E r \in reading : ShowPage(r)
    \/ \E c \in open : CycleEnds(c) \/ PairChanges(c)
    \/ RunnerStops \/ RunnerStarts

Spec == Init /\ [][Next]_botVars

-----------------------------------------------------------------------------
(* A cycle an operator closed is one of the scope that the question he     *)
(* answered names, whenever and however often it was answered              *)
(* (handlers.py ask_flat, confirm_flat).                                   *)
FlatIsWhatWasAsked ==
    \A c \in DOMAIN closedBy : Matches(c, messages[closedBy[c]].scope)

(* Who pages through /closed until there is no Next button has seen every  *)
(* cycle that had ended when he began, however many end meanwhile, unless  *)
(* one ended between the count and the select of one page                  *)
(* (repository.py closed_cycles, pagination.py pagination_row).            *)
PagesMissNothing ==
    \A i \in DOMAIN messages :
        messages[i].kind = "page" /\ messages[i].whole /\ ~messages[i].raced
            /\ ~HasNext(messages[i])
        => messages[i].began \subseteq messages[i].seen
=============================================================================

--------------------------- MODULE StrategyMounts ---------------------------
(***************************************************************************)
(* How a strategy gets from a mounted repository to a slot of the runner.  *)
(* The mount step audits one repository and writes its verdicts into a     *)
(* record (mount.py, mount_manifest.py); a start of the runner audits the  *)
(* whole directory against the mapping table (preflight.py, auditor.py,    *)
(* contract.py) and then reads the directory again, under the record, to   *)
(* build its slots (plugin_loader.py, runner.py).  Repositories, table and *)
(* record are files that others change between any two of these steps.     *)
(***************************************************************************)
EXTENDS StrategySettings, Sequences, FiniteSetsExt

CONSTANTS
    Repos,      \* the repositories' names, numbered in sorted order
    Skipped,    \* SKIPPED_REPOSITORIES
    Contents,   \* what a repository may hold, see Gone
    Tables,     \* what the mapping file may hold, see NoTable
    Mode,       \* QTE_RUNNER__AUDIT_ON_START
    MaxEdits    \* bound on changes of repositories and table

VARIABLES
    contents,   \* repository -> what its directory holds now
    table,      \* the mapping file
    record,     \* strategies.toml: [reads, of: repository -> alias -> verdict]
    engine,     \* "stopped", "audited" (the audit let the start go on), "running"
    stale,      \* repositories that changed since the audit of this start
    slots,      \* the pairs that run
    edits

mountVars == <<contents, table, record, engine, stale, slots, edits>>

-----------------------------------------------------------------------------
(* One class: strategy_base.py.  layers is its method resolution order;    *)
(* each layer declares some members abstract and defines others.           *)

Required == {"entry", "exit"}
Optional == {"re_stop"}
SignalMethods == Required \cup Optional
Hooks == {"on_candle_closed"}

Has(class, m) == \E i \in DOMAIN class.layers :
                    m \in class.layers[i].abstract \cup class.layers[i].defines

Owner(class, m) == CHOOSE i \in DOMAIN class.layers :
    /\ m \in class.layers[i].abstract \cup class.layers[i].defines
    /\ \A j \in 1..(i - 1) :
          m \notin class.layers[j].abstract \cup class.layers[j].defines

IsAbstract(class) == \E m \in SignalMethods \cup Hooks :
    Has(class, m) /\ m \in class.layers[Owner(class, m)].abstract

DefinesSignalMethod(class, m) ==
    /\ Has(class, m)
    /\ LET layer == class.layers[Owner(class, m)]
       IN  m \in layer.defines /\ layer.abstract \cap Required = {}

Drivable(class) ==
    ~IsAbstract(class) /\ class.attributes /\ \A m \in Hooks : Has(class, m)

LooksLikeAStrategy(class) ==
    /\ ~IsAbstract(class)
    /\ Cardinality({m \in Hooks \cup SignalMethods : Has(class, m)}) >= 2

-----------------------------------------------------------------------------
(* The findings of contract.py about one class.                            *)

Implemented(class, ms) == {m \in ms : DefinesSignalMethod(class, m)}

CheckSignatures(class, arity) ==
    class.arity = arity /\ Implemented(class, SignalMethods) # {}

ClassErrors(class) ==
    {f \in {"undrivable", "missing-signal-method", "signal-method-arity",
            "bad-timeframe", "bad-warmup", "not-instantiable"} :
        CASE f = "undrivable" -> ~Drivable(class)
          [] f = "missing-signal-method" -> Implemented(class, Required) # Required
          [] f = "signal-method-arity" -> CheckSignatures(class, "short")
          [] f = "bad-timeframe" -> ~class.timeframe
          [] f = "bad-warmup" -> class.warmup = Junk
          [] f = "not-instantiable" -> IsAbstract(class) \/ ~class.constructs}

ClassWarnings(class) ==
    {f \in {"unnamed", "signal-method-uninspectable", "optional-only"} :
        CASE f = "unnamed" -> ~class.named
          [] f = "signal-method-uninspectable" -> CheckSignatures(class, "unread")
          [] f = "optional-only" -> /\ Implemented(class, Optional) # {}
                                    /\ Implemented(class, Required) = {}}

-----------------------------------------------------------------------------
(* Reading the directory: plugin_loader.py.  A repository holds a number   *)
(* of manifests; the manifest imports and answers its hook or does not,    *)
(* offers classes by alias, keeps aliases out of service through a switch, *)
(* and declares settings.  loose are the classes a scan of its other files *)
(* would find.  A candidate is one class one repository offered.           *)

Gone == [manifests |-> -1]
Mounted == {r \in Repos : contents[r] # Gone}

Empty == [a \in {} |-> 0]

\* MountManifest.load under read_mount_manifest: what does not read disables
\* nothing.
Recorded == IF record.reads THEN record.of ELSE Empty

\* MountManifest.verdicts: flattened by alias, the last repository wins.
Verdict(alias) ==
    LET by == {r \in DOMAIN Recorded : alias \in DOMAIN Recorded[r]}
    IN  IF by = {} THEN TRUE ELSE Recorded[Max(by)][alias]

DisabledRepositories ==
    {r \in DOMAIN Recorded : /\ DOMAIN Recorded[r] # {}
                             /\ \A a \in DOMAIN Recorded[r] : ~Recorded[r][a]}

PassingRepositories ==
    {r \in DOMAIN Recorded : \E a \in DOMAIN Recorded[r] : Recorded[r][a]}

BlockedMounts(honoured) ==
    (Skipped \cup (IF honoured THEN DisabledRepositories ELSE {})) \cap Mounted

HookAnswers(c) == c.manifests = 1 /\ c.imports /\ c.switch # Junk

\* _manifest_disabled: nothing without the hook, and what it lists otherwise.
SwitchedOff(c) == IF HookAnswers(c) /\ c.switch # Absent THEN c.switch ELSE {}

\* _manifest_settings: Refused is a None for every alias.
Declared(c, alias) ==
    LET read == ParseTable(c.settings)
    IN  IF IsRefused(read) THEN Refused
        ELSE IF alias \in DOMAIN read THEN read[alias] ELSE NoWeekendFlat

\* A slip the audit of a team would look for: only a manifest that offered
\* something speaks for its repository, and the scan takes the others.
BugClaimed(r) == LET c == contents[r] IN HookAnswers(c)

\* The repositories no scan may enter: the ones that have a manifest.
Claimed(r) == contents[r].manifests > 0

Candidates(repos) ==
    UNION {LET c == contents[r] IN
        {[name |-> a, class |-> c.offers[a], repo |-> r, via |-> "manifest",
          settings |-> Declared(c, a)] :
            a \in IF HookAnswers(c) THEN DOMAIN c.offers \ SwitchedOff(c) ELSE {}}
        \cup
        {[name |-> a, class |-> c.loose[a], repo |-> r, via |-> "scan",
          settings |-> NoWeekendFlat] :
            a \in {b \in DOMAIN c.loose : ~Claimed(r) /\ LooksLikeAStrategy(c.loose[b])}}
        : r \in repos}

DisabledByRepository(repos) == UNION {SwitchedOff(contents[r]) : r \in repos}

\* collect: two manifests in one repository raise.
Raises(repos) == \E r \in repos : contents[r].manifests > 1

\* collect: every LoadFailure it keeps.
Failures(repos) ==
    {r \in repos : LET c == contents[r] IN
        c.manifests = 1 /\ \/ ~HookAnswers(c)
                           \/ SwitchedOff(c) \cap DOMAIN c.offers # {}
                           \/ IsRefused(ParseTable(c.settings))}

\* discover, the last part of it: what the engine may run.
Discovered(repos) ==
    {k \in Candidates(repos) : /\ Drivable(k.class)
                               /\ ~IsRefused(k.settings)
                               /\ Verdict(k.name)}

-----------------------------------------------------------------------------
(* The mapping table: mapping.py.  A table is NoTable, Junk, or [symbols:  *)
(* symbol -> [enabled, names, params], names, defaults].                   *)

NoTable == Absent

NoParams == [flat |-> Absent, warmup |-> Absent]
ParamsAt(f, a) == IF a \in DOMAIN f THEN f[a] ELSE NoParams
Over(p, q) == [k \in DOMAIN p |-> IF p[k] # Absent THEN p[k] ELSE q[k]]

\* _parse: the pairs of the symbols that are switched on.
Pairings(t) ==
    UNION {LET e == t.symbols[s]
           IN  {[symbol |-> s, alias |-> a,
                 params |-> Over(ParamsAt(e.params, a), ParamsAt(t.defaults, a))] :
                    a \in IF e.names = {} THEN t.names ELSE e.names}
           : s \in {x \in DOMAIN t.symbols : t.symbols[x].enabled}}

-----------------------------------------------------------------------------
(* The audit of a directory: StrategyAuditor.run.                          *)

DirectoryErrors(repos, t) ==
    LET found == Candidates(repos)
        names == {k.name : k \in found}
    IN  \/ Failures(repos) # {}
        \/ \E j, k \in found : j # k /\ j.name = k.name
        \/ t = Junk
        \/ /\ t \notin {NoTable, Junk}
           /\ \E p \in Pairings(t) : p.alias \notin names

DirectoryWarnings(repos, t) ==
    \/ \E k \in Candidates(repos) : k.via = "scan" /\ contents[k.repo].manifests = 0
    \/ /\ t \notin {NoTable, Junk}
       /\ \E k \in Candidates(repos) : \A p \in Pairings(t) : p.alias # k.name

AuditErrors(repos, t) ==
    \/ Raises(repos)
    \/ \E k \in Candidates(repos) : ClassErrors(k.class) # {}
    \/ DirectoryErrors(repos, t)

AuditWarnings(repos, t) ==
    /\ ~Raises(repos)
    /\ \/ \E k \in Candidates(repos) : ClassWarnings(k.class) # {}
       \/ DirectoryWarnings(repos, t)

\* run_preflight_audit: whether the mode refuses what the audit found.
Blocking(repos, t) ==
    /\ Mode \notin {"off", "warn"}
    /\ AuditErrors(repos, t) \/ (Mode = "strict" /\ AuditWarnings(repos, t))

-----------------------------------------------------------------------------
Init == /\ contents \in [Repos -> Contents]
        /\ table \in Tables
        /\ record = [reads |-> TRUE, of |-> Empty]
        /\ engine = "stopped" /\ stale = {} /\ slots = {} /\ edits = 0

\* An author or an operator changes a repository or the table.
Change(r) == /\ edits < MaxEdits
             /\ \E c \in Contents \ {contents[r]} : contents' = [contents EXCEPT ![r] = c]
             /\ stale' = stale \cup {r} /\ edits' = edits + 1
             /\ UNCHANGED <<table, record, engine, slots>>

Remap == /\ edits < MaxEdits
         /\ table' \in Tables \ {table}
         /\ edits' = edits + 1
         /\ UNCHANGED <<contents, record, engine, stale, slots>>

\* record_repository: the audit of that repository alone, its root read as a
\* directory of its own, and the record of all with its entry replaced.
Verdicts(r) ==
    LET found == IF Raises({r}) THEN {} ELSE Candidates({r})
    IN  [a \in {k.name : k \in found} |->
            \A k \in found : k.name = a => ClassErrors(k.class) = {}]

WithRepository(r) ==
    [q \in DOMAIN Recorded \cup {r} |-> IF q = r THEN Verdicts(r) ELSE Recorded[q]]

Mount(r) == /\ r \in Mounted
            /\ record' = [reads |-> TRUE, of |-> WithRepository(r)]
            /\ UNCHANGED <<contents, table, engine, stale, slots, edits>>

\* The write of the record is cut short: the file is there and does not read.
MountBreaks == /\ Mounted # {} /\ edits < MaxEdits
               /\ record' = [reads |-> FALSE, of |-> Empty]
               /\ edits' = edits + 1
               /\ UNCHANGED <<contents, table, engine, stale, slots>>

\* --ensure: an empty record in the place of one that does not read.
Ensure == /\ record' = [reads |-> TRUE, of |-> Recorded]
          /\ UNCHANGED <<contents, table, engine, stale, slots, edits>>

\* The first step of a start.  A refusal leaves the engine stopped.
Preflight == /\ engine = "stopped"
             /\ Mode # "off" => ~Blocking(Mounted \ Skipped, table)
             /\ engine' = "audited" /\ stale' = {}
             /\ UNCHANGED <<contents, table, record, slots, edits>>

\* _build_slots: the candidates that may run, each on the symbols the table
\* sends it to, or on its own without a table.
SlotsOf(found) ==
    UNION {LET pairs == IF table = NoTable
                        THEN {[symbol |-> s, alias |-> k.name, params |-> NoParams] :
                                 s \in k.class.symbols}
                        ELSE {p \in Pairings(table) : p.alias = k.name}
           IN  {[symbol |-> p.symbol, alias |-> k.name, repo |-> k.repo, class |-> k.class,
                 flat |-> ResolveWeekendFlat(k.settings, p.params.flat),
                 warmup |-> ResolveWarmup(k.class.warmup, k.class.history, p.params.warmup)] :
                    p \in pairs}
           : k \in found}

Built == SlotsOf(Discovered(Mounted \ BlockedMounts(TRUE)))

\* A table that does not parse, two manifests, a switch or a warm-up that is
\* refused, a constructor that raises and an empty book all take the start
\* down.
Fails == \/ table = Junk
         \/ Raises(Mounted \ BlockedMounts(TRUE))
         \/ Built = {}
         \/ \E s \in Built : IsRefused(s.flat) \/ IsRefused(s.warmup) \/ ~s.class.constructs

Load == /\ engine = "audited"
        /\ IF Fails THEN engine' = "stopped" /\ slots' = {}
                    ELSE engine' = "running" /\ slots' = Built
        /\ UNCHANGED <<contents, table, record, stale, edits>>

Stop == /\ engine = "running"
        /\ engine' = "stopped" /\ slots' = {}
        /\ UNCHANGED <<contents, table, record, stale, edits>>

Next == \/ \E r \in Repos : Change(r) \/ Mount(r)
        \/ Remap \/ MountBreaks \/ Ensure
        \/ Preflight \/ Load \/ Stop

Spec == Init /\ [][Next]_mountVars
-----------------------------------------------------------------------------
(* A start runs no strategy that its own repository keeps out of service,  *)
(* that the newest record of its repository alone rejects, or whose        *)
(* declared market policy did not read; under a mode that refuses errors   *)
(* it runs none the audit of this start would have rejected, unless the    *)
(* repository changed after that audit (plugin_loader.py collect/discover, *)
(* preflight.py).                                                          *)
RunsWhatIsFit ==
    engine = "audited" /\ engine' = "running" =>
        \A s \in slots' : LET c == contents[s.repo] IN
            /\ s.repo \notin Skipped
            /\ c.manifests > 0 => s.alias \notin SwitchedOff(c)
            /\ c.manifests > 0 => c.switch # Junk /\ ~IsRefused(ParseTable(c.settings))
            /\ (/\ {r \in DOMAIN Recorded : s.alias \in DOMAIN Recorded[r]} = {s.repo})
                  => Recorded[s.repo][s.alias]
            /\ Mode \in {"error", "strict"} /\ s.repo \notin stale
                  => ClassErrors(s.class) = {}
=============================================================================

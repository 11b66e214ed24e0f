---- MODULE MetricCatalog ----
(***************************************************************************)
(* Which metrics are collected and which are stored:                       *)
(* internal/metrics/metrics.go, as cmd/catmonitor/main.go configures it.   *)
(*                                                                         *)
(* A key is a pair <<component, name>>; a catalog maps the keys it knows   *)
(* to their priority and static flag.  A yaml file is a record: readable   *)
(* or not, parsable or not, and the catalog it spells.  Chinese names and  *)
(* units, which nothing here reads, are left out.                          *)
(***************************************************************************)
EXTENDS Naturals, Sequences, SequencesExt

Absent == [state |-> "absent", entries |-> << >>]
Broken == [state |-> "broken", entries |-> << >>]
Listing(entries) == [state |-> "ok", entries |-> entries]

\* The comparison lower-cases the word; anything unknown counts as low.
priorityValue(p) == CASE p \in {"High", "high"} -> 2 [] p \in {"Medium", "medium"} -> 1 [] OTHER -> 0

\* A later entry replaces what it spells out; static, once set, stays.
mergeSpec(base, ov) ==
    [priority |-> IF ov.priority = "" THEN base.priority ELSE ov.priority,
     static |-> base.static \/ ov.static]

applyCatalog(cat, entries) ==
    [k \in DOMAIN cat \cup DOMAIN entries |->
        IF k \notin DOMAIN entries THEN cat[k]
        ELSE IF k \in DOMAIN cat THEN mergeSpec(cat[k], entries[k])
        ELSE entries[k]]

\* Among the features that list k the highest priority wins, the first of
\* equals; one static flag is enough.
StrongestWins(files, k) ==
    LET listing == {i \in DOMAIN files : k \in DOMAIN files[i].entries}
        spec(i) == files[i].entries[k]
        best == CHOOSE i \in listing : \A j \in listing :
                    \/ priorityValue(spec(i).priority) > priorityValue(spec(j).priority)
                    \/ priorityValue(spec(i).priority) = priorityValue(spec(j).priority) /\ i <= j
    IN  [priority |-> spec(best).priority, static |-> \E i \in listing : spec(i).static]

\* MUTANT: the feature that comes last overrides the others.
LastWins(files, k) ==
    LET listing == {i \in DOMAIN files : k \in DOMAIN files[i].entries}
        last == CHOOSE i \in listing : \A j \in listing : j <= i
    IN  files[last].entries[k]

Override(files, k) == StrongestWins(files, k)

Listed(files) == UNION {DOMAIN files[i].entries : i \in DOMAIN files}

\* One file that does not parse, and no feature is applied; files that cannot
\* be read are passed over.
LoadFeatureOverrides(cat, files) ==
    IF \E i \in DOMAIN files : files[i].state = "broken" THEN cat
    ELSE applyCatalog(cat, [k \in Listed(files) |-> Override(files, k)])

LoadModuleOverride(cat, file) ==
    IF file.state = "ok" THEN applyCatalog(cat, file.entries) ELSE cat

\* The scope is what readable and parsable features list; an empty one is off.
SetFeatureScope(files) == Listed(files)

(***************************************************************************)
(* The configuration a command runs with.  loadConfig takes the default    *)
(* catalog, the overrides and the scope of the enabled features; collect   *)
(* and the daemon then set the threshold and install the gate, health      *)
(* merges its own file and does neither.                                   *)
(***************************************************************************)
loadConfig(base, files) ==
    [cat |-> LoadFeatureOverrides(applyCatalog(<< >>, base.entries), files),
     scope |-> SetFeatureScope(files), threshold |-> 0, gated |-> FALSE]

Configured(command, base, files, own, minPriority) ==
    LET c == loadConfig(base, files)
    IN  IF command = "health"
        THEN [c EXCEPT !.cat = LoadModuleOverride(c.cat, own)]
        ELSE [c EXCEPT !.threshold = priorityValue(minPriority), !.gated = TRUE]

inScope(c, k) == c.scope = {} \/ k \in c.scope

\* Static metrics pass the threshold only when there is a scope.
IsWanted(c, k) ==
    /\ inScope(c, k)
    /\ \/ k \notin DOMAIN c.cat
       \/ priorityValue(c.cat[k].priority) >= c.threshold
       \/ c.scope /= {} /\ c.cat[k].static

\* Without the gate (health) everything is wanted.
AnyWanted(c, comp, names) == \/ ~c.gated
                             \/ \E n \in names : IsWanted(c, <<comp, n>>)

\* Without a scope the threshold plays no part and the words are compared as written.
Selected(c, k) ==
    IF k \notin DOMAIN c.cat \/ ~inScope(c, k) THEN inScope(c, k)
    ELSE \/ c.cat[k].static
         \/ IF c.scope /= {} THEN priorityValue(c.cat[k].priority) >= c.threshold
                             ELSE c.cat[k].priority \in {"High", "Medium"}

Filter(c, comp, names) == {n \in names : Selected(c, <<comp, n>>)}
====

------------------------------- MODULE MCLint -------------------------------
(***************************************************************************)
(* Three kinds of files: any two phases with blocks there or absent; one   *)
(* backfill with any batch query; a backfill and a gate of several sizes.  *)
(***************************************************************************)
EXTENDS Lint

Ph(name, sql, rollbackSQL, onFailure, batch, waitUntil) ==
    [name |-> name, sql |-> sql, rollbackSQL |-> rollbackSQL, onFailure |-> onFailure,
     batch |-> batch, waitUntil |-> waitUntil]

Query(lead, table, set, where, limits, orderBy) ==
    [lead |-> lead, table |-> table, set |-> set, where |-> where, limits |-> limits,
     orderBy |-> orderBy]

Batch(query, size, delay) == [query |-> query, size |-> size, delay |-> delay]

Set(col, from, value, spaced) == [col |-> col, from |-> from, value |-> value, spaced |-> spaced]
Cond(col, op, value, negated) == [col |-> col, op |-> op, value |-> value, negated |-> negated]

Plain == Query(FALSE, "events", <<Set("id", Nil, 1, TRUE)>>, {{Cond("id", "IS NULL", 0, FALSE)}},
               {"placeholder"}, FALSE)

MCColumns == {"id", "paid"}
MCEndsWith == {<<"paid", "id">>}
MCTables == [1 .. 2 -> [Columns -> 0 .. 3]]

Phases ==
    {Ph(name, sql, rollbackSQL, onFailure, batch, waitUntil) :
        name \in KnownNames \cup {"verify"}, sql \in {"none", "drop column"},
        rollbackSQL \in BOOLEAN, onFailure \in {"", "rollback", "abort"},
        batch \in {Nil, Batch(Plain, 1, 0)}, waitUntil \in {Nil, 1}}

LoaderFiles ==
    {[complete |-> TRUE, phases |-> <<Ph("expand", "add not null", TRUE, "", Nil, Nil), ph>>] :
        ph \in Phases}
    \cup {[complete |-> c, phases |-> <<>>] : c \in BOOLEAN}

Conds ==
    {Cond(col, "<>", 1, FALSE) : col \in Columns}
      \cup {Cond(col, op, IF op = "=" THEN 1 ELSE 0, negated) :
               col \in Columns, op \in {"IS NULL", "="}, negated \in BOOLEAN}

\* No WHERE, one alternative of at most two conditions, two of one each.
Wheres ==
    {{}} \cup {{all} : all \in kSubset(0, Conds) \cup kSubset(1, Conds) \cup kSubset(2, Conds)}
      \cup {{{c}, {d}} : c, d \in Conds}

Sets ==
    {<<>>} \cup {<<Set(col, Nil, value, TRUE)>> : col \in Columns, value \in 0 .. 2}
      \cup {<<Set(col, from, 0, TRUE)>> : col, from \in Columns}
      \cup {<<Set(col, Nil, 2, FALSE)>> : col \in Columns}
      \cup {<<Set("id", Nil, 1, spaced), Set("paid", "id", 0, TRUE)>> : spaced \in BOOLEAN}

Backfill(query, size, delay) == Ph("backfill", "none", FALSE, "", Batch(query, size, delay), Nil)

QueryFiles ==
    {[complete |-> TRUE, phases |-> <<Backfill(q, 1, 0)>>] :
        q \in {Query(FALSE, "events", set, where, {"placeholder"}, FALSE) :
                  set \in Sets, where \in Wheres}
              \cup {Query(lead, table, Plain.set, Plain.where, limits, orderBy) :
                  lead \in BOOLEAN, table \in {"none", "events", "app.events"},
                  limits \in SUBSET {"placeholder", "literal", "bound"}, orderBy \in BOOLEAN}}

EstimateFiles ==
    {[complete |-> TRUE,
      phases |-> <<Backfill(Plain, size, delay), Ph("gate", "none", FALSE, "", Nil, timeout)>>] :
        size \in 0 .. 3, delay \in {-20, 0, 20, 60}, timeout \in -1 .. 4}

MCFiles == LoaderFiles \cup QueryFiles \cup EstimateFiles

Command(name, onFailure, dryRun, estimate, database) ==
    [name |-> name, onFailure |-> onFailure, dryRun |-> dryRun, estimate |-> estimate,
     database |-> database]

MCCommandLines ==
    {Command("run", onFailure, dryRun, FALSE, database) :
        onFailure \in {"", "rollback", "none", "abort"}, dryRun \in BOOLEAN,
        database \in {Nil, "env"}}
      \cup {Command("resume", "", FALSE, FALSE, "env")}
      \cup {Command("lint", "", FALSE, estimate, database) :
        estimate \in BOOLEAN, database \in {Nil, "flag", "env"}}

MCRows == 0 .. 7

=============================================================================

--------------------------- MODULE CorroborationStore ---------------------------
(***************************************************************************)
(* The SQLite table behind the ledger (crab-ledger/src/store.rs) as a      *)
(* function from its primary key, (pattern_hash, public_key), to a row or  *)
(* NoRow, with one operator per SQL statement.  The statements are atomic: *)
(* SQLite commits or rolls back each of them.                              *)
(***************************************************************************)
EXTENDS SignedSuggestions, Ordering

CONSTANTS
    NoRow,      \* the table has no row at this key
    I64Min      \* i64::MIN, the filter when a query names no day

ASSUME NoRowAssumption == NoRow \notin
    [signature : Signature, rule_json : Rules, submitted_day : Days]

ASSUME I64MinAssumption == I64Min \in Int /\ \A d \in Days : I64Min <= d

\* A row without its primary key.
Row == [signature : Signature, rule_json : Rules, submitted_day : Days]

PrimaryKey == Patterns \X Keys

Table == [PrimaryKey -> Row \cup {NoRow}]

\* CorroborationRow: what upsert is given.
CorroborationRow ==
    [pattern_hash : Patterns, public_key : Keys, signature : Signature,
     rule_json : Rules, submitted_day : Days]

\* The key of a row to upsert.
IdOf(row) == <<row.pattern_hash, row.public_key>>

EmptyTable == [id \in PrimaryKey |-> NoRow]

\* SELECT 1 .. WHERE pattern_hash = ? AND public_key = ?
Existed(db, row) == db[IdOf(row)] # NoRow

EarlierDay(d, e) == IF d <= e THEN d ELSE e

\* Wrong variant (mutation runs): submitted_day = excluded.submitted_day.
UpsertedLatestDay(db, row) ==
    [db EXCEPT ![IdOf(row)] =
        [signature     |-> row.signature,
         rule_json     |-> row.rule_json,
         submitted_day |-> row.submitted_day]]

\* INSERT .. ON CONFLICT DO UPDATE: the new signature and body replace the
\* old ones, the day is the smaller of the two.
Upserted(db, row) ==
    LET old == db[IdOf(row)]
    IN  [db EXCEPT ![IdOf(row)] =
            [signature     |-> row.signature,
             rule_json     |-> row.rule_json,
             submitted_day |-> IF old = NoRow
                               THEN row.submitted_day
                               ELSE EarlierDay(old.submitted_day, row.submitted_day)]]

Corroborators(db, p) == {k \in Keys : db[<<p, k>>] # NoRow}

RowsOf(db, p) == {db[<<p, k>>] : k \in Corroborators(db, p)}

\* GROUP BY pattern_hash
Group(db, p) ==
    [pattern_hash   |-> p,
     rule           |-> Min({r.rule_json : r \in RowsOf(db, p)}),
     corroborators  |-> Cardinality(Corroborators(db, p)),
     first_seen_day |-> Min({r.submitted_day : r \in RowsOf(db, p)})]

\* Wrong variant (mutation runs): ORDER BY pattern_hash ASC alone.
PrecedesByPattern(a, b) == a.pattern_hash < b.pattern_hash

\* ORDER BY corroborators DESC, pattern_hash ASC
Precedes(a, b) ==
    \/ a.corroborators > b.corroborators
    \/ a.corroborators = b.corroborators /\ a.pattern_hash < b.pattern_hash

\* HAVING corroborators >= ? AND first_seen_day >= ?
ListAggregated(db, min_corroborators, since) ==
    LET groups == {Group(db, p) : p \in {q \in Patterns : Corroborators(db, q) # {}}}
    IN  InOrder({g \in groups : /\ g.corroborators >= min_corroborators
                                /\ g.first_seen_day >= since}, Precedes)

TotalUniquePatterns(db) == Cardinality({p \in Patterns : Corroborators(db, p) # {}})

================================================================================

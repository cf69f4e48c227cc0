------------------------------ MODULE SqliteConn ------------------------------
(* A SQLite connection as kit_db.c uses it: rows are inserted in batches of    *)
(* one transaction each and deleted in one transaction.  SQLite itself is      *)
(* outside the repository: a statement may fail, and a failure either leaves   *)
(* the transaction open (SQLITE_BUSY) or undoes it (SQLITE_FULL).              *)
EXTENDS Naturals, Sequences

CONSTANT Batch          \* batch_size, 100 rows
ASSUME BatchAssumption == Batch \in Nat \ {0}

\* The elements of s that are in K, in their order: SelectSeq as a recursive
\* function.
Only(s, K) ==
  LET only[n \in 0 .. Len(s)] ==
        IF n = 0 THEN <<>>
        ELSE IF s[n] \in K THEN Append(only[n - 1], s[n]) ELSE only[n - 1]
  IN  only[Len(s)]

\* What is committed, whether a transaction is open, and its rows.
Conn(Row) == [rows: Seq(Row), tx: BOOLEAN, pend: Seq(Row)]
EmptyConn == [rows |-> <<>>, tx |-> FALSE, pend |-> <<>>]

\* A crash or a restart of the firmware: SQLite undoes what was not committed.
Reopened(c) == [c EXCEPT !.tx = FALSE, !.pend = <<>>]

\* The first call that fails while n rows are inserted, and whether SQLite
\* undoes the transaction: BEGIN, a row (or its preparation, when no row is in
\* yet), the COMMIT of a batch, and the BEGIN of the next batch.
InsertFailures(n) ==
  LET ends == {k \in 1 .. n : k % Batch = 0} IN
     [at: {"begin"}, row: {0}, undone: {TRUE}]
  \cup [at: {"step"}, row: 0 .. n - 1, undone: BOOLEAN]
  \cup [at: {"commit"}, row: ends \cup {n}, undone: BOOLEAN]
  \cup [at: {"rebegin"}, row: ends, undone: {TRUE}]

\* The rows of the batches committed before the failure.
Kept(f) == Batch * IF f.at = "commit" THEN (f.row - 1) \div Batch ELSE f.row \div Batch

\* The error paths of an insertion return without ROLLBACK.
InsertFailed(c, new, f) ==
  IF f.at = "begin" THEN c
  ELSE [rows |-> c.rows \o SubSeq(new, 1, Kept(f)),
        tx   |-> ~f.undone,
        pend |-> IF f.undone THEN <<>> ELSE SubSeq(new, Kept(f) + 1, f.row)]

InsertDone(c, new) == [c EXCEPT !.rows = @ \o new]

\* Every outcome of an insertion: the connection and what the function returns.
\* BEGIN within a transaction is an error.
Insertions(c, new) ==
  IF c.tx THEN {[conn |-> c, ret |-> 1]}
  ELSE {[conn |-> InsertDone(c, new), ret |-> 0]}
       \cup {[conn |-> InsertFailed(c, new, f), ret |-> 1] : f \in InsertFailures(Len(new))}

\* Every outcome of a deletion of the rows that are not in keep: its error paths
\* roll back.
Deletions(c, keep) ==
  IF c.tx THEN {[conn |-> c, ret |-> 1]}
  ELSE {[conn |-> [c EXCEPT !.rows = Only(@, keep)], ret |-> 0], [conn |-> c, ret |-> 1]}
=============================================================================

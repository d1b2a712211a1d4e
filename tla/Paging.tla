------------------------------- MODULE Paging -------------------------------
(***************************************************************************)
(* GET /books and GET /books/{id}/forum: a client reads a list page by     *)
(* page, newest first.  The cursor of the next page is the created_at of   *)
(* the last row shown, and rows come, go and change between two pages.     *)
(***************************************************************************)
EXTENDS Newest

CONSTANTS
    Rows,       \* ids of rows; none is used twice
    PageSize,   \* rows per page (20)
    MaxTime     \* a bound on the clock; times may repeat

ASSUME PagingAssumption == PageSize \in Nat \ {0} /\ MaxTime \in Nat

VARIABLES
    now,        \* the database's clock
    at,         \* at[i]: created_at of row i, once its INSERT has started
    started,    \* rows whose INSERT has started
    table,      \* rows that are committed and match the filter of the list
    reader,     \* the client: where it is, and its cursor
    page,       \* the page it has last received
    seen,       \* rows it has received on earlier pages
    cursors,    \* cursors it has used
    stable      \* rows in the table ever since it began

pagingVars == <<now, at, started, table, reader, page, seen, cursors, stable>>

-----------------------------------------------------------------------------

Times == 0 .. MaxTime

NoCursor == MaxTime + 1

Readers == [step : {"idle", "reading", "done"}, cursor : 0 .. NoCursor]

-----------------------------------------------------------------------------
(***************************************************************************)
(* The table.  A row's time is that of the start of its INSERT, so rows    *)
(* may appear out of order.                                                *)
(***************************************************************************)

Tick ==
    /\ now < MaxTime
    /\ now' = now + 1
    /\ UNCHANGED <<at, started, table, reader, page, seen, cursors, stable>>

StartInsert(i) ==
    /\ i \notin started
    /\ at' = [at EXCEPT ![i] = now]
    /\ started' = started \cup {i}
    /\ UNCHANGED <<now, table, reader, page, seen, cursors, stable>>

\* An INSERT commits, or an edit makes a row match the filter.
Enter(i) ==
    /\ i \in started \ table
    /\ table' = table \cup {i}
    /\ UNCHANGED <<now, at, started, reader, page, seen, cursors, stable>>

\* A row is deleted, or an edit makes it match no longer.
Leave(i) ==
    /\ i \in table
    /\ table' = table \ {i}
    /\ stable' = stable \ {i}
    /\ UNCHANGED <<now, at, started, reader, page, seen, cursors>>

-----------------------------------------------------------------------------
(***************************************************************************)
(* The client.                                                             *)
(***************************************************************************)

BeginReading ==
    /\ reader.step = "idle"
    /\ reader' = [step |-> "reading", cursor |-> NoCursor]
    /\ stable' = table
    /\ UNCHANGED <<now, at, started, table, page, seen, cursors>>

\* Mutant: the row of the cursor is on the next page as well.
OlderThanOrAt(c) == {i \in table : at[i] <= c}

\* WHERE $1 IS NULL OR created_at < $1.
OlderThan(c) == {i \in table : at[i] < c}

\* A last row of a page; among rows of the same time, any.
LastOf(P) == {i \in P : \A j \in P : at[j] >= at[i]}

FinalPage == {[reader EXCEPT !.step = "done"]}

\* Mutant: next_cursor only after more than a page.
AfterPageShort(P) ==
    IF Cardinality(P) > PageSize
    THEN {[step |-> "reading", cursor |-> at[i]] : i \in LastOf(P)}
    ELSE FinalPage

\* next_cursor after a full page, none after a shorter one.
AfterPage(P) ==
    IF Cardinality(P) = PageSize
    THEN {[step |-> "reading", cursor |-> at[i]] : i \in LastOf(P)}
    ELSE FinalPage

ReadPage ==
    /\ reader.step = "reading"
    /\ \E P \in NewestOf(at, OlderThan(reader.cursor), PageSize) :
         /\ page' = P
         /\ reader' \in AfterPage(P)
    /\ seen' = seen \cup page
    /\ cursors' = cursors \cup {reader.cursor}
    /\ UNCHANGED <<now, at, started, table, stable>>

-----------------------------------------------------------------------------

PagingInit ==
    /\ now = 0
    /\ at = [i \in Rows |-> 0]
    /\ started = {} /\ table = {}
    /\ reader = [step |-> "idle", cursor |-> NoCursor]
    /\ page = {} /\ seen = {} /\ cursors = {} /\ stable = {}

PagingNext ==
    \/ Tick
    \/ \E i \in Rows : StartInsert(i) \/ Enter(i) \/ Leave(i)
    \/ BeginReading
    \/ ReadPage

PagingSpec == PagingInit /\ [][PagingNext]_pagingVars

(***************************************************************************)
(* Fairness: the database answers, and the client wants the whole list.    *)
(***************************************************************************)
FairPagingSpec == PagingSpec /\ WF_pagingVars(ReadPage)

-----------------------------------------------------------------------------

PagingTypeOK ==
    /\ now \in Times
    /\ at \in [Rows -> Times]
    /\ table \subseteq started /\ started \subseteq Rows
    /\ reader \in Readers
    /\ page \subseteq started /\ seen \subseteq started
    /\ cursors \subseteq 0 .. NoCursor
    /\ stable \subseteq table

\* A row on a new page is older than every row received before: nothing is
\* shown twice, nothing out of order, whatever is inserted between the pages.
PagesDescend == \A i \in page, j \in seen : at[i] < at[j]

\* When the client has reached the end of the list, it has received every
\* row that was there all the while, except those whose time is exactly that
\* of the last row of some page.
OnlyTiesAreMissed ==
    reader.step = "done"
      => \A i \in stable : i \in seen \cup page \/ at[i] \in cursors

\* The inductive invariant of the proofs: the cursor is the time of the
\* oldest row received, and what is missing is on the pages to come.
CursorIsOldest ==
    reader.step = "reading" => \A i \in seen \cup page : at[i] >= reader.cursor

NothingIsForgotten ==
    reader.step = "reading"
      => \A i \in stable : \/ i \in seen \cup page
                           \/ at[i] < reader.cursor
                           \/ at[i] \in cursors \cup {reader.cursor}

NothingBeforeReading == reader.step = "idle" => page = {} /\ seen = {} /\ stable = {}

PagingIInv ==
    /\ PagingTypeOK
    /\ PagesDescend
    /\ OnlyTiesAreMissed
    /\ CursorIsOldest
    /\ NothingIsForgotten
    /\ NothingBeforeReading

\* Following next_cursor comes to an end, however fast the list grows.
ReadingEnds == (reader.step = "reading") ~> (reader.step = "done")

=============================================================================

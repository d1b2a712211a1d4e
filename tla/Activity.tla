------------------------------ MODULE Activity ------------------------------
(***************************************************************************)
(* GET /me and GET /users/{id}: assembleBooksAndActivity reads the newest  *)
(* events of a student from four sources, one statement after another,     *)
(* merges them and shows the newest of all, while new events come in and   *)
(* deletions of books take events away.                                    *)
(***************************************************************************)
EXTENDS Newest

CONSTANTS
    Events,     \* events of one student: a listing, a request sent, an acceptance
    SourceOf,   \* the query that finds each event
    BookLimit,  \* bookListLimit: books on a profile (10)
    FetchCap,   \* activityFetchCap: events taken from each source (5)
    ShowCap,    \* activityShowCap: events shown (5)
    MaxTime     \* a bound on the clock; times may repeat

\* The queries in the order of the code: ListByOwner, RecentSent,
\* RecentAcceptedAsOwner, RecentAcceptedAsRequester.
Sources == 1 .. 4
Books == 1

\* Where the handler is when it runs no query.
NotBegun == 0
Merging == 5
Shown == 6

ASSUME ActivityAssumption ==
    /\ IsFiniteSet(Events)
    /\ SourceOf \in [Events -> Sources]
    /\ BookLimit \in Nat /\ FetchCap \in Nat /\ ShowCap \in Nat /\ MaxTime \in Nat
    /\ ShowCap <= FetchCap /\ FetchCap <= BookLimit

VARIABLES
    now,        \* the database's clock
    at,         \* at[e]: the event's time, once its statement has started
    started,    \* events whose statement has started
    running,    \* events whose statement has not come to an end
    table,      \* events that are committed and still there
    step,       \* the query the handler runs next, or one of the above
    items,      \* events fetched so far, then the feed
    stable      \* events in the table ever since the handler began

activityVars == <<now, at, started, running, table, step, items, stable>>

-----------------------------------------------------------------------------
(***************************************************************************)
(* Books are listed and deleted, requests made and accepted.               *)
(***************************************************************************)

Tick ==
    /\ now < MaxTime
    /\ now' = now + 1
    /\ UNCHANGED <<at, started, running, table, step, items, stable>>

StartEvent(e) ==
    /\ e \notin started
    /\ at' = [at EXCEPT ![e] = now]
    /\ started' = started \cup {e}
    /\ running' = running \cup {e}
    /\ UNCHANGED <<now, table, step, items, stable>>

CommitEvent(e) ==
    /\ e \in running
    /\ running' = running \ {e}
    /\ table' = table \cup {e}
    /\ UNCHANGED <<now, at, started, step, items, stable>>

\* The book is deleted, or the request is accepted once more, at another time.
DropEvent(e) ==
    /\ e \in table
    /\ table' = table \ {e}
    /\ stable' = stable \ {e}
    /\ UNCHANGED <<now, at, started, running, step, items>>

-----------------------------------------------------------------------------
(***************************************************************************)
(* The handler.                                                            *)
(***************************************************************************)

Found(s) == {e \in table : SourceOf[e] = s}

\* The ten newest books are shown, the first five of them are events.
Fetched(s) ==
    IF s = Books
    THEN UNION {NewestOf(at, B, FetchCap) : B \in NewestOf(at, Found(s), BookLimit)}
    ELSE NewestOf(at, Found(s), FetchCap)

Fetch ==
    /\ step \in Sources
    /\ \E F \in Fetched(step) : items' = items \cup F
    /\ step' = step + 1
    /\ UNCHANGED <<now, at, started, running, table, stable>>

\* Mutant: no sort before the cut.
MergeUnsorted ==
    /\ step = Merging
    /\ items' \in {P \in SUBSET items : Cardinality(P) <= ShowCap}
    /\ step' = Shown
    /\ UNCHANGED <<now, at, started, running, table, stable>>

\* Sort, newest first, and cut.
Merge ==
    /\ step = Merging
    /\ items' \in NewestOf(at, items, ShowCap)
    /\ step' = Shown
    /\ UNCHANGED <<now, at, started, running, table, stable>>

BeginProfile ==
    /\ step = NotBegun
    /\ step' = Books
    /\ stable' = table
    /\ UNCHANGED <<now, at, started, running, table, items>>

-----------------------------------------------------------------------------

ActivityInit ==
    /\ now = 0
    /\ at = [e \in Events |-> 0]
    /\ started = {} /\ running = {} /\ table = {}
    /\ step = NotBegun /\ items = {} /\ stable = {}

ActivityNext ==
    \/ Tick
    \/ \E e \in Events : StartEvent(e) \/ CommitEvent(e) \/ DropEvent(e)
    \/ BeginProfile
    \/ Fetch
    \/ Merge

ActivitySpec == ActivityInit /\ [][ActivityNext]_activityVars

-----------------------------------------------------------------------------

ActivityTypeOK ==
    /\ now \in 0 .. MaxTime
    /\ at \in [Events -> 0 .. MaxTime]
    /\ table \cup running \subseteq started /\ started \subseteq Events
    /\ step \in NotBegun .. Shown
    /\ items \subseteq started
    /\ stable \subseteq table

\* The feed shows the newest events: one that was there all the while is
\* only left out for a full feed of events none of which is older.
FeedShowsNewest ==
    step = Shown =>
      /\ Cardinality(items) <= ShowCap
      /\ \A e \in stable \ items :
           Cardinality(items) = ShowCap /\ \A f \in items : at[f] >= at[e]

\* In S there are n events at least as new as e.
CrowdedOut(e, S, n) ==
    \E P \in SUBSET S : Cardinality(P) = n /\ \A f \in P : at[f] >= at[e]

\* The inductive invariant of the proofs: an event is only passed over for
\* as many newer ones from its own source as a feed can show.
PassedOverForNewer ==
    step \in Sources \cup {Merging} =>
      \A e \in stable \ items : SourceOf[e] < step => CrowdedOut(e, items, FetchCap)

ActivityIInv ==
    /\ ActivityTypeOK
    /\ PassedOverForNewer
    /\ FeedShowsNewest

=============================================================================

---------------------------- MODULE PagingProofs ----------------------------
(***************************************************************************)
(* Proofs of the safety properties of Paging, for any rows, any page size  *)
(* and any interleaving of the writers with the reader.                    *)
(*                                                                         *)
(* The cursor splits the rows: what was received is not older than it      *)
(* (CursorIsOldest), and what is still to come is older                    *)
(* (NothingIsForgotten), rows of exactly the cursor's time being lost.     *)
(***************************************************************************)
EXTENDS Paging, TLAPS

-----------------------------------------------------------------------------

\* A query's result is part of the table, and leaves only older rows out.
LEMMA NewestOfIs ==
    ASSUME NEW t, NEW S, NEW n, NEW P \in NewestOf(t, S, n)
    PROVE  /\ P \subseteq S
           /\ \/ P = S /\ Cardinality(S) <= n
              \/ Cardinality(P) = n /\ \A i \in P, j \in S \ P : t[i] >= t[j]
  BY DEF NewestOf

\* The writers give a row its time once, and take from `stable' what they
\* take from the table.
LEMMA WritersKeepPagingIInv ==
    ASSUME PagingIInv, UNCHANGED <<reader, page, seen, cursors>>,
           now' \in Times, at' \in [Rows -> Times],
           \A i \in started : at'[i] = at[i],
           started \subseteq started', started' \subseteq Rows,
           table' \subseteq started', stable' \subseteq stable, stable' \subseteq table'
    PROVE  PagingIInv'
<1>1. PagingTypeOK'
  BY DEF PagingIInv, PagingTypeOK
<1>2. \A i \in page \cup seen \cup stable : i \in started /\ at'[i] = at[i]
  BY DEF PagingIInv, PagingTypeOK
<1>3. PagesDescend' /\ CursorIsOldest'
  BY <1>2 DEF PagingIInv, PagesDescend, CursorIsOldest
<1>4. OnlyTiesAreMissed' /\ NothingIsForgotten'
  BY <1>2 DEF PagingIInv, OnlyTiesAreMissed, NothingIsForgotten
<1>5. NothingBeforeReading'
  BY DEF PagingIInv, NothingBeforeReading
<1> QED
  BY <1>1, <1>3, <1>4, <1>5 DEF PagingIInv

\* The first page has everything below its cursor.
LEMMA BeginKeepsPagingIInv ==
    ASSUME PagingIInv, BeginReading
    PROVE  PagingIInv'
<1>1. NoCursor \in 0 .. NoCursor /\ \A t \in Times : t < NoCursor
  BY PagingAssumption DEF NoCursor, Times
<1>2. PagingTypeOK'
  BY <1>1 DEF PagingIInv, PagingTypeOK, BeginReading, Readers
<1>3. page' = {} /\ seen' = {} /\ reader' = [step |-> "reading", cursor |-> NoCursor]
  BY DEF PagingIInv, NothingBeforeReading, BeginReading
<1>4. NothingIsForgotten'
  BY <1>1, <1>2, <1>3 DEF NothingIsForgotten, PagingTypeOK
<1> QED
  BY <1>2, <1>3, <1>4
  DEF PagingIInv, PagesDescend, CursorIsOldest, OnlyTiesAreMissed, NothingBeforeReading

\* What a page brings is older than what came before; a full page moves the
\* cursor to its last row, a shorter one holds all that was left.
LEMMA ReadPageKeepsPagingIInv ==
    ASSUME PagingIInv, ReadPage
    PROVE  PagingIInv'
<1> DEFINE c == reader.cursor
<1>1. PICK P \in NewestOf(at, OlderThan(c), PageSize) : page' = P /\ reader' \in AfterPage(P)
  BY DEF ReadPage
<1>2. /\ seen' = seen \cup page /\ cursors' = cursors \cup {c}
      /\ UNCHANGED <<now, at, started, table, stable>>
      /\ reader.step = "reading"
  BY DEF ReadPage
<1>3. /\ P \subseteq OlderThan(c)
      /\ \/ P = OlderThan(c) /\ Cardinality(OlderThan(c)) <= PageSize
         \/ /\ Cardinality(P) = PageSize
            /\ \A i \in P, j \in OlderThan(c) \ P : at[i] >= at[j]
  BY NewestOfIs
<1>4. /\ reader \in Readers /\ c \in 0 .. NoCursor
      /\ [reader EXCEPT !.step = "done"] = [step |-> "done", cursor |-> c]
  BY DEF PagingIInv, PagingTypeOK, Readers
<1>5. /\ MaxTime \in Nat /\ Times \subseteq 0 .. NoCursor
      /\ \A i \in Rows : at[i] \in Times /\ at[i] \in Int
      /\ c \in Int
  BY <1>4, PagingAssumption DEF PagingIInv, PagingTypeOK, NoCursor, Times
<1>6. /\ P \subseteq table /\ table \subseteq Rows /\ P \subseteq started
      /\ stable \subseteq table
      /\ seen \cup page \subseteq Rows
      /\ \A i \in P : at[i] < c
      /\ \A i \in table : at[i] < c => i \in OlderThan(c)
  BY <1>3 DEF OlderThan, PagingIInv, PagingTypeOK
<1>7. \A i \in seen \cup page : at[i] >= c
  BY <1>2 DEF PagingIInv, CursorIsOldest
<1>8. \A i \in stable : \/ i \in seen \cup page
                        \/ at[i] < c
                        \/ at[i] \in cursors \cup {c}
  BY <1>2 DEF PagingIInv, NothingIsForgotten
<1>9. PagesDescend'
  BY <1>1, <1>2, <1>5, <1>6, <1>7 DEF PagesDescend
<1>10. CASE Cardinality(P) = PageSize
  <2>1. PICK last \in P : /\ reader' = [step |-> "reading", cursor |-> at[last]]
                          /\ \A j \in P : at[j] >= at[last]
    BY <1>1, <1>10 DEF AfterPage, LastOf
  <2>2. PagingTypeOK'
    BY <1>1, <1>2, <1>4, <1>5, <1>6, <2>1 DEF PagingIInv, PagingTypeOK, Readers
  <2>3. CursorIsOldest'
    BY <1>1, <1>2, <1>5, <1>6, <1>7, <2>1 DEF CursorIsOldest
  <2>4. ASSUME NEW i \in stable, i \notin P, at[i] < c
        PROVE  at[i] <= at[last]
    BY <1>3, <1>5, <1>6, <2>4
  <2>5. NothingIsForgotten'
    BY <1>1, <1>2, <1>5, <1>6, <1>8, <2>1, <2>4 DEF NothingIsForgotten
  <2> QED
    BY <1>9, <2>1, <2>2, <2>3, <2>5
    DEF PagingIInv, OnlyTiesAreMissed, NothingBeforeReading
<1>11. CASE Cardinality(P) # PageSize
  <2>1. reader' = [step |-> "done", cursor |-> c] /\ P = OlderThan(c)
    BY <1>1, <1>3, <1>4, <1>11 DEF AfterPage, FinalPage
  <2>2. PagingTypeOK'
    BY <1>1, <1>2, <1>4, <1>6, <2>1 DEF PagingIInv, PagingTypeOK, Readers
  <2>3. OnlyTiesAreMissed'
    BY <1>1, <1>2, <1>6, <1>8, <2>1 DEF OnlyTiesAreMissed
  <2> QED
    BY <1>9, <2>1, <2>2, <2>3
    DEF PagingIInv, CursorIsOldest, NothingIsForgotten, NothingBeforeReading
<1> QED
  BY <1>10, <1>11

-----------------------------------------------------------------------------

\* Every step keeps the inductive invariant.
LEMMA PagingStepKeepsIInv ==
    ASSUME PagingIInv, [PagingNext]_pagingVars
    PROVE  PagingIInv'
<1>1. CASE Tick
  BY <1>1, WritersKeepPagingIInv, PagingAssumption
  DEF Tick, PagingIInv, PagingTypeOK, Times
<1>2. ASSUME NEW i \in Rows, StartInsert(i)
      PROVE  PagingIInv'
  BY <1>2, WritersKeepPagingIInv DEF StartInsert, PagingIInv, PagingTypeOK
<1>3. ASSUME NEW i \in Rows, Enter(i)
      PROVE  PagingIInv'
  BY <1>3, WritersKeepPagingIInv DEF Enter, PagingIInv, PagingTypeOK
<1>4. ASSUME NEW i \in Rows, Leave(i)
      PROVE  PagingIInv'
  BY <1>4, WritersKeepPagingIInv DEF Leave, PagingIInv, PagingTypeOK
<1>5. CASE UNCHANGED pagingVars
  BY <1>5, WritersKeepPagingIInv DEF pagingVars, PagingIInv, PagingTypeOK
<1> QED
  BY <1>1, <1>2, <1>3, <1>4, <1>5, BeginKeepsPagingIInv, ReadPageKeepsPagingIInv
  DEF PagingNext

\* The inductive invariant of a reader among writers, in every state.
THEOREM PagingInvariance == PagingSpec => []PagingIInv
<1>1. PagingInit => PagingIInv
  <2>1. PagingInit => PagingTypeOK
    BY PagingAssumption DEF PagingInit, PagingTypeOK, Readers, Times, NoCursor
  <2> QED
    BY <2>1 DEF PagingInit, PagingIInv, PagesDescend, OnlyTiesAreMissed,
                CursorIsOldest, NothingIsForgotten, NothingBeforeReading
<1>2. PagingIInv /\ [PagingNext]_pagingVars => PagingIInv'
  BY PagingStepKeepsIInv
<1> QED
  BY <1>1, <1>2, PTL DEF PagingSpec

\* Pages never repeat a row nor go back to newer ones.
THEOREM PagesNeverRepeat == PagingSpec => []PagesDescend
<1>1. PagingIInv => PagesDescend
  BY DEF PagingIInv
<1> QED
  BY <1>1, PagingInvariance, PTL

\* Reading to the end misses no row that stayed, but for ties with a cursor.
THEOREM ReadingIsComplete == PagingSpec => []OnlyTiesAreMissed
<1>1. PagingIInv => OnlyTiesAreMissed
  BY DEF PagingIInv
<1> QED
  BY <1>1, PagingInvariance, PTL

=============================================================================

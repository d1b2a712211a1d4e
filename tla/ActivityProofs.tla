--------------------------- MODULE ActivityProofs ---------------------------
(***************************************************************************)
(* Proofs about Activity, for any events and any caps that are ordered as  *)
(* those of the code are: the newest of the newest of each source are the  *)
(* newest of all, also when the sources change between the queries.        *)
(***************************************************************************)
EXTENDS Activity, FiniteSetTheorems, TLAPS

-----------------------------------------------------------------------------

\* A query's result is part of the table, and leaves only older rows out.
LEMMA NewestOfBounds ==
    ASSUME NEW t, NEW S, NEW n, NEW P \in NewestOf(t, S, n)
    PROVE  /\ P \subseteq S
           /\ \/ P = S /\ Cardinality(S) <= n
              \/ Cardinality(P) = n /\ \A i \in P, j \in S \ P : t[i] >= t[j]
  BY DEF NewestOf

\* The first m of the n newest are the m newest, as with the five events cut
\* from the ten books of a profile.
LEMMA NewestOfNewest ==
    ASSUME NEW S, NEW t, NEW n \in Nat, NEW m \in Nat, m <= n,
           NEW B \in NewestOf(t, S, n), NEW F \in NewestOf(t, B, m)
    PROVE  F \in NewestOf(t, S, m)
<1>1. F \subseteq B /\ B \subseteq S
  BY NewestOfBounds
<1>2. CASE B = S
  BY <1>2
<1>3. CASE Cardinality(B) = n /\ \A i \in B, j \in S \ B : t[i] >= t[j]
  <2>1. CASE F = B /\ Cardinality(B) <= m
    <3>1. Cardinality(F) = m
      BY <1>3, <2>1
    <3> QED
      BY <1>1, <1>3, <2>1, <3>1 DEF NewestOf
  <2>2. CASE Cardinality(F) = m /\ \A i \in F, j \in B \ F : t[i] >= t[j]
    BY <1>1, <1>3, <2>2 DEF NewestOf
  <2> QED
    BY <2>1, <2>2, NewestOfBounds
<1> QED
  BY <1>2, <1>3, NewestOfBounds

\* What a query passes over is crowded out by what it returns.
LEMMA PassedOver ==
    ASSUME NEW S, NEW n, NEW P \in NewestOf(at, S, n), NEW e \in S \ P
    PROVE  CrowdedOut(e, P, n)
  BY NewestOfBounds DEF CrowdedOut

\* More events crowd out no fewer.
LEMMA CrowdedOutMonotonic ==
    ASSUME NEW e, NEW S, NEW T, S \subseteq T, NEW n, CrowdedOut(e, S, n)
    PROVE  CrowdedOut(e, T, n)
  BY DEF CrowdedOut

\* The queries take up to FetchCap of the newest events of their source.
LEMMA FetchedIsNewest ==
    ASSUME NEW s \in Sources, NEW F \in Fetched(s)
    PROVE  F \in NewestOf(at, Found(s), FetchCap)
<1>1. CASE s = Books
  <2>1. PICK B \in NewestOf(at, Found(s), BookLimit) : F \in NewestOf(at, B, FetchCap)
    BY <1>1 DEF Fetched
  <2> QED
    BY <2>1, ActivityAssumption, NewestOfNewest
<1>2. CASE s # Books
  BY <1>2 DEF Fetched
<1> QED
  BY <1>1, <1>2

\* An event that is crowded out of what was fetched is crowded out of the feed.
LEMMA FeedIsFull ==
    ASSUME NEW S, IsFiniteSet(S), NEW F \in NewestOf(at, S, ShowCap),
           NEW e, at[e] \in Int, \A f \in S : at[f] \in Int,
           e \in S \ F \/ CrowdedOut(e, S, FetchCap)
    PROVE  e \in F \/ (Cardinality(F) = ShowCap /\ \A f \in F : at[f] >= at[e])
<1>1. F \subseteq S /\ IsFiniteSet(F) /\ Cardinality(F) \in Nat
  BY NewestOfBounds, FS_Subset, FS_CardinalityType
<1>2. ShowCap \in Nat /\ FetchCap \in Nat /\ ShowCap <= FetchCap
  BY ActivityAssumption
<1>3. CASE e \in S \ F
  BY <1>3, NewestOfBounds
<1>4. CASE CrowdedOut(e, S, FetchCap)
  <2>1. PICK P \in SUBSET S : Cardinality(P) = FetchCap /\ \A f \in P : at[f] >= at[e]
    BY <1>4 DEF CrowdedOut
  <2>2. CASE F = S /\ Cardinality(S) <= ShowCap
    <3>1. Cardinality(P) <= Cardinality(S) /\ (Cardinality(P) = Cardinality(S) => P = S)
      BY FS_Subset
    <3>2. Cardinality(S) = FetchCap
      BY <1>1, <1>2, <2>1, <2>2, <3>1
    <3> QED
      BY <1>2, <2>1, <2>2, <3>1, <3>2
  <2>3. CASE Cardinality(F) = ShowCap /\ \A i \in F, j \in S \ F : at[i] >= at[j]
    <3>1. ASSUME NEW f \in F, ~(at[f] >= at[e])
          PROVE  FALSE
      <4>1. P \subseteq F
        <5>1. ASSUME NEW p \in P, p \notin F
              PROVE  FALSE
          <6>1. at[f] >= at[p] /\ at[p] >= at[e]
            BY <2>1, <2>3, <5>1
          <6>2. at[f] \in Int /\ at[p] \in Int /\ at[e] \in Int
            BY <1>1, <2>1
          <6> QED
            BY <3>1, <6>1, <6>2
        <5> QED
          BY <5>1
      <4>2. f \notin P
        BY <2>1, <3>1
      <4>3. Cardinality(P) <= Cardinality(F) /\ (Cardinality(P) = Cardinality(F) => P = F)
        BY <1>1, <4>1, FS_Subset
      <4> QED
        BY <1>2, <2>1, <2>3, <4>2, <4>3
    <3> QED
      BY <2>3, <3>1
  <2> QED
    BY <2>2, <2>3, NewestOfBounds
<1> QED
  BY <1>3, <1>4

-----------------------------------------------------------------------------

\* Writers give an event its time once, and take from `stable' what they take
\* from the table.
LEMMA WritersKeepActivityIInv ==
    ASSUME ActivityIInv, UNCHANGED <<step, items>>,
           now' \in 0 .. MaxTime, at' \in [Events -> 0 .. MaxTime],
           \A e \in started : at'[e] = at[e],
           started \subseteq started', started' \subseteq Events,
           table' \cup running' \subseteq started', stable' \subseteq stable, stable' \subseteq table'
    PROVE  ActivityIInv'
<1>1. ActivityTypeOK'
  BY DEF ActivityIInv, ActivityTypeOK
<1>2. \A e \in stable \cup items : e \in started /\ at'[e] = at[e]
  BY DEF ActivityIInv, ActivityTypeOK
<1>3. PassedOverForNewer'
  <2> SUFFICES ASSUME step \in Sources \cup {Merging},
                      NEW e \in stable' \ items, SourceOf[e] < step
               PROVE  CrowdedOut(e, items, FetchCap)'
    BY DEF PassedOverForNewer
  <2>1. CrowdedOut(e, items, FetchCap)
    BY DEF ActivityIInv, PassedOverForNewer
  <2> QED
    BY <1>2, <2>1 DEF CrowdedOut
<1>4. FeedShowsNewest'
  BY <1>2 DEF ActivityIInv, FeedShowsNewest
<1> QED
  BY <1>1, <1>3, <1>4 DEF ActivityIInv

\* Nothing is fetched before the first query.
LEMMA BeginKeepsActivityIInv ==
    ASSUME ActivityIInv, BeginProfile
    PROVE  ActivityIInv'
<1>1. ActivityTypeOK'
  BY DEF ActivityIInv, ActivityTypeOK, BeginProfile, NotBegun, Shown, Books
<1>2. PassedOverForNewer'
  <2>1. step' = 1 /\ stable' \subseteq Events
    BY DEF ActivityIInv, ActivityTypeOK, BeginProfile, Books
  <2>2. \A e \in Events : ~(SourceOf[e] < 1)
    BY ActivityAssumption DEF Sources
  <2> QED
    BY <2>1, <2>2 DEF PassedOverForNewer
<1>3. FeedShowsNewest'
  BY DEF BeginProfile, FeedShowsNewest, Books, Shown
<1> QED
  BY <1>1, <1>2, <1>3 DEF ActivityIInv

\* A query adds the newest of its source, and what it passes over is
\* crowded out by them.
LEMMA FetchKeepsActivityIInv ==
    ASSUME ActivityIInv, Fetch
    PROVE  ActivityIInv'
<1>1. PICK F \in Fetched(step) : items' = items \cup F
  BY DEF Fetch
<1>2. step \in Sources /\ step' = step + 1 /\ UNCHANGED <<now, at, started, running, table, stable>>
  BY DEF Fetch
<1>3. F \in NewestOf(at, Found(step), FetchCap) /\ F \subseteq Found(step)
  BY <1>2, FetchedIsNewest, NewestOfBounds
<1>4. ActivityTypeOK'
  BY <1>1, <1>2, <1>3
  DEF ActivityIInv, ActivityTypeOK, Found, Sources, NotBegun, Shown
<1>5. PassedOverForNewer'
  <2> SUFFICES ASSUME NEW e \in stable \ items', SourceOf[e] < step + 1
               PROVE  CrowdedOut(e, items', FetchCap)
    BY <1>2 DEF PassedOverForNewer, CrowdedOut
  <2>1. e \in table /\ SourceOf[e] \in Sources
    BY ActivityAssumption DEF ActivityIInv, ActivityTypeOK
  <2>2. CASE SourceOf[e] = step
    <3>1. e \in Found(step) \ F
      BY <1>1, <2>1, <2>2 DEF Found
    <3>2. CrowdedOut(e, F, FetchCap)
      BY <1>3, <3>1, PassedOver
    <3> QED
      BY <1>1, <3>2, CrowdedOutMonotonic
  <2>3. CASE SourceOf[e] < step
    <3>1. CrowdedOut(e, items, FetchCap)
      BY <1>1, <1>2, <2>3 DEF ActivityIInv, PassedOverForNewer
    <3> QED
      BY <1>1, <3>1, CrowdedOutMonotonic
  <2>4. SourceOf[e] = step \/ SourceOf[e] < step
    BY <1>2, <2>1 DEF Sources
  <2> QED
    BY <2>2, <2>3, <2>4
<1>6. FeedShowsNewest'
  BY <1>2 DEF FeedShowsNewest, Sources, Shown
<1> QED
  BY <1>4, <1>5, <1>6 DEF ActivityIInv

\* The cut leaves out what is crowded out, fetched or not.
LEMMA MergeKeepsActivityIInv ==
    ASSUME ActivityIInv, Merge
    PROVE  ActivityIInv'
<1>1. /\ items' \in NewestOf(at, items, ShowCap) /\ step = Merging /\ step' = Shown
      /\ UNCHANGED <<now, at, started, running, table, stable>>
  BY DEF Merge
<1>2. /\ items \subseteq Events /\ IsFiniteSet(items) /\ items' \subseteq items
      /\ \A e \in Events : at[e] \in Int
      /\ stable \subseteq Events
  BY <1>1, ActivityAssumption, FS_Subset, NewestOfBounds
  DEF ActivityIInv, ActivityTypeOK
<1>3. ActivityTypeOK'
  BY <1>1, <1>2 DEF ActivityIInv, ActivityTypeOK, Shown, NotBegun
<1>4. Cardinality(items') <= ShowCap
  BY <1>1, NewestOfBounds, ActivityAssumption
<1>5. ASSUME NEW e \in stable \ items'
      PROVE  Cardinality(items') = ShowCap /\ \A f \in items' : at[f] >= at[e]
  <2>1. e \in items \ items' \/ CrowdedOut(e, items, FetchCap)
    <3>1. SourceOf[e] < Merging
      BY <1>2, ActivityAssumption DEF Sources, Merging
    <3> QED
      BY <1>1, <3>1 DEF ActivityIInv, PassedOverForNewer
  <2> QED
    BY <1>1, <1>2, <1>5, <2>1, FeedIsFull
<1>6. FeedShowsNewest'
  BY <1>1, <1>4, <1>5 DEF FeedShowsNewest
<1>7. PassedOverForNewer'
  BY <1>1 DEF PassedOverForNewer, Sources, Merging, Shown
<1> QED
  BY <1>3, <1>6, <1>7 DEF ActivityIInv

-----------------------------------------------------------------------------

\* Every step keeps the inductive invariant.
LEMMA ActivityStepKeepsIInv ==
    ASSUME ActivityIInv, [ActivityNext]_activityVars
    PROVE  ActivityIInv'
<1>1. CASE Tick
  BY <1>1, WritersKeepActivityIInv, ActivityAssumption DEF Tick, ActivityIInv, ActivityTypeOK
<1>2. ASSUME NEW e \in Events, StartEvent(e)
      PROVE  ActivityIInv'
  BY <1>2, WritersKeepActivityIInv DEF StartEvent, ActivityIInv, ActivityTypeOK
<1>3. ASSUME NEW e \in Events, CommitEvent(e)
      PROVE  ActivityIInv'
  BY <1>3, WritersKeepActivityIInv DEF CommitEvent, ActivityIInv, ActivityTypeOK
<1>4. ASSUME NEW e \in Events, DropEvent(e)
      PROVE  ActivityIInv'
  BY <1>4, WritersKeepActivityIInv DEF DropEvent, ActivityIInv, ActivityTypeOK
<1>5. CASE UNCHANGED activityVars
  BY <1>5, WritersKeepActivityIInv DEF activityVars, ActivityIInv, ActivityTypeOK
<1> QED
  BY <1>1, <1>2, <1>3, <1>4, <1>5,
     BeginKeepsActivityIInv, FetchKeepsActivityIInv, MergeKeepsActivityIInv
  DEF ActivityNext

\* The inductive invariant of the feed among writers, in every state.
THEOREM ActivityInvariance == ActivitySpec => []ActivityIInv
<1>1. ActivityInit => ActivityIInv
  BY ActivityAssumption
  DEF ActivityInit, ActivityIInv, ActivityTypeOK, PassedOverForNewer, FeedShowsNewest,
      NotBegun, Shown, Merging, Sources
<1>2. ActivityIInv /\ [ActivityNext]_activityVars => ActivityIInv'
  BY ActivityStepKeepsIInv
<1> QED
  BY <1>1, <1>2, PTL DEF ActivitySpec

\* No event that stayed is left out of a feed that has room for it, or that
\* shows something older.
THEOREM FeedIsNewest == ActivitySpec => []FeedShowsNewest
<1>1. ActivityIInv => FeedShowsNewest
  BY DEF ActivityIInv
<1> QED
  BY <1>1, ActivityInvariance, PTL

=============================================================================

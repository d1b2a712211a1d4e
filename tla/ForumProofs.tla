----------------------------- MODULE ForumProofs ----------------------------
(***************************************************************************)
(* Proofs of the properties of Forum, for any number of students, books,   *)
(* posts and goroutines.                                                   *)
(*                                                                         *)
(* A post only moves forward (PostGrows): it is made once, edited, and     *)
(* deleted for good, under one author and one book.  So what a goroutine   *)
(* has checked, and what it has answered, survives all the others; and     *)
(* the foreign key, with its cascade, keeps posts under listed books       *)
(* though the check of the book is a statement of its own.                 *)
(***************************************************************************)
EXTENDS Forum, BoibrittoProofs

-----------------------------------------------------------------------------
(***************************************************************************)
(* Shapes.                                                                 *)
(***************************************************************************)

\* A goroutine at a given statement has that statement's locals.
LEMMA PostingShape ==
    ASSUME NEW c \in Postings
    PROVE  /\ c.step = "insert" => c.book \in Books /\ c.author \in Users
           /\ c.step \in {"edit", "delete"} => c.post \in PostIds /\ c.author \in Users
           /\ c.step = "reread" => c.post \in PostIds /\ c.wrote \in 0..MaxEdits
           /\ c.step = "shown" =>
                c.post \in PostIds /\ c.wrote \in 0..MaxEdits /\ c.body \in 0..MaxEdits
           /\ c.step \in {"deleted", "not_found"} => c.post \in PostIds
  BY DEF Postings, Idle

\* The shapes that the statements leave a goroutine in.
LEMMA NewPostings ==
    /\ Idle \in Postings
    /\ \A b \in Books, u \in Users :
         [step |-> "insert", book |-> b, author |-> u] \in Postings
    /\ \A step \in {"edit", "delete"}, p \in PostIds, u \in Users :
         [step |-> step, post |-> p, author |-> u] \in Postings
    /\ \A p \in PostIds, w \in 0..MaxEdits :
         [step |-> "reread", post |-> p, wrote |-> w] \in Postings
    /\ \A p \in PostIds, w \in 0..MaxEdits, b \in 0..MaxEdits :
         [step |-> "shown", post |-> p, wrote |-> w, body |-> b] \in Postings
    /\ \A step \in {"deleted", "not_found"}, p \in PostIds :
         [step |-> step, post |-> p] \in Postings
  BY DEF Postings

\* A row that is posted has its columns; what is not posted is unused or gone.
LEMMA PostShape ==
    ASSUME posts \in [PostIds -> PostRows \cup {Unused, Deleted}], NEW p \in PostIds
    PROVE  /\ Posted(p) <=> posts[p] \in PostRows
           /\ Posted(p) => /\ posts[p].book \in Books
                           /\ posts[p].author \in Users
                           /\ posts[p].body \in 0..MaxEdits
                           /\ posts[p] # Unused /\ posts[p] # Deleted
           /\ ~Posted(p) => posts[p] \in {Unused, Deleted}
           /\ Unused # Deleted
  BY DEF Posted, PostRows, Unused, Deleted

-----------------------------------------------------------------------------
(***************************************************************************)
(* Posts move forward.                                                     *)
(***************************************************************************)

PostGrows(p) ==
    /\ posts[p] # Unused => posts'[p] # Unused
    /\ posts[p] = Deleted => posts'[p] = Deleted
    /\ posts[p] # Unused /\ Posted(p)' =>
         /\ Posted(p)
         /\ posts'[p].author = posts[p].author
         /\ posts'[p].book = posts[p].book
         /\ posts'[p].body >= posts[p].body

PostsGrow == \A p \in PostIds : PostGrows(p)

\* What is true of an answer, by itself.
AnswerHolds(s) ==
    /\ posting[s].step \in {"deleted", "not_found"} => posts[posting[s].post] = Deleted
    /\ AtPost(s, "shown") =>
         /\ posting[s].body >= posting[s].wrote
         /\ Posted(posting[s].post) => posts[posting[s].post].body >= posting[s].body

\* The facts of a goroutine survive the growth of posts and profiles.
LEMMA PostingSurvives ==
    ASSUME posts \in [PostIds -> PostRows \cup {Unused, Deleted}],
           posts' \in [PostIds -> PostRows \cup {Unused, Deleted}],
           PostsGrow,
           \A u \in Users : IsProfileComplete(u) => IsProfileComplete(u)',
           NEW s \in Posters, posting[s] \in Postings, posting'[s] = posting[s],
           PostingStaysTrue(s), AnswerHolds(s)
    PROVE  PostingStaysTrue(s)' /\ AnswerHolds(s)'
<1>1. CASE posting[s].step = "insert"
  BY <1>1, PostingShape DEF PostingStaysTrue, AnswerHolds, AtPost
<1>2. CASE posting[s].step \in {"edit", "delete", "reread", "shown", "deleted", "not_found"}
  <2> DEFINE p == posting[s].post
  <2>1. p \in PostIds
    BY <1>2, PostingShape
  <2>2. PostGrows(p)
    BY <2>1 DEF PostsGrow
  <2>3. /\ posting[s].step = "reread" => posting[s].wrote \in 0..MaxEdits
        /\ posting[s].step = "shown" =>
             posting[s].wrote \in 0..MaxEdits /\ posting[s].body \in 0..MaxEdits
    BY PostingShape
  <2>4. /\ Posted(p) => posts[p].body \in 0..MaxEdits
        /\ Posted(p)' => posts'[p].body \in 0..MaxEdits
    BY <2>1 DEF Posted, PostRows, Unused, Deleted
  <2>5. Posted(p) => posts[p] # Unused
    BY DEF Posted, Unused
  <2> QED
    BY <1>2, <2>2, <2>3, <2>4, <2>5 DEF PostingStaysTrue, AnswerHolds, AtPost, PostGrows, Posted
<1>3. CASE posting[s].step \notin {"insert", "edit", "delete", "reread", "shown", "deleted",
                                   "not_found"}
  BY <1>3 DEF PostingStaysTrue, AnswerHolds, AtPost
<1> QED
  BY <1>1, <1>2, <1>3

-----------------------------------------------------------------------------
(***************************************************************************)
(* Statements of the forum.                                                *)
(***************************************************************************)

\* PostGoto moves one goroutine.
LEMMA PostGotoOne ==
    ASSUME posting \in [Posters -> Postings], NEW s \in Posters, NEW c \in Postings,
           PostGoto(s, c)
    PROVE  /\ posting' \in [Posters -> Postings]
           /\ posting'[s] = c
           /\ \A t \in Posters : t # s => posting'[t] = posting[t]
  BY DEF PostGoto

\* A statement keeps the invariant if posts move forward by it, stay under
\* listed books, and its own goroutine has told or kept the truth.
LEMMA StatementKeepsForum ==
    ASSUME ForumIInv, AnswersHold, UNCHANGED vars,
           posts' \in [PostIds -> PostRows \cup {Unused, Deleted}],
           PostsGrow,
           \A p \in PostIds :
             Posted(p)' => OnShelf(posts[p].book)' /\ IsProfileComplete(posts[p].author)',
           NEW s \in Posters, NEW c \in Postings, PostGoto(s, c),
           PostingStaysTrue(s)', AnswerHolds(s)'
    PROVE  ForumIInv' /\ AnswersHold'
<1>1. /\ posting' \in [Posters -> Postings]
      /\ \A t \in Posters : t # s => posting'[t] = posting[t]
  BY PostGotoOne DEF ForumIInv
<1>2. \A u \in Users : IsProfileComplete(u) => IsProfileComplete(u)'
  BY DEF IsProfileComplete, vars
<1>3. ASSUME NEW t \in Posters PROVE PostingStaysTrue(t)' /\ AnswerHolds(t)'
  <2>1. CASE t = s
    BY <2>1
  <2>2. CASE t # s
    <3>1. posting[t] \in Postings /\ PostingStaysTrue(t) /\ AnswerHolds(t)
      BY DEF ForumIInv, AnswersHold, AnswerHolds
    <3> QED
      BY <1>1, <1>2, <2>2, <3>1, PostingSurvives DEF ForumIInv
  <2> QED
    BY <2>1, <2>2
<1>4. ForumIInv'
  BY <1>1, <1>3 DEF ForumIInv
<1>5. AnswersHold'
  BY <1>3 DEF AnswersHold, AnswerHolds
<1> QED
  BY <1>4, <1>5

\* Posts that do not change are in order and have grown.
LEMMA SamePosts ==
    ASSUME ForumIInv, UNCHANGED vars, UNCHANGED posts
    PROVE  /\ posts' \in [PostIds -> PostRows \cup {Unused, Deleted}]
           /\ PostsGrow
           /\ \A p \in PostIds :
                Posted(p)' => OnShelf(posts[p].book)' /\ IsProfileComplete(posts[p].author)'
<1>1. posts \in [PostIds -> PostRows \cup {Unused, Deleted}]
  BY DEF ForumIInv
<1>2. \A p \in PostIds : Posted(p) => posts[p].body \in 0..MaxEdits
  BY <1>1, PostShape
<1>3. PostsGrow
  BY <1>2 DEF PostsGrow, PostGrows, Posted
<1>4. \A p \in PostIds :
        Posted(p)' => OnShelf(posts[p].book)' /\ IsProfileComplete(posts[p].author)'
  BY DEF ForumIInv, Posted, OnShelf, IsProfileComplete, vars
<1> QED
  BY <1>1, <1>3, <1>4

\* A goroutine that moves on without writing needs to know the truth.
LEMMA MoveKeepsForum ==
    ASSUME ForumIInv, AnswersHold, UNCHANGED vars, UNCHANGED posts,
           NEW s \in Posters, NEW c \in Postings, PostGoto(s, c),
           PostingStaysTrue(s)', AnswerHolds(s)'
    PROVE  ForumIInv' /\ AnswersHold'
  BY SamePosts, StatementKeepsForum

\* A post that is named and not there is gone for good: the 404 is true.
LEMMA NotFoundKeepsForum ==
    ASSUME ForumIInv, AnswersHold, UNCHANGED vars, UNCHANGED posts, NEW s \in Posters,
           posting[s].step \in {"edit", "delete", "reread"}, ~Posted(posting[s].post),
           AnswerNotFound(s)
    PROVE  ForumIInv' /\ AnswersHold'
<1> DEFINE p == posting[s].post
           c == [step |-> "not_found", post |-> p]
<1>1. posting[s] \in Postings /\ PostingStaysTrue(s)
  BY DEF ForumIInv
<1>2. p \in PostIds /\ posts[p] # Unused
  BY <1>1, PostingShape DEF PostingStaysTrue, AtPost
<1>3. posts[p] = Deleted
  BY <1>2, PostShape DEF ForumIInv
<1>4. c \in Postings /\ PostGoto(s, c)
  BY <1>2, NewPostings DEF AnswerNotFound
<1>5. posting'[s] = c
  BY <1>4, PostGotoOne DEF ForumIInv
<1>6. PostingStaysTrue(s)' /\ AnswerHolds(s)'
  BY <1>3, <1>5 DEF PostingStaysTrue, AnswerHolds, AtPost
<1> HIDE DEF c
<1> QED
  BY <1>4, <1>6, MoveKeepsForum

\* A call that ends without an answer has nothing to keep.
LEMMA AbortKeepsForum ==
    ASSUME ForumIInv, AnswersHold, UNCHANGED vars, UNCHANGED posts, NEW s \in Posters,
           PostGoto(s, Idle)
    PROVE  ForumIInv' /\ AnswersHold'
<1>1. posting'[s] = Idle
  BY NewPostings, PostGotoOne DEF ForumIInv
<1>2. PostingStaysTrue(s)' /\ AnswerHolds(s)'
  BY <1>1 DEF PostingStaysTrue, AnswerHolds, AtPost, Idle
<1> QED
  BY <1>2, NewPostings, MoveKeepsForum

\* POST has read the book and the profile.
LEMMA BeginPostKeepsForum ==
    ASSUME ForumIInv, AnswersHold, UNCHANGED vars, NEW s \in Posters,
           NEW u \in Users, NEW b \in Books, BeginPost(s, u, b)
    PROVE  ForumIInv' /\ AnswersHold'
<1> DEFINE c == [step |-> "insert", book |-> b, author |-> u]
<1>1. c \in Postings /\ PostGoto(s, c) /\ UNCHANGED posts /\ IsProfileComplete(u)
  BY NewPostings DEF BeginPost
<1>2. posting'[s] = c
  BY <1>1, PostGotoOne DEF ForumIInv
<1>3. PostingStaysTrue(s)' /\ AnswerHolds(s)'
  BY <1>1, <1>2 DEF PostingStaysTrue, AnswerHolds, AtPost, IsProfileComplete, vars
<1> HIDE DEF c
<1> QED
  BY <1>1, <1>3, MoveKeepsForum

\* PATCH and DELETE have read a post of the caller's.
LEMMA BeginChangeKeepsForum ==
    ASSUME ForumIInv, AnswersHold, UNCHANGED vars, NEW s \in Posters, NEW u \in Users,
           NEW p \in PostIds, NEW step \in {"edit", "delete"}, BeginChange(s, u, p, step)
    PROVE  ForumIInv' /\ AnswersHold'
<1> DEFINE c == [step |-> step, post |-> p, author |-> u]
<1>1. /\ c \in Postings /\ PostGoto(s, c) /\ UNCHANGED posts
      /\ posts[p] # Unused /\ posts[p].author = u
  BY NewPostings, PostShape DEF BeginChange, ForumIInv
<1>2. posting'[s] = c
  BY <1>1, PostGotoOne DEF ForumIInv
<1>3. PostingStaysTrue(s)' /\ AnswerHolds(s)'
  BY <1>1, <1>2 DEF PostingStaysTrue, AnswerHolds, AtPost
<1> HIDE DEF c
<1> QED
  BY <1>1, <1>3, MoveKeepsForum

\* The answer shows what was written, or a later edit.
LEMMA RereadKeepsForum ==
    ASSUME ForumIInv, AnswersHold, UNCHANGED vars, NEW s \in Posters, Reread(s)
    PROVE  ForumIInv' /\ AnswersHold'
<1> DEFINE p == posting[s].post
           c == [step |-> "shown", post |-> p, wrote |-> posting[s].wrote, body |-> posts[p].body]
<1>1. /\ posting[s] \in Postings /\ PostingStaysTrue(s) /\ AtPost(s, "reread")
      /\ UNCHANGED posts
  BY DEF ForumIInv, Reread
<1>2. p \in PostIds /\ posting[s].wrote \in 0..MaxEdits
  BY <1>1, PostingShape DEF AtPost
<1>3. CASE ~Posted(p)
  <2>1. AnswerNotFound(s)
    BY <1>3 DEF Reread
  <2> QED
    BY <1>1, <1>3, <2>1, NotFoundKeepsForum DEF AtPost
<1>4. CASE Posted(p)
  <2>1. PostGoto(s, c)
    BY <1>4 DEF Reread
  <2>2. posts[p].body \in 0..MaxEdits /\ posts[p] # Unused
    BY <1>2, <1>4, PostShape DEF ForumIInv
  <2>3. c \in Postings
    BY <1>2, <2>2, NewPostings
  <2>4. posts[p].body >= posting[s].wrote
    BY <1>1, <1>4 DEF PostingStaysTrue
  <2>5. posting'[s] = c
    BY <2>1, <2>3, PostGotoOne DEF ForumIInv
  <2>6. PostingStaysTrue(s)' /\ AnswerHolds(s)'
    BY <1>1, <2>2, <2>4, <2>5 DEF PostingStaysTrue, AnswerHolds, AtPost, Posted
  <2> HIDE DEF c
  <2> QED
    BY <1>1, <2>1, <2>3, <2>6, MoveKeepsForum
<1> QED
  BY <1>3, <1>4

\* The row an edit writes: the same post, one edit later.
LEMMA EditedRow ==
    ASSUME ForumIInv, NEW p \in PostIds, Posted(p), posts[p].body < MaxEdits,
           posts' = [posts EXCEPT ![p].body = posts[p].body + 1]
    PROVE  /\ posts' \in [PostIds -> PostRows \cup {Unused, Deleted}]
           /\ PostsGrow
           /\ Posted(p)' /\ posts'[p].body = posts[p].body + 1
           /\ posts'[p].author = posts[p].author /\ posts'[p].book = posts[p].book
           /\ posts[p].body + 1 \in 0..MaxEdits
           /\ \A q \in PostIds : q # p => posts'[q] = posts[q]
<1>1. posts \in [PostIds -> PostRows \cup {Unused, Deleted}] /\ posts[p] \in PostRows
  BY PostShape DEF ForumIInv
<1>2. /\ posts'[p] = [posts[p] EXCEPT !.body = posts[p].body + 1]
      /\ \A q \in PostIds : q # p => posts'[q] = posts[q]
  BY <1>1
<1>3. posts[p].body + 1 \in 0..MaxEdits
  BY <1>1, ForumAssumption DEF PostRows
<1>4. /\ posts'[p] \in PostRows
      /\ posts'[p].body = posts[p].body + 1
      /\ posts'[p].author = posts[p].author /\ posts'[p].book = posts[p].book
      /\ posts'[p].status = "posted"
  BY <1>1, <1>2, <1>3 DEF PostRows
<1>5. posts' \in [PostIds -> PostRows \cup {Unused, Deleted}]
  BY <1>1, <1>2, <1>4
<1>6. ASSUME NEW q \in PostIds PROVE PostGrows(q)
  <2>1. CASE q = p
    <3>1. posts[p].body \in 0..MaxEdits /\ posts[p] # Deleted /\ posts'[p] # Unused
      BY <1>1, <1>4 DEF PostRows, Unused, Deleted
    <3> QED
      BY <1>3, <1>4, <2>1, <3>1 DEF PostGrows
  <2>2. CASE q # p
    <3>1. Posted(q) => posts[q].body \in 0..MaxEdits
      BY <1>1, PostShape
    <3> QED
      BY <1>2, <2>2, <3>1 DEF PostGrows, Posted
  <2> QED
    BY <2>1, <2>2
<1> QED
  BY <1>2, <1>3, <1>4, <1>5, <1>6 DEF PostsGrow, Posted

\* A post that is deleted is gone; the others are as they were.
LEMMA RemovedRow ==
    ASSUME ForumIInv, NEW p \in PostIds, posts[p] # Unused,
           posts' = [posts EXCEPT ![p] = Deleted]
    PROVE  /\ posts' \in [PostIds -> PostRows \cup {Unused, Deleted}]
           /\ PostsGrow
           /\ posts'[p] = Deleted /\ ~Posted(p)'
           /\ \A q \in PostIds : q # p => posts'[q] = posts[q]
<1>1. posts \in [PostIds -> PostRows \cup {Unused, Deleted}]
  BY DEF ForumIInv
<1>2. posts'[p] = Deleted /\ \A q \in PostIds : q # p => posts'[q] = posts[q]
  BY <1>1
<1>3. Deleted.status # "posted" /\ Deleted # Unused
  BY DEF Deleted, Unused
<1>4. posts' \in [PostIds -> PostRows \cup {Unused, Deleted}]
  BY <1>1
<1>5. \A q \in PostIds : Posted(q) => posts[q].body \in 0..MaxEdits
  BY <1>1, PostShape
<1> QED
  BY <1>2, <1>3, <1>4, <1>5 DEF PostsGrow, PostGrows, Posted

\* UPDATE by id: whoever deleted the post meanwhile, the edit shows itself.
LEMMA WriteEditKeepsForum ==
    ASSUME ForumIInv, AnswersHold, UNCHANGED vars, NEW s \in Posters, WriteEdit(s)
    PROVE  ForumIInv' /\ AnswersHold'
<1>1. posting[s] \in Postings /\ PostingStaysTrue(s) /\ AtPost(s, "edit")
  BY DEF ForumIInv, WriteEdit
<1>2. PICK p \in PostIds : p = posting[s].post
  BY <1>1, PostingShape DEF AtPost
<1> DEFINE c == [step |-> "reread", post |-> p, wrote |-> posts[p].body + 1]
<1>3. CASE ~Posted(p)
  <2>1. AnswerNotFound(s) /\ UNCHANGED posts
    BY <1>2, <1>3 DEF WriteEdit
  <2> QED
    BY <1>1, <1>2, <1>3, <2>1, NotFoundKeepsForum DEF AtPost
<1>4. CASE Posted(p)
  <2>1. /\ posts[p].body < MaxEdits
        /\ posts' = [posts EXCEPT ![p].body = posts[p].body + 1]
        /\ PostGoto(s, c)
    BY <1>2, <1>4 DEF WriteEdit
  <2>2. /\ posts' \in [PostIds -> PostRows \cup {Unused, Deleted}]
        /\ PostsGrow
        /\ Posted(p)' /\ posts'[p].body = posts[p].body + 1
        /\ posts'[p].author = posts[p].author /\ posts'[p].book = posts[p].book
        /\ posts[p].body + 1 \in 0..MaxEdits
        /\ \A q \in PostIds : q # p => posts'[q] = posts[q]
    BY <1>2, <1>4, <2>1, EditedRow
  <2>3. \A q \in PostIds :
          Posted(q)' => OnShelf(posts[q].book)' /\ IsProfileComplete(posts[q].author)'
    BY <1>2, <1>4, <2>2 DEF ForumIInv, Posted, OnShelf, IsProfileComplete, vars
  <2>4. c \in Postings
    BY <1>2, <2>2, NewPostings
  <2>5. posting'[s] = c
    BY <2>1, <2>4, PostGotoOne DEF ForumIInv
  <2>6. PostingStaysTrue(s)' /\ AnswerHolds(s)'
    <3>1. posts'[p] # Unused /\ posts'[p].body >= posts[p].body + 1
      BY <2>2 DEF Posted, Unused
    <3> QED
      BY <2>5, <3>1 DEF PostingStaysTrue, AnswerHolds, AtPost
  <2> HIDE DEF c
  <2> QED
    BY <2>1, <2>2, <2>3, <2>4, <2>6, StatementKeepsForum
<1> QED
  BY <1>3, <1>4

\* DELETE by id: of two, one is told that the post was not there.
LEMMA DeletePostKeepsForum ==
    ASSUME ForumIInv, AnswersHold, UNCHANGED vars, NEW s \in Posters, DeletePost(s)
    PROVE  ForumIInv' /\ AnswersHold'
<1>1. posting[s] \in Postings /\ PostingStaysTrue(s) /\ AtPost(s, "delete")
  BY DEF ForumIInv, DeletePost
<1>2. PICK p \in PostIds : p = posting[s].post
  BY <1>1, PostingShape DEF AtPost
<1> DEFINE c == [step |-> "deleted", post |-> p]
<1>3. CASE ~Posted(p)
  <2>1. AnswerNotFound(s) /\ UNCHANGED posts
    BY <1>2, <1>3 DEF DeletePost
  <2> QED
    BY <1>1, <1>2, <1>3, <2>1, NotFoundKeepsForum DEF AtPost
<1>4. CASE Posted(p)
  <2>1. posts' = [posts EXCEPT ![p] = Deleted] /\ PostGoto(s, c)
    BY <1>2, <1>4 DEF DeletePost
  <2>2. posts[p] # Unused
    BY <1>4 DEF Posted, Unused
  <2>3. /\ posts' \in [PostIds -> PostRows \cup {Unused, Deleted}]
        /\ PostsGrow
        /\ posts'[p] = Deleted /\ ~Posted(p)'
        /\ \A q \in PostIds : q # p => posts'[q] = posts[q]
    BY <1>2, <2>1, <2>2, RemovedRow
  <2>4. \A q \in PostIds :
          Posted(q)' => OnShelf(posts[q].book)' /\ IsProfileComplete(posts[q].author)'
    BY <2>3 DEF ForumIInv, Posted, OnShelf, IsProfileComplete, vars
  <2>5. c \in Postings
    BY <1>2, NewPostings
  <2>6. posting'[s] = c
    BY <2>1, <2>5, PostGotoOne DEF ForumIInv
  <2>7. PostingStaysTrue(s)' /\ AnswerHolds(s)'
    BY <2>3, <2>6 DEF PostingStaysTrue, AnswerHolds, AtPost
  <2> HIDE DEF c
  <2> QED
    BY <2>1, <2>3, <2>4, <2>5, <2>7, StatementKeepsForum
<1> QED
  BY <1>3, <1>4

\* INSERT: the foreign key checks the book again, and the profile has stayed
\* complete.
LEMMA InsertPostKeepsForum ==
    ASSUME ForumIInv, AnswersHold, UNCHANGED vars, NEW s \in Posters, InsertPost(s)
    PROVE  ForumIInv' /\ AnswersHold'
<1> DEFINE b == posting[s].book
           u == posting[s].author
           row == [status |-> "posted", book |-> b, author |-> u, body |-> 0]
<1>1. /\ posting[s] \in Postings /\ PostingStaysTrue(s) /\ AtPost(s, "insert")
      /\ posts \in [PostIds -> PostRows \cup {Unused, Deleted}]
  BY DEF ForumIInv, InsertPost
<1>2. b \in Books /\ u \in Users /\ IsProfileComplete(u)
  BY <1>1, PostingShape DEF AtPost, PostingStaysTrue
<1>3. CASE PostGoto(s, Idle) /\ UNCHANGED posts
  BY <1>3, AbortKeepsForum
<1>4. ASSUME OnShelf(b), NEW p \in PostIds, posts[p] = Unused,
             posts' = [posts EXCEPT ![p] = row],
             PostGoto(s, [step |-> "reread", post |-> p, wrote |-> 0])
      PROVE  ForumIInv' /\ AnswersHold'
  <2> DEFINE c == [step |-> "reread", post |-> p, wrote |-> 0]
  <2>1. row \in PostRows /\ 0 \in 0..MaxEdits
    BY <1>2, ForumAssumption DEF PostRows
  <2>2. /\ row.status = "posted" /\ row.book = b /\ row.author = u /\ row.body = 0
        /\ row # Unused
    BY DEF Unused
  <2> HIDE DEF row
  <2>3. posts'[p] = row /\ \A q \in PostIds : q # p => posts'[q] = posts[q]
    BY <1>1, <1>4
  <2>4. posts' \in [PostIds -> PostRows \cup {Unused, Deleted}]
    BY <1>1, <1>4, <2>1
  <2>5. PostsGrow
    <3>1. \A q \in PostIds : Posted(q) => posts[q].body \in 0..MaxEdits
      BY <1>1, PostShape
    <3>2. Unused # Deleted
      BY DEF Unused, Deleted
    <3> QED
      BY <1>4, <2>3, <3>1, <3>2 DEF PostsGrow, PostGrows, Posted
  <2>6. \A q \in PostIds :
          Posted(q)' => OnShelf(posts[q].book)' /\ IsProfileComplete(posts[q].author)'
    BY <1>2, <1>4, <2>2, <2>3 DEF ForumIInv, Posted, OnShelf, IsProfileComplete, vars
  <2>7. c \in Postings
    BY <2>1, NewPostings
  <2>8. posting'[s] = c
    BY <1>4, <2>7, PostGotoOne DEF ForumIInv
  <2>9. PostingStaysTrue(s)' /\ AnswerHolds(s)'
    BY <2>2, <2>3, <2>8 DEF PostingStaysTrue, AnswerHolds, AtPost
  <2> QED
    BY <1>4, <2>4, <2>5, <2>6, <2>7, <2>9, StatementKeepsForum
<1> QED
  BY <1>3, <1>4 DEF InsertPost

-----------------------------------------------------------------------------
(***************************************************************************)
(* Steps of the rest of the server, with the cascade.                      *)
(***************************************************************************)

\* A listed book stays listed until it is deleted.
LEMMA ListedStays ==
    ASSUME IInv, Next, NEW b \in Books, OnShelf(b)
    PROVE  OnShelf(b)' \/ books'[b] = "deleted"
<1>1. TypeOK
  BY DEF IInv
<1>2. CASE UNCHANGED books
  BY <1>2 DEF OnShelf
<1>3. ASSUME NEW k \in Books, NEW a \in BOOLEAN, books' = SetAvailability(k, a)
      PROVE  OnShelf(b)'
  BY <1>1, <1>3, SetAvailabilityRow DEF OnShelf
<1>4. ASSUME NEW h \in Handlers, ConfirmTx(h) \/ ReturnTx(h), ~UNCHANGED books
      PROVE  OnShelf(b)'
  <2>1. /\ Live(call[h].request)
        /\ call[h].step \in {"confirm_tx", "return_tx"}
        /\ \E a \in BOOLEAN : books' = SetAvailability(requests[call[h].request].book, a)
    BY <1>4 DEF ConfirmTx, ReturnTx, At
  <2>2. requests[call[h].request].book \in Books
    BY <2>1, TransactionRows DEF Row
  <2> QED
    BY <1>3, <2>1, <2>2
<1>5. ASSUME NEW h \in Handlers, InsertBook(h) PROVE OnShelf(b)'
  BY <1>3, <1>5 DEF InsertBook
<1>6. ASSUME NEW h \in Handlers, UpdateBook(h), ~UNCHANGED books PROVE OnShelf(b)'
  <2>1. call[h].book \in Books /\ call[h].available \in BOOLEAN
    BY <1>1, <1>6, CallShape DEF TypeOK, UpdateBook, At
  <2> QED
    BY <1>3, <1>6, <2>1 DEF UpdateBook
<1>7. ASSUME NEW h \in Handlers, DeleteBook(h), ~UNCHANGED books
      PROVE  OnShelf(b)' \/ books'[b] = "deleted"
  <2>1. books' = [books EXCEPT ![call[h].book] = "deleted"]
    BY <1>7 DEF DeleteBook, DeleteBookCascade
  <2> QED
    BY <1>1, <2>1 DEF OnShelf, TypeOK
<1>8. CASE EditProfile
  BY <1>2, <1>8 DEF EditProfile, UpdateProfile
<1> QED
  BY <1>2, <1>4, <1>5, <1>6, <1>7, <1>8, QuietSteps
     DEF Next, Begin, Step, RequestStep, CatalogStep

\* What a cascade leaves of the posts is what it found, or nothing.
LEMMA CascadeRows ==
    ASSUME posts \in [PostIds -> PostRows \cup {Unused, Deleted}], CascadePosts
    PROVE  /\ posts' \in [PostIds -> PostRows \cup {Unused, Deleted}]
           /\ \A p \in PostIds :
                \/ posts'[p] = posts[p] /\ (Posted(p) => books'[posts[p].book] # "deleted")
                \/ /\ posts'[p] = Deleted
                   /\ Posted(p) /\ books'[posts[p].book] = "deleted"
  BY DEF CascadePosts

\* A call on requests, books or profiles keeps posts and goroutines in order.
LEMMA ServerStepKeepsForum ==
    ASSUME IInv, ForumIInv, AnswersHold, Next, CascadePosts, UNCHANGED posting
    PROVE  ForumIInv' /\ AnswersHold'
<1>1. \A u \in Users : IsProfileComplete(u) => IsProfileComplete(u)'
  BY NextGrows DEF TablesGrow
<1>2. posts \in [PostIds -> PostRows \cup {Unused, Deleted}]
  BY DEF ForumIInv
<1>3. /\ posts' \in [PostIds -> PostRows \cup {Unused, Deleted}]
      /\ \A p \in PostIds :
           \/ posts'[p] = posts[p] /\ (Posted(p) => books'[posts[p].book] # "deleted")
           \/ posts'[p] = Deleted /\ Posted(p)
  BY <1>2, CascadeRows
<1>4. Deleted.status # "posted" /\ Deleted # Unused
  BY DEF Deleted, Unused
<1>5. PostsGrow
  <2>1. \A p \in PostIds : Posted(p) => posts[p].body \in 0..MaxEdits
    BY <1>2, PostShape
  <2> QED
    BY <1>3, <1>4, <2>1 DEF PostsGrow, PostGrows, Posted
<1>6. ASSUME NEW p \in PostIds, Posted(p)'
      PROVE  OnShelf(posts[p].book)' /\ IsProfileComplete(posts[p].author)'
  <2>1. posts'[p] = posts[p] /\ Posted(p) /\ books'[posts[p].book] # "deleted"
    BY <1>3, <1>4, <1>6 DEF Posted
  <2>2. PICK b \in Books, u \in Users : b = posts[p].book /\ u = posts[p].author
    BY <1>2, <2>1, PostShape
  <2>3. OnShelf(b) /\ IsProfileComplete(u)
    BY <2>1, <2>2 DEF ForumIInv
  <2>4. OnShelf(b)' /\ IsProfileComplete(u)'
    BY <1>1, <2>1, <2>2, <2>3, ListedStays
  <2>5. posts'[p].book = b /\ posts'[p].author = u
    BY <2>1, <2>2
  <2> QED
    BY <2>4, <2>5 DEF OnShelf, IsProfileComplete
<1>7. ASSUME NEW s \in Posters PROVE PostingStaysTrue(s)' /\ AnswerHolds(s)'
  <2>1. posting[s] \in Postings /\ PostingStaysTrue(s) /\ AnswerHolds(s)
    BY DEF ForumIInv, AnswersHold, AnswerHolds
  <2> QED
    BY <1>1, <1>2, <1>3, <1>5, <2>1, PostingSurvives
<1>8. ForumIInv'
  BY <1>3, <1>6, <1>7 DEF ForumIInv
<1>9. AnswersHold'
  BY <1>7 DEF AnswersHold, AnswerHolds
<1> QED
  BY <1>8, <1>9

-----------------------------------------------------------------------------
(***************************************************************************)
(* Invariance.                                                             *)
(***************************************************************************)

\* No post, no call.
LEMMA InitForum == ForumInit => IInv /\ ForumIInv /\ AnswersHold
<1> SUFFICES ASSUME ForumInit PROVE IInv /\ ForumIInv /\ AnswersHold
  OBVIOUS
<1>1. IInv
  BY InitIInv DEF ForumInit
<1>2. ForumIInv /\ AnswersHold
  BY DEF ForumInit, ForumIInv, AnswersHold, PostingStaysTrue, AtPost, Posted, Postings, Idle,
     Unused
<1> QED
  BY <1>1, <1>2

\* Every statement of the forum keeps the invariant.
LEMMA ForumStepKeepsForum ==
    ASSUME ForumIInv, AnswersHold, UNCHANGED vars, NEW s \in Posters, ForumStep(s)
    PROVE  ForumIInv' /\ AnswersHold'
<1>1. CASE \E u \in Users, b \in Books : BeginPost(s, u, b)
  BY <1>1, BeginPostKeepsForum
<1>2. CASE \E u \in Users, p \in PostIds, step \in {"edit", "delete"} :
             BeginChange(s, u, p, step)
  BY <1>2, BeginChangeKeepsForum
<1>3. CASE InsertPost(s)
  BY <1>3, InsertPostKeepsForum
<1>4. CASE WriteEdit(s)
  BY <1>4, WriteEditKeepsForum
<1>5. CASE DeletePost(s)
  BY <1>5, DeletePostKeepsForum
<1>6. CASE Reread(s)
  BY <1>6, RereadKeepsForum
<1>7. CASE AbortPost(s)
  BY <1>7, AbortKeepsForum DEF AbortPost
<1> QED
  BY <1>1, <1>2, <1>3, <1>4, <1>5, <1>6, <1>7 DEF ForumStep

\* So does every step of the server with the forum in it.
LEMMA NextForum ==
    IInv /\ ForumIInv /\ AnswersHold /\ [ForumNext]_allVars
      => (IInv /\ ForumIInv /\ AnswersHold)'
<1> SUFFICES ASSUME IInv, ForumIInv, AnswersHold, [ForumNext]_allVars
             PROVE  IInv' /\ ForumIInv' /\ AnswersHold'
  OBVIOUS
<1>1. CASE Next /\ CascadePosts /\ UNCHANGED posting
  BY <1>1, NextIInv, ServerStepKeepsForum
<1>2. ASSUME NEW s \in Posters, ForumStep(s), UNCHANGED vars
      PROVE  IInv' /\ ForumIInv' /\ AnswersHold'
  BY <1>2, NextIInv, ForumStepKeepsForum
<1>3. CASE UNCHANGED allVars
  <2>1. UNCHANGED vars /\ UNCHANGED posts /\ UNCHANGED posting
    BY <1>3 DEF allVars, forumVars
  <2>2. IInv'
    BY <2>1, NextIInv
  <2>3. ForumIInv'
    BY <2>1 DEF ForumIInv, PostingStaysTrue, AtPost, Posted, OnShelf, IsProfileComplete, vars
  <2>4. AnswersHold'
    BY <2>1 DEF AnswersHold, AtPost, Posted
  <2> QED
    BY <2>2, <2>3, <2>4
<1> QED
  BY <1>1, <1>2, <1>3 DEF ForumNext

\* The forum, together with the server it is part of.
THEOREM ForumInvariance == ForumSpec => [](IInv /\ ForumIInv /\ AnswersHold)
<1> QED
  BY InitForum, NextForum, PTL DEF ForumSpec

\* Posts are under listed books, by students who can be reached, whoever
\* deletes what in the middle of a call.
THEOREM PostsHaveTheirBook == ForumSpec => []ForumIInv
  BY ForumInvariance, PTL

\* 204, 404 and the post an answer shows are true of the table, and stay so.
THEOREM ForumAnswersHold == ForumSpec => []AnswersHold
  BY ForumInvariance, PTL

-----------------------------------------------------------------------------
(***************************************************************************)
(* Posts are their authors'.                                               *)
(***************************************************************************)

\* The steps that make, change or remove a post are those PostStep allows.
LEMMA PostSteps ==
    ASSUME IInv, ForumIInv, AnswersHold, [ForumNext]_allVars, NEW p \in PostIds
    PROVE  PostStep(p)
<1>1. posts \in [PostIds -> PostRows \cup {Unused, Deleted}] /\ Unused # Deleted
  BY PostShape DEF ForumIInv
<1>2. Deleted.status # "posted" /\ Unused.status # "posted"
  BY DEF Deleted, Unused
<1>3. CASE posts'[p] = posts[p]
  BY <1>3 DEF PostStep, Posted
<1>4. CASE CascadePosts
  BY <1>1, <1>2, <1>4, CascadeRows DEF PostStep, Posted
<1>5. ASSUME NEW s \in Posters, ForumStep(s), posts'[p] # posts[p]
      PROVE  PostStep(p)
  <2>1. posting[s] \in Postings /\ posting \in [Posters -> Postings] /\ PostingStaysTrue(s)
    BY DEF ForumIInv
  <2>2. CASE AtPost(s, "insert") /\ InsertPost(s)
    <3>1. PICK q \in PostIds :
            /\ posts[q] = Unused
            /\ \E row : row.status = "posted" /\ posts' = [posts EXCEPT ![q] = row]
      BY <1>5, <2>2 DEF InsertPost
    <3>2. q = p
      BY <1>1, <1>5, <3>1
    <3> QED
      BY <1>1, <1>2, <3>1, <3>2 DEF PostStep, Posted
  <2>3. CASE WriteEdit(s)
    <3>1. PICK q \in PostIds : q = posting[s].post
      BY <2>1, <2>3, PostingShape DEF WriteEdit, AtPost
    <3>2. /\ AtPost(s, "edit") /\ Posted(q) /\ posts[q].body < MaxEdits
          /\ posts' = [posts EXCEPT ![q].body = posts[q].body + 1]
          /\ PostGoto(s, [step |-> "reread", post |-> q, wrote |-> posts[q].body + 1])
      BY <1>5, <2>3, <3>1 DEF WriteEdit
    <3>3. /\ q = p
          /\ posts'[p].author = posts[p].author /\ posts'[p].book = posts[p].book
          /\ posts[p].body + 1 \in 0..MaxEdits /\ posts[p] # Deleted
      <4>1. /\ posts'[q].author = posts[q].author /\ posts'[q].book = posts[q].book
            /\ posts[q].body + 1 \in 0..MaxEdits
            /\ \A r \in PostIds : r # q => posts'[r] = posts[r]
        BY <3>2, EditedRow
      <4>2. posts[q] # Deleted
        BY <1>2, <3>2 DEF Posted
      <4> QED
        BY <1>5, <4>1, <4>2
    <3>4. posting'[s].step = "reread"
      BY <2>1, <3>2, <3>3, NewPostings, PostGotoOne
    <3>5. ChangedBy(s, p, posts[p].author)
      BY <2>1, <3>1, <3>2, <3>3, <3>4 DEF ChangedBy, AtPost, PostingStaysTrue
    <3> QED
      BY <3>3, <3>5 DEF PostStep
  <2>4. CASE DeletePost(s)
    <3>1. PICK q \in PostIds : q = posting[s].post
      BY <2>1, <2>4, PostingShape DEF DeletePost, AtPost
    <3>2. /\ AtPost(s, "delete") /\ Posted(q)
          /\ posts' = [posts EXCEPT ![q] = Deleted]
          /\ PostGoto(s, [step |-> "deleted", post |-> q])
      BY <1>5, <2>4, <3>1 DEF DeletePost
    <3>3. q = p /\ posts'[p] = Deleted
      BY <1>1, <1>5, <3>2
    <3>4. posting'[s].step = "deleted"
      BY <2>1, <3>2, NewPostings, PostGotoOne
    <3>5. ChangedBy(s, p, posts[p].author)
      BY <2>1, <3>1, <3>2, <3>3, <3>4 DEF ChangedBy, AtPost, PostingStaysTrue
    <3> QED
      BY <1>2, <3>3, <3>5 DEF PostStep, Posted
  <2> QED
    BY <1>5, <2>2, <2>3, <2>4 DEF ForumStep, BeginPost, BeginChange, InsertPost, Reread, AbortPost
<1> QED
  BY <1>3, <1>4, <1>5 DEF ForumNext, allVars, forumVars

\* A post changes by a call of its author, or goes with its book, and in no
\* other way.
THEOREM OnlyAuthorsChangePosts == ForumSpec => PostsAreTheirAuthors
<1>1. IInv /\ ForumIInv /\ AnswersHold /\ [ForumNext]_allVars
        => [\A p \in PostIds : PostStep(p)]_allVars
  BY PostSteps
<1> QED
  BY <1>1, ForumInvariance, PTL DEF ForumSpec, PostsAreTheirAuthors

=============================================================================

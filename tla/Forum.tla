------------------------------- MODULE Forum --------------------------------
(***************************************************************************)
(* internal/forum: what students post under a book.  A post belongs to its *)
(* author and to its book, and both are checked before a statement that    *)
(* names the post by id alone; in between the author's other device, or    *)
(* the owner who deletes the book, may get there first.  After a write the *)
(* store reads the row again, and what it finds then is the answer.        *)
(*                                                                         *)
(* Reading page by page is in Paging.                                      *)
(***************************************************************************)
EXTENDS Boibritto, Naturals

CONSTANTS
    Posters,    \* goroutines that can be in the middle of a call at once
    PostIds,    \* book_forum_posts.id; a bound: SERIAL never reuses an id
    MaxEdits    \* a bound on the edits of one post

ASSUME ForumAssumption == MaxEdits \in Nat

VARIABLES
    posts,      \* posts[p]: a row of book_forum_posts, or why there is none
    posting     \* posting[s]: next statement, locals, and at the end the
                \* answer, of goroutine s

forumVars == <<posts, posting>>

allVars == <<vars, forumVars>>

-----------------------------------------------------------------------------
(***************************************************************************)
(* Rows.  A body is the number of the edit that wrote it; the answer calls *)
(* a post edited when there has been one.                                  *)
(***************************************************************************)

PostRows == [status : {"posted"}, book : Books, author : Users, body : 0..MaxEdits]

Posted(p) == posts[p].status = "posted"

Postings ==
    {Idle}
      \cup [step : {"insert"}, book : Books, author : Users]
      \cup [step : {"edit", "delete"}, post : PostIds, author : Users]
      \cup [step : {"reread"}, post : PostIds, wrote : 0..MaxEdits]
      \cup [step : {"shown"}, post : PostIds, wrote : 0..MaxEdits, body : 0..MaxEdits]
      \cup [step : {"deleted", "not_found"}, post : PostIds]

AtPost(s, step) == posting[s].step = step

Free(s) == posting[s].step \in {"idle", "shown", "deleted", "not_found"}

PostGoto(s, next) == posting' = [posting EXCEPT ![s] = next]

AnswerNotFound(s) == PostGoto(s, [step |-> "not_found", post |-> posting[s].post])

-----------------------------------------------------------------------------
(***************************************************************************)
(* POST /books/{id}/forum.                                                 *)
(***************************************************************************)

BeginPost(s, u, b) ==
    /\ Free(s)
    /\ IsProfileComplete(u)
    /\ OnShelf(b)
    /\ PostGoto(s, [step |-> "insert", book |-> b, author |-> u])
    /\ UNCHANGED posts

\* Mutant: a table without the foreign key.
InsertPostAnyBook(s) ==
    /\ AtPost(s, "insert")
    /\ \E p \in PostIds :
         /\ posts[p] = Unused
         /\ posts' = [posts EXCEPT ![p] = [status |-> "posted", book |-> posting[s].book,
                                           author |-> posting[s].author, body |-> 0]]
         /\ PostGoto(s, [step |-> "reread", post |-> p, wrote |-> 0])

\* The foreign key refuses a post on a book that is gone by now.
InsertPost(s) ==
    /\ AtPost(s, "insert")
    /\ \/ /\ OnShelf(posting[s].book)
          /\ \E p \in PostIds :
               /\ posts[p] = Unused
               /\ posts' = [posts EXCEPT ![p] = [status |-> "posted", book |-> posting[s].book,
                                                 author |-> posting[s].author, body |-> 0]]
               /\ PostGoto(s, [step |-> "reread", post |-> p, wrote |-> 0])
       \/ /\ ~OnShelf(posting[s].book)
          /\ PostGoto(s, Idle)
          /\ UNCHANGED posts

\* The row as it is after the write, and after whatever came since.
Reread(s) ==
    /\ AtPost(s, "reread")
    /\ LET p == posting[s].post
       IN  \/ /\ Posted(p)
              /\ PostGoto(s, [step |-> "shown", post |-> p, wrote |-> posting[s].wrote,
                              body |-> posts[p].body])
           \/ ~Posted(p) /\ AnswerNotFound(s)
    /\ UNCHANGED posts

-----------------------------------------------------------------------------
(***************************************************************************)
(* PATCH /forum/{postID} and DELETE /forum/{postID}: the check, then the   *)
(* statement by id.                                                        *)
(***************************************************************************)

\* Mutant: whoever can read a post can change it.
BeginChangeAnyone(s, u, p, step) ==
    /\ Free(s)
    /\ Posted(p)
    /\ PostGoto(s, [step |-> step, post |-> p, author |-> u])
    /\ UNCHANGED posts

BeginChange(s, u, p, step) ==
    /\ Free(s)
    /\ Posted(p)
    /\ posts[p].author = u
    /\ PostGoto(s, [step |-> step, post |-> p, author |-> u])
    /\ UNCHANGED posts

WriteEdit(s) ==
    /\ AtPost(s, "edit")
    /\ LET p == posting[s].post
       IN  \/ /\ Posted(p)
              /\ posts[p].body < MaxEdits
              /\ posts' = [posts EXCEPT ![p].body = @ + 1]
              /\ PostGoto(s, [step |-> "reread", post |-> p, wrote |-> posts[p].body + 1])
           \/ /\ ~Posted(p)
              /\ AnswerNotFound(s)
              /\ UNCHANGED posts

\* Mutant: the error of the DELETE is not looked at.
DeletePostUnchecked(s) ==
    /\ AtPost(s, "delete")
    /\ LET p == posting[s].post
       IN  /\ posts' \in {posts, [posts EXCEPT ![p] = Deleted]}
           /\ PostGoto(s, [step |-> "deleted", post |-> p])

DeletePost(s) ==
    /\ AtPost(s, "delete")
    /\ LET p == posting[s].post
       IN  \/ /\ Posted(p)
              /\ posts' = [posts EXCEPT ![p] = Deleted]
              /\ PostGoto(s, [step |-> "deleted", post |-> p])
           \/ /\ ~Posted(p)
              /\ AnswerNotFound(s)
              /\ UNCHANGED posts

\* As Abort: an error, or the client has hung up.
AbortPost(s) ==
    /\ ~Free(s)
    /\ PostGoto(s, Idle)
    /\ UNCHANGED posts

ForumStep(s) ==
    \/ \E u \in Users :
         \/ \E b \in Books : BeginPost(s, u, b)
         \/ \E p \in PostIds, step \in {"edit", "delete"} : BeginChange(s, u, p, step)
    \/ InsertPost(s)
    \/ WriteEdit(s)
    \/ DeletePost(s)
    \/ Reread(s)
    \/ AbortPost(s)

-----------------------------------------------------------------------------

ForumInit ==
    /\ Init
    /\ posts = [p \in PostIds |-> Unused]
    /\ posting = [s \in Posters |-> Idle]

\* ON DELETE CASCADE: the posts of a book go with it, in the same statement.
CascadePosts ==
    posts' = [p \in PostIds |->
                IF Posted(p) /\ books'[posts[p].book] = "deleted" THEN Deleted ELSE posts[p]]

ForumNext ==
    \/ Next /\ CascadePosts /\ UNCHANGED posting
    \/ \E s \in Posters : ForumStep(s) /\ UNCHANGED vars

ForumSpec == ForumInit /\ [][ForumNext]_allVars

-----------------------------------------------------------------------------
(***************************************************************************)
(* Properties.                                                             *)
(***************************************************************************)

\* What goroutine s has checked or written, and found out, stays true.
PostingStaysTrue(s) ==
    /\ AtPost(s, "insert") => IsProfileComplete(posting[s].author)
    /\ AtPost(s, "edit") \/ AtPost(s, "delete") =>
         /\ posts[posting[s].post] # Unused
         /\ Posted(posting[s].post) => posts[posting[s].post].author = posting[s].author
    /\ AtPost(s, "reread") =>
         /\ posts[posting[s].post] # Unused
         /\ Posted(posting[s].post) => posts[posting[s].post].body >= posting[s].wrote
    /\ AtPost(s, "shown") => posts[posting[s].post] # Unused

\* Type invariant, and: a post is under a listed book, by a student who can be
\* reached, though book and profile were checked statements before.
ForumIInv ==
    /\ posts \in [PostIds -> PostRows \cup {Unused, Deleted}]
    /\ posting \in [Posters -> Postings]
    /\ \A p \in PostIds :
         Posted(p) => OnShelf(posts[p].book) /\ IsProfileComplete(posts[p].author)
    /\ \A s \in Posters : PostingStaysTrue(s)

\* Whatever raced with a call, its answer is true, and stays so: a post that
\* was deleted, or not found any more, never comes back, and an answer that
\* shows a post shows the caller's own write or a later one.
AnswersHold ==
    \A s \in Posters :
      /\ posting[s].step \in {"deleted", "not_found"} => posts[posting[s].post] = Deleted
      /\ AtPost(s, "shown") =>
           /\ posting[s].body >= posting[s].wrote
           /\ Posted(posting[s].post) => posts[posting[s].post].body >= posting[s].body

\* Goroutine s has just run its statement on p, for a caller that is u.
ChangedBy(s, p, u) ==
    /\ AtPost(s, "edit") \/ AtPost(s, "delete")
    /\ posting[s].post = p /\ posting[s].author = u
    /\ posting'[s] # posting[s]

\* A post changes or goes only by a call of its author or with its book; it
\* never changes hands, and never comes back.
PostStep(p) ==
    /\ Posted(p) /\ posts'[p] # posts[p] =>
         \/ \E s \in Posters : ChangedBy(s, p, posts[p].author)
         \/ books'[posts[p].book] = "deleted"
    /\ Posted(p) /\ Posted(p)' =>
         posts'[p].author = posts[p].author /\ posts'[p].book = posts[p].book
    /\ posts[p] = Deleted => posts'[p] = Deleted

PostsAreTheirAuthors == [][\A p \in PostIds : PostStep(p)]_allVars

=============================================================================

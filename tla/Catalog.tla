------------------------------ MODULE Catalog -------------------------------
(***************************************************************************)
(* internal/books and internal/profile: what students list, and the        *)
(* profile a student must complete before listing.                         *)
(***************************************************************************)
EXTENDS Tables

-----------------------------------------------------------------------------
(***************************************************************************)
(* PATCH /me.  COALESCE keeps a column the request does not mention; the   *)
(* service refuses an empty name and a malformed number.                   *)
(***************************************************************************)

\* Mutant: columns the request does not mention are cleared.
UpdateProfileOverwrites(u, fields) ==
    /\ profile' = [profile EXCEPT ![u] = fields]
    /\ UNCHANGED <<books, requests, threads, reminders, call>>

UpdateProfile(u, fields) ==
    /\ profile' = [profile EXCEPT ![u] = @ \cup fields]
    /\ UNCHANGED <<books, requests, threads, reminders, call>>

-----------------------------------------------------------------------------
(***************************************************************************)
(* POST /books.                                                            *)
(***************************************************************************)

BeginCreateBook(h, u) ==
    /\ call[h] = Idle
    /\ IsProfileComplete(u)
    /\ Goto(h, [step |-> "insert_book", owner |-> u])
    /\ UNCHANGED <<profile, books, requests, threads, reminders>>

InsertBook(h) ==
    /\ At(h, "insert_book")
    /\ \E b \in Books :
         /\ books[b] = "unused"
         /\ Owner[b] = call[h].owner
         /\ books' = SetAvailability(b, TRUE)
    /\ Return(h)
    /\ UNCHANGED <<profile, requests, threads, reminders>>

-----------------------------------------------------------------------------
(***************************************************************************)
(* PATCH /books/{id}.  Title, author and the other columns are not         *)
(* modelled; `available' is written when the body has it.                  *)
(***************************************************************************)

BeginUpdateBook(h, u, b, available) ==
    /\ call[h] = Idle
    /\ OnShelf(b)
    /\ u = Owner[b]
    /\ Goto(h, [step |-> "update_book", book |-> b, available |-> available])
    /\ UNCHANGED <<profile, books, requests, threads, reminders>>

UpdateBook(h) ==
    /\ At(h, "update_book")
    /\ books' = IF OnShelf(call[h].book)
                THEN SetAvailability(call[h].book, call[h].available)
                ELSE books
    /\ Return(h)
    /\ UNCHANGED <<profile, requests, threads, reminders>>

-----------------------------------------------------------------------------
(***************************************************************************)
(* DELETE /books/{id}.  Threads are in Firestore: they stay.               *)
(***************************************************************************)

BeginDeleteBook(h, u, b) ==
    /\ call[h] = Idle
    /\ OnShelf(b)
    /\ u = Owner[b]
    /\ Goto(h, [step |-> "delete_book", book |-> b])
    /\ UNCHANGED <<profile, books, requests, threads, reminders>>

DeleteBook(h) ==
    /\ At(h, "delete_book")
    /\ IF OnShelf(call[h].book)
       THEN DeleteBookCascade(call[h].book)
       ELSE UNCHANGED <<books, requests>>
    /\ Return(h)
    /\ UNCHANGED <<profile, threads, reminders>>

-----------------------------------------------------------------------------

BeginCatalogCall(h) ==
    \E u \in Users :
      \/ BeginCreateBook(h, u)
      \/ \E b \in Books :
           \/ \E available \in OwnerPatches : BeginUpdateBook(h, u, b, available)
           \/ BeginDeleteBook(h, u, b)

CatalogStep(h) ==
    \/ InsertBook(h)
    \/ UpdateBook(h)
    \/ DeleteBook(h)

=============================================================================

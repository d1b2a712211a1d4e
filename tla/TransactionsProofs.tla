------------------------- MODULE TransactionsProofs -------------------------
(***************************************************************************)
(* The server with row locks and a connection pool implements Boibritto,   *)
(* for any number of students, books, requests, goroutines and             *)
(* connections; so every safety theorem of BoibrittoProofs holds of it.    *)
(*                                                                         *)
(* The two invariants are proved together: IInv is kept because every step *)
(* is a step of Boibritto, and it is one because, by LocksIInv, what a     *)
(* transaction has written is still its change to the committed rows.      *)
(* The corollaries at the end carry the theorems of Boibritto over.        *)
(***************************************************************************)
EXTENDS Transactions, BoibrittoProofs

-----------------------------------------------------------------------------
(***************************************************************************)
(* Locks.                                                                  *)
(***************************************************************************)

\* A goroutine that is at no statement of a transaction has no lock, and,
\* unless it is about to insert a request, no connection.
LEMMA Unlocked ==
    ASSUME LocksIInv, NEW h \in Handlers, ~InTx(h)
    PROVE  /\ newRequests[h] = NoRows
           /\ newBooks[h] = NoRows
           /\ h \in conns => At(h, "insert_request")
  BY DEF LocksIInv, Locked

\* When goroutine h is left without locks and connection, the others have
\* theirs, and nothing they have locked has changed, the locks are in order.
LEMMA Detached ==
    ASSUME LocksIInv, NEW h \in Handlers, NEW c,
           DOMAIN call = Handlers,
           call' = [call EXCEPT ![h] = c],
           conns' = conns \ {h},
           DOMAIN newRequests' = Handlers, DOMAIN newBooks' = Handlers,
           newRequests'[h] = NoRows, newBooks'[h] = NoRows,
           \A g \in Others(h) : newRequests'[g] = newRequests[g] /\ newBooks'[g] = newBooks[g],
           \A g \in Others(h) :
             /\ \A r \in DOMAIN newRequests[g] : requests'[r] = requests[r]
             /\ \A b \in DOMAIN newBooks[g] : books'[b] = books[b]
    PROVE  LocksIInv'
<1>1. \A g \in Others(h) : call'[g] = call[g]
  BY DEF Others
<1>2. Locked(h)'
  BY DEF Locked, NoRows
<1>3. ASSUME NEW g \in Others(h) PROVE Locked(g)'
  <2>1. g \in Handlers /\ g # h /\ Locked(g)
    BY DEF Others, LocksIInv
  <2>2. call'[g] = call[g] /\ newRequests'[g] = newRequests[g] /\ newBooks'[g] = newBooks[g]
    BY <1>1
  <2>3. newRequests'[g] # NoRows \/ newBooks'[g] # NoRows => g \in conns' /\ InTx(g)'
    BY <2>1, <2>2 DEF Locked, InTx
  <2>4. ASSUME NEW r \in DOMAIN newRequests'[g]
        PROVE  /\ r \in RequestIds
               /\ Live(r)'
               /\ RequestFree(g, r)'
               /\ newRequests'[g][r] = RequestVersion(g, r)'
               /\ \/ /\ call'[g].step \in {"update_status", "confirm_tx", "return_tx"}
                     /\ r = call'[g].request
                  \/ /\ At(g, "delete_book")'
                     /\ call'[g].book \in DOMAIN newBooks'[g]
                     /\ requests'[r].book = call'[g].book
    <3>1. r \in DOMAIN newRequests[g] /\ requests'[r] = requests[r]
      BY <2>2
    <3>2. RequestFree(g, r)'
      BY <2>1, <3>1 DEF Locked, RequestFree, Others, NoRows
    <3>3. RequestVersion(g, r)' = RequestVersion(g, r)
      BY <2>2, <3>1 DEF RequestVersion, At, UpdateStatus, SetConfirmed
    <3> QED
      BY <2>1, <2>2, <3>1, <3>2, <3>3 DEF Locked, Live, At
  <2>5. ASSUME NEW b \in DOMAIN newBooks'[g]
        PROVE  /\ b \in Books
               /\ OnShelf(b)'
               /\ BookFree(g, b)'
               /\ newBooks'[g][b] = BookVersion(g)'
               /\ \/ /\ call'[g].step \in {"update_book", "delete_book"}
                     /\ b = call'[g].book
                  \/ /\ MovesBook(g)'
                     /\ \E r \in DOMAIN newRequests'[g] : newRequests'[g][r].book = b
    <3>1. b \in DOMAIN newBooks[g] /\ books'[b] = books[b]
      BY <2>2
    <3>2. BookFree(g, b)'
      BY <2>1, <3>1 DEF Locked, BookFree, Others, NoRows
    <3>3. BookVersion(g)' = BookVersion(g)
      BY <2>2 DEF BookVersion, At
    <3> QED
      BY <2>1, <2>2, <3>1, <3>2, <3>3 DEF Locked, OnShelf, At, MovesBook
  <2> QED
    BY <2>3, <2>4, <2>5 DEF Locked
<1>4. \A g \in conns' \cap Handlers : InTx(g)' \/ At(g, "insert_request")'
  BY <1>1 DEF LocksIInv, InTx, At, Others
<1> QED
  BY <1>2, <1>3, <1>4 DEF LocksIInv, Others


\* The versions that each kind of transaction writes.
LEMMA Versions ==
    ASSUME NEW h, NEW r
    PROVE  /\ At(h, "update_status") =>
                RequestVersion(h, r) = UpdateStatus(requests[r], call[h].status)
           /\ At(h, "confirm_tx") /\ call[h].otherConfirmed =>
                RequestVersion(h, r) =
                  UpdateStatus(SetConfirmed(requests[r], call[h].role), "active")
           /\ At(h, "confirm_tx") /\ ~call[h].otherConfirmed =>
                RequestVersion(h, r) = SetConfirmed(requests[r], call[h].role)
           /\ At(h, "return_tx") => RequestVersion(h, r) = UpdateStatus(requests[r], "returned")
           /\ At(h, "delete_book") => RequestVersion(h, r) = Deleted
           /\ At(h, "update_book") => BookVersion(h) = Availability(call[h].available)
           /\ At(h, "confirm_tx") => BookVersion(h) = Availability(FALSE)
           /\ At(h, "return_tx") => BookVersion(h) = Availability(TRUE)
           /\ At(h, "delete_book") => BookVersion(h) = "deleted"
<1>1. At(h, "update_status") =>
        RequestVersion(h, r) = UpdateStatus(requests[r], call[h].status)
  BY Zenon DEF RequestVersion, At
<1>2. ASSUME At(h, "confirm_tx")
      PROVE  /\ ~At(h, "update_status") /\ ~At(h, "update_book")
             /\ ~At(h, "return_tx") /\ ~At(h, "delete_book")
  BY <1>2 DEF At
<1>3. ASSUME At(h, "return_tx")
      PROVE  /\ ~At(h, "update_status") /\ ~At(h, "update_book")
             /\ ~At(h, "confirm_tx") /\ ~At(h, "delete_book")
  BY <1>3 DEF At
<1>4. ASSUME At(h, "delete_book")
      PROVE  /\ ~At(h, "update_status") /\ ~At(h, "update_book")
             /\ ~At(h, "confirm_tx") /\ ~At(h, "return_tx")
  BY <1>4 DEF At
<1>5. At(h, "confirm_tx") =>
        RequestVersion(h, r) =
          IF call[h].otherConfirmed
          THEN UpdateStatus(SetConfirmed(requests[r], call[h].role), "active")
          ELSE SetConfirmed(requests[r], call[h].role)
  BY <1>2, Zenon DEF RequestVersion
<1>6. At(h, "return_tx") => RequestVersion(h, r) = UpdateStatus(requests[r], "returned")
  BY <1>3, Zenon DEF RequestVersion
<1>7. At(h, "delete_book") => RequestVersion(h, r) = Deleted
  BY <1>4, Zenon DEF RequestVersion
<1>8. At(h, "update_book") => BookVersion(h) = Availability(call[h].available)
  BY Zenon DEF BookVersion, At
<1>9. At(h, "confirm_tx") => BookVersion(h) = Availability(FALSE)
  BY <1>2, Zenon DEF BookVersion
<1>10. At(h, "return_tx") => BookVersion(h) = Availability(TRUE)
  BY <1>3, Zenon DEF BookVersion
<1>11. At(h, "delete_book") => BookVersion(h) = "deleted"
  BY <1>4, Zenon DEF BookVersion
<1> QED
  BY <1>1, <1>5, <1>6, <1>7, <1>8, <1>9, <1>10, <1>11

\* A goroutine that ends its transaction has its locks released, and nothing
\* else has changed in the locks.
LEMMA Released ==
    ASSUME LocksIInv, TypeOK, NEW h \in Handlers, NEW c,
           call' = [call EXCEPT ![h] = c],
           Release(h),
           \A g \in Others(h) :
             /\ \A r \in DOMAIN newRequests[g] : requests'[r] = requests[r]
             /\ \A b \in DOMAIN newBooks[g] : books'[b] = books[b]
    PROVE  LocksIInv'
<1>1. DOMAIN call = Handlers
  BY DEF TypeOK
<1>2. /\ DOMAIN newRequests' = Handlers /\ DOMAIN newBooks' = Handlers
      /\ newRequests'[h] = NoRows /\ newBooks'[h] = NoRows
      /\ \A g \in Others(h) : newRequests'[g] = newRequests[g] /\ newBooks'[g] = newBooks[g]
  BY DEF Release, LocksIInv, Others
<1>3. conns' = conns \ {h}
  BY DEF Release
<1> QED
  BY <1>1, <1>2, <1>3, Detached

\* A goroutine that has no locks moves on, and changes no locked row.
LEMMA Stayed ==
    ASSUME LocksIInv, TypeOK, NEW h \in Handlers, NEW c,
           call' = [call EXCEPT ![h] = c],
           ~InTx(h), ~At(h, "insert_request"),
           UNCHANGED txVars,
           \A g \in Others(h) :
             /\ \A r \in DOMAIN newRequests[g] : requests'[r] = requests[r]
             /\ \A b \in DOMAIN newBooks[g] : books'[b] = books[b]
    PROVE  LocksIInv'
<1>1. DOMAIN call = Handlers
  BY DEF TypeOK
<1>2. h \notin conns /\ newRequests[h] = NoRows /\ newBooks[h] = NoRows
  BY Unlocked
<1>3. /\ DOMAIN newRequests' = Handlers /\ DOMAIN newBooks' = Handlers
      /\ newRequests'[h] = NoRows /\ newBooks'[h] = NoRows
      /\ \A g \in Others(h) : newRequests'[g] = newRequests[g] /\ newBooks'[g] = newBooks[g]
      /\ conns' = conns \ {h}
  BY <1>2 DEF txVars, LocksIInv
<1> QED
  BY <1>1, <1>3, Detached

-----------------------------------------------------------------------------
(***************************************************************************)
(* One lemma per action: the locks stay in order.                          *)
(***************************************************************************)

\* A goroutine that comes by a connection, or gives one back that it held no
\* locks with, changes nothing about any lock.
LEMMA SameLocks ==
    ASSUME LocksIInv, UNCHANGED vars, UNCHANGED <<newRequests, newBooks>>,
           conns \cap Handlers \subseteq conns'
    PROVE  \A h \in Handlers : Locked(h)'
<1>1. /\ call' = call /\ requests' = requests /\ books' = books
      /\ newRequests' = newRequests /\ newBooks' = newBooks
  BY DEF vars
<1> SUFFICES ASSUME NEW h \in Handlers PROVE Locked(h)'
  OBVIOUS
<1>2. Locked(h)
  BY DEF LocksIInv
<1>3. /\ \A r : RequestVersion(h, r)' = RequestVersion(h, r)
      /\ BookVersion(h)' = BookVersion(h)
  BY <1>1, Zenon DEF RequestVersion, BookVersion, At
<1>4. /\ \A r : Live(r)' = Live(r) /\ RequestFree(h, r)' = RequestFree(h, r)
      /\ \A b : OnShelf(b)' = OnShelf(b) /\ BookFree(h, b)' = BookFree(h, b)
      /\ MovesBook(h)' = MovesBook(h) /\ InTx(h)' = InTx(h)
      /\ At(h, "delete_book")' = At(h, "delete_book")
  BY <1>1, Zenon DEF Live, RequestFree, OnShelf, BookFree, MovesBook, InTx, At
<1>5. h \in conns => h \in conns'
  OBVIOUS
<1> QED
  BY <1>1, <1>2, <1>3, <1>4, <1>5, Zenon DEF Locked

LEMMA AcquireKeepsLocks ==
    ASSUME LocksIInv, NEW h \in Handlers, Acquire(h)
    PROVE  LocksIInv'
<1>1. UNCHANGED vars /\ UNCHANGED <<newRequests, newBooks>>
  BY DEF Acquire
<1>2. \A g \in Handlers : Locked(g)'
  BY <1>1, SameLocks DEF Acquire
<1>3. \A g \in conns' \cap Handlers : InTx(g)' \/ At(g, "insert_request")'
  BY <1>1 DEF Acquire, LocksIInv, vars, InTx, At
<1> QED
  BY <1>1, <1>2, <1>3 DEF Acquire, LocksIInv

LEMMA QueriesKeepLocks ==
    ASSUME LocksIInv, NEW q \in Readers, StartQuery(q) \/ EndQuery(q)
    PROVE  LocksIInv'
<1>1. UNCHANGED vars /\ UNCHANGED <<newRequests, newBooks>>
  BY DEF StartQuery, EndQuery
<1>2. conns' \cap Handlers = conns \cap Handlers
  BY PoolAssumption DEF StartQuery, EndQuery
<1>3. \A g \in Handlers : Locked(g)'
  BY <1>1, <1>2, SameLocks
<1>4. \A g \in conns' \cap Handlers : InTx(g)' \/ At(g, "insert_request")'
  BY <1>1, <1>2 DEF LocksIInv, vars, InTx, At
<1> QED
  BY <1>1, <1>3, <1>4 DEF StartQuery, EndQuery, LocksIInv

\* The transaction ends without effect: it is cancelled, or finds no row.
LEMMA EndingKeepsLocks ==
    ASSUME LocksIInv, TypeOK, NEW h \in Handlers, Return(h), Release(h),
           UNCHANGED <<requests, books>>
    PROVE  LocksIInv'
<1>1. call' = [call EXCEPT ![h] = Idle]
  BY DEF Return, Goto
<1> QED
  BY <1>1, Released

LEMMA WriteRequestKeepsLocks ==
    ASSUME LocksIInv, TypeOK, NEW h \in Handlers, WriteRequest(h)
    PROVE  LocksIInv'
<1>1. PICK r \in NextRequests(h) :
        /\ RequestFree(h, r)
        /\ \/ /\ Live(r)
              /\ newRequests' = [newRequests EXCEPT ![h] = With(@, r, RequestVersion(h, r))]
              /\ UNCHANGED <<vars, conns, newBooks>>
           \/ /\ ~Live(r)
              /\ NotFound(h)
  BY DEF WriteRequest
<1>2. CASE NotFound(h)
  BY <1>2, EndingKeepsLocks DEF NotFound
<1>3. CASE ~NotFound(h)
  <2>1. /\ Live(r)
        /\ newRequests' = [newRequests EXCEPT ![h] = With(@, r, RequestVersion(h, r))]
        /\ call' = call /\ requests' = requests /\ books' = books
        /\ conns' = conns /\ newBooks' = newBooks
    BY <1>1, <1>3 DEF vars
  <2>2. /\ DOMAIN newRequests' = Handlers
        /\ \A g \in Others(h) : newRequests'[g] = newRequests[g]
        /\ newRequests'[h] = With(newRequests[h], r, RequestVersion(h, r))
    BY <2>1 DEF LocksIInv, Others
  <2>3. /\ DOMAIN newRequests'[h] = DOMAIN newRequests[h] \cup {r}
        /\ newRequests'[h][r] = RequestVersion(h, r)
        /\ \A q \in DOMAIN newRequests[h] \ {r} : newRequests'[h][q] = newRequests[h][q]
    BY <2>2 DEF With
  <2>4. r \in RequestIds /\ r \notin DOMAIN newRequests[h]
    BY DEF NextRequests
  <2>5. \A g, q :
          /\ RequestVersion(g, q)' = RequestVersion(g, q) /\ BookVersion(g)' = BookVersion(g)
          /\ Live(q)' = Live(q) /\ OnShelf(q)' = OnShelf(q)
          /\ BookFree(g, q)' = BookFree(g, q)
          /\ MovesBook(g)' = MovesBook(g) /\ InTx(g)' = InTx(g)
          /\ At(g, "delete_book")' = At(g, "delete_book")
    BY <2>1, Zenon
       DEF RequestVersion, BookVersion, Live, OnShelf, BookFree, MovesBook, InTx, At
  <2>6. Locked(h)'
    <3>1. Locked(h)
      BY DEF LocksIInv
    <3>2. h \in conns' /\ InTx(h)'
      BY <2>1, <2>5 DEF WriteRequest, NextRequests, InTx, At, WritingSteps
    <3>3. ASSUME NEW q \in DOMAIN newRequests'[h]
          PROVE  /\ q \in RequestIds
                 /\ Live(q)'
                 /\ RequestFree(h, q)'
                 /\ newRequests'[h][q] = RequestVersion(h, q)'
                 /\ \/ /\ call'[h].step \in {"update_status", "confirm_tx", "return_tx"}
                       /\ q = call'[h].request
                    \/ /\ At(h, "delete_book")'
                       /\ call'[h].book \in DOMAIN newBooks'[h]
                       /\ requests'[q].book = call'[h].book
      <4>1. CASE q = r
        <5>1. RequestFree(h, r)'
          BY <1>1, <2>2 DEF RequestFree
        <5> QED
          BY <4>1, <5>1, <2>1, <2>3, <2>4, <2>5 DEF NextRequests, At
      <4>2. CASE q # r
        <5>1. q \in DOMAIN newRequests[h]
          BY <4>2, <2>3
        <5>2. RequestFree(h, q)'
          BY <3>1, <5>1, <2>2 DEF RequestFree, Locked
        <5> QED
          BY <3>1, <4>2, <5>1, <5>2, <2>1, <2>3, <2>5 DEF Locked, At
      <4> QED
        BY <4>1, <4>2
    <3>4. ASSUME NEW b \in DOMAIN newBooks'[h]
          PROVE  /\ b \in Books
                 /\ OnShelf(b)'
                 /\ BookFree(h, b)'
                 /\ newBooks'[h][b] = BookVersion(h)'
                 /\ \/ /\ call'[h].step \in {"update_book", "delete_book"}
                       /\ b = call'[h].book
                    \/ /\ MovesBook(h)'
                       /\ \E q \in DOMAIN newRequests'[h] : newRequests'[h][q].book = b
      <4>1. b \in DOMAIN newBooks[h]
        BY <2>1
      <4>2. (\E q \in DOMAIN newRequests[h] : newRequests[h][q].book = b) =>
              \E q \in DOMAIN newRequests'[h] : newRequests'[h][q].book = b
        BY <2>3, <2>4
      <4> QED
        BY <3>1, <4>1, <4>2, <2>1, <2>5 DEF Locked
    <3> QED
      BY <3>2, <3>3, <3>4 DEF Locked
  <2>7. ASSUME NEW g \in Others(h) PROVE Locked(g)'
    <3>1. g \in Handlers /\ g # h /\ Locked(g) /\ newRequests'[g] = newRequests[g]
      BY <2>2 DEF LocksIInv, Others
    <3>2. \A q \in DOMAIN newRequests[g] : RequestFree(g, q)'
      <4>1. \A q \in DOMAIN newRequests[g] : q # r /\ RequestFree(g, q)
        BY <1>1, <3>1 DEF RequestFree, Locked, Others
      <4> QED
        BY <4>1, <2>2, <2>3 DEF RequestFree, Others
    <3> QED
      BY <3>1, <3>2, <2>1, <2>5 DEF Locked, At
  <2> QED
    BY <2>1, <2>2, <2>5, <2>6, <2>7 DEF LocksIInv, Others, At
<1> QED
  BY <1>2, <1>3

LEMMA WriteBookKeepsLocks ==
    ASSUME LocksIInv, TypeOK, NEW h \in Handlers, WriteBook(h)
    PROVE  LocksIInv'
<1>1. PICK b \in NextBooks(h) :
        /\ BookFree(h, b)
        /\ \/ /\ OnShelf(b)
              /\ newBooks' = [newBooks EXCEPT ![h] = With(@, b, BookVersion(h))]
              /\ UNCHANGED <<vars, conns, newRequests>>
           \/ /\ ~OnShelf(b)
              /\ NotFound(h)
  BY DEF WriteBook
<1>2. CASE NotFound(h)
  BY <1>2, EndingKeepsLocks DEF NotFound
<1>3. CASE ~NotFound(h)
  <2>1. /\ OnShelf(b)
        /\ newBooks' = [newBooks EXCEPT ![h] = With(@, b, BookVersion(h))]
        /\ call' = call /\ requests' = requests /\ books' = books
        /\ conns' = conns /\ newRequests' = newRequests
    BY <1>1, <1>3 DEF vars
  <2>2. /\ DOMAIN newBooks' = Handlers
        /\ \A g \in Others(h) : newBooks'[g] = newBooks[g]
        /\ newBooks'[h] = With(newBooks[h], b, BookVersion(h))
    BY <2>1 DEF LocksIInv, Others
  <2>3. /\ DOMAIN newBooks'[h] = DOMAIN newBooks[h] \cup {b}
        /\ newBooks'[h][b] = BookVersion(h)
        /\ \A k \in DOMAIN newBooks[h] \ {b} : newBooks'[h][k] = newBooks[h][k]
    BY <2>2 DEF With
  <2>4. b \in Books /\ b \notin DOMAIN newBooks[h]
    BY DEF NextBooks
  <2>5. \A g, q :
          /\ RequestVersion(g, q)' = RequestVersion(g, q) /\ BookVersion(g)' = BookVersion(g)
          /\ Live(q)' = Live(q) /\ OnShelf(q)' = OnShelf(q)
          /\ RequestFree(g, q)' = RequestFree(g, q)
          /\ MovesBook(g)' = MovesBook(g) /\ InTx(g)' = InTx(g)
          /\ At(g, "delete_book")' = At(g, "delete_book")
    BY <2>1, Zenon
       DEF RequestVersion, BookVersion, Live, OnShelf, RequestFree, MovesBook, InTx, At
  <2>6. Locked(h)'
    <3>1. Locked(h)
      BY DEF LocksIInv
    <3>2. h \in conns' /\ InTx(h)'
      BY <2>1, <2>5 DEF WriteBook, NextBooks, MovesBook, InTx, At, WritingSteps
    <3>3. ASSUME NEW k \in DOMAIN newBooks'[h]
          PROVE  /\ k \in Books
                 /\ OnShelf(k)'
                 /\ BookFree(h, k)'
                 /\ newBooks'[h][k] = BookVersion(h)'
                 /\ \/ /\ call'[h].step \in {"update_book", "delete_book"}
                       /\ k = call'[h].book
                    \/ /\ MovesBook(h)'
                       /\ \E q \in DOMAIN newRequests'[h] : newRequests'[h][q].book = k
      <4>1. CASE k = b
        <5>1. BookFree(h, b)'
          BY <1>1, <2>2 DEF BookFree
        <5> QED
          BY <4>1, <5>1, <2>1, <2>3, <2>4, <2>5 DEF NextBooks, At
      <4>2. CASE k # b
        <5>1. k \in DOMAIN newBooks[h]
          BY <4>2, <2>3
        <5>2. BookFree(h, k)'
          BY <3>1, <5>1, <2>2 DEF BookFree, Locked
        <5> QED
          BY <3>1, <4>2, <5>1, <5>2, <2>1, <2>3, <2>5 DEF Locked, At
      <4> QED
        BY <4>1, <4>2
    <3> QED
      BY <3>1, <3>2, <3>3, <2>1, <2>3, <2>5 DEF Locked, At
  <2>7. ASSUME NEW g \in Others(h) PROVE Locked(g)'
    <3>1. g \in Handlers /\ g # h /\ Locked(g) /\ newBooks'[g] = newBooks[g]
      BY <2>2 DEF LocksIInv, Others
    <3>2. \A k \in DOMAIN newBooks[g] : BookFree(g, k)'
      <4>1. \A k \in DOMAIN newBooks[g] : k # b /\ BookFree(g, k)
        BY <1>1, <3>1 DEF BookFree, Locked, Others
      <4> QED
        BY <4>1, <2>2, <2>3 DEF BookFree, Others
    <3> QED
      BY <3>1, <3>2, <2>1, <2>5 DEF Locked, At
  <2> QED
    BY <2>1, <2>2, <2>5, <2>6, <2>7 DEF LocksIInv, Others, At
<1> QED
  BY <1>2, <1>3

\* A commit changes the rows that the transaction has locked, and no other.
LEMMA CommitKeepsLocks ==
    ASSUME LocksIInv, TypeOK, NEW h \in Handlers, Commit(h)
    PROVE  LocksIInv'
<1>1. PICK c : call' = [call EXCEPT ![h] = c]
  BY DEF Commit, Goto
<1>2. ASSUME NEW g \in Others(h), NEW r \in DOMAIN newRequests[g]
      PROVE  requests'[r] = requests[r]
  <2>1. r \in RequestIds /\ r \notin DOMAIN newRequests[h]
    BY DEF LocksIInv, Locked, RequestFree, Others
  <2> QED
    BY <2>1 DEF Commit, Overwrite, TypeOK
<1>3. ASSUME NEW g \in Others(h), NEW b \in DOMAIN newBooks[g]
      PROVE  books'[b] = books[b]
  <2>1. b \in Books /\ b \notin DOMAIN newBooks[h]
    BY DEF LocksIInv, Locked, BookFree, Others
  <2> QED
    BY <2>1 DEF Commit, Overwrite, TypeOK
<1>4. Release(h)
  BY DEF Commit
<1> QED
  BY <1>1, <1>2, <1>3, <1>4, Released

\* A new row has an id that nobody has locked.
LEMMA InsertKeepsLocks ==
    ASSUME LocksIInv, TypeOK, NEW h \in Handlers, Insert(h)
    PROVE  LocksIInv'
<1>1. call' = [call EXCEPT ![h] = Idle] /\ Release(h) /\ books' = books
  BY DEF Insert, InsertRequest, Return, Goto
<1>2. ASSUME NEW g \in Others(h), NEW r \in DOMAIN newRequests[g]
      PROVE  requests'[r] = requests[r]
  <2>1. r \in RequestIds /\ requests[r] # Unused
    BY DEF LocksIInv, Locked, Others, Live, Unused, Statuses
  <2> QED
    BY <2>1 DEF Insert, InsertRequest, TypeOK
<1> QED
  BY <1>1, <1>2, Released

LEMMA InsertBookKeepsLocks ==
    ASSUME LocksIInv, TypeOK, NEW h \in Handlers, Briefly(InsertBook(h))
    PROVE  LocksIInv'
<1>1. /\ call' = [call EXCEPT ![h] = Idle] /\ UNCHANGED txVars
      /\ requests' = requests
      /\ ~InTx(h) /\ ~At(h, "insert_request")
  BY DEF Briefly, InsertBook, Return, Goto, InTx, WritingSteps, At
<1>2. ASSUME NEW g \in Others(h), NEW b \in DOMAIN newBooks[g]
      PROVE  books'[b] = books[b]
  <2>1. b \in Books /\ books[b] # "unused"
    BY DEF LocksIInv, Locked, Others, OnShelf
  <2> QED
    BY <2>1 DEF Briefly, InsertBook, SetAvailability, TypeOK
<1> QED
  BY <1>1, <1>2, Stayed

\* Steps that need at most a connection for a moment, and change no row that
\* can be locked.
LEMMA QuietKeepsLocks ==
    ASSUME LocksIInv, TypeOK, NEW h \in Handlers, UNCHANGED txVars,
           Begin(h) \/ CheckPending(h) \/ CreateThread(h) \/ NotifyOther(h)
    PROVE  LocksIInv'
<1>1. UNCHANGED <<requests, books>> /\ \E c : Goto(h, c)
  BY DEF Begin, BeginRequestCall, BeginCatalogCall, BeginCreateRequest, BeginUpdateStatus,
         BeginConfirm, BeginReturn, BeginCreateBook, BeginUpdateBook, BeginDeleteBook,
         CheckPending, CreateThread, NotifyOther, Return
<1>2. PICK c : call' = [call EXCEPT ![h] = c]
  BY <1>1 DEF Goto
<1>3. Begin(h) => call[h] = Idle
  BY DEF Begin, BeginRequestCall, BeginCatalogCall, BeginCreateRequest, BeginUpdateStatus,
         BeginConfirm, BeginReturn, BeginCreateBook, BeginUpdateBook, BeginDeleteBook
<1>4. call[h].step \in {"idle", "check_pending", "create_thread", "notify"}
  <2>1. CASE Begin(h)
    BY <1>3, <2>1 DEF Idle
  <2>2. CASE CheckPending(h) \/ CreateThread(h) \/ NotifyOther(h)
    BY <2>2 DEF CheckPending, CreateThread, NotifyOther, At
  <2> QED
    BY <2>1, <2>2
<1>5. ~InTx(h) /\ ~At(h, "insert_request")
  BY <1>4 DEF InTx, At, WritingSteps
<1> QED
  BY <1>1, <1>2, <1>5, Stayed

LEMMA InitLocks == LockedInit => LocksIInv
  BY DEF LockedInit, LocksIInv, Locked, NoRows

LEMMA NextLocks == TypeOK /\ LocksIInv /\ [LockedNext]_allVars => LocksIInv'
<1> SUFFICES ASSUME TypeOK, LocksIInv, [LockedNext]_allVars PROVE LocksIInv'
  OBVIOUS
<1>1. CASE UNCHANGED vars /\ UNCHANGED txVars
  <2>1. \A h \in Handlers : Locked(h)'
    BY <1>1, SameLocks DEF txVars
  <2> QED
    BY <1>1, <2>1 DEF LocksIInv, vars, txVars, InTx, At
<1>2. ASSUME NEW h \in Handlers, Briefly(Begin(h)) \/ Work(h) \/ Cancel(h) PROVE LocksIInv'
  <2>1. CASE Cancel(h)
    BY <2>1, EndingKeepsLocks DEF Cancel, Abort
  <2> QED
    BY <1>2, <2>1, AcquireKeepsLocks, WriteRequestKeepsLocks, WriteBookKeepsLocks,
       CommitKeepsLocks, InsertKeepsLocks, InsertBookKeepsLocks, QuietKeepsLocks
       DEF Work, Briefly
<1>3. ASSUME NEW q \in Readers, StartQuery(q) \/ EndQuery(q) PROVE LocksIInv'
  BY <1>3, QueriesKeepLocks
<1>4. CASE Briefly(EditProfile)
  <2>1. /\ call' = call /\ requests' = requests /\ books' = books
        /\ newRequests' = newRequests /\ newBooks' = newBooks /\ conns' = conns
    BY <1>4 DEF Briefly, EditProfile, UpdateProfile, txVars
  <2>2. \A h, x :
          /\ RequestVersion(h, x)' = RequestVersion(h, x) /\ BookVersion(h)' = BookVersion(h)
          /\ Live(x)' = Live(x) /\ OnShelf(x)' = OnShelf(x)
          /\ RequestFree(h, x)' = RequestFree(h, x) /\ BookFree(h, x)' = BookFree(h, x)
          /\ MovesBook(h)' = MovesBook(h) /\ InTx(h)' = InTx(h)
          /\ At(h, x)' = At(h, x)
    BY <2>1, Zenon DEF RequestVersion, BookVersion, Live, OnShelf, RequestFree, BookFree,
                       MovesBook, InTx, At
  <2> QED
    BY <2>1, <2>2 DEF LocksIInv, Locked
<1> QED
  BY <1>1, <1>2, <1>3, <1>4 DEF LockedNext, allVars

-----------------------------------------------------------------------------
(***************************************************************************)
(* Every step is a step of Boibritto.                                      *)
(***************************************************************************)

\* What a transaction has locked when it commits: the request of the call and
\* the book that goes with it, or the book of the call and all its requests.
LEMMA LockedAtCommit ==
    ASSUME TypeOK, LocksIInv, NEW h \in Handlers, Commit(h)
    PROVE  /\ call[h].step \in {"update_status", "confirm_tx", "return_tx"} =>
                /\ DOMAIN newRequests[h] = {call[h].request}
                /\ call[h].request \in RequestIds
                /\ Live(call[h].request)
                /\ newRequests[h][call[h].request] = RequestVersion(h, call[h].request)
           /\ At(h, "update_status") \/ (At(h, "confirm_tx") /\ ~call[h].otherConfirmed) =>
                DOMAIN newBooks[h] = {}
           /\ MovesBook(h) =>
                /\ DOMAIN newBooks[h] = {RequestVersion(h, call[h].request).book} \cap Books
                /\ \A b \in DOMAIN newBooks[h] : newBooks[h][b] = BookVersion(h)
           /\ call[h].step \in {"update_book", "delete_book"} =>
                /\ call[h].book \in Books
                /\ OnShelf(call[h].book)
                /\ DOMAIN newBooks[h] = {call[h].book}
                /\ newBooks[h][call[h].book] = BookVersion(h)
           /\ At(h, "update_book") => DOMAIN newRequests[h] = {}
           /\ At(h, "delete_book") =>
                /\ DOMAIN newRequests[h] =
                     {r \in RequestIds : Live(r) /\ requests[r].book = call[h].book}
                /\ \A r \in DOMAIN newRequests[h] : newRequests[h][r] = RequestVersion(h, r)
<1>1. Locked(h) /\ NextRequests(h) = {} /\ NextBooks(h) = {} /\ InTx(h)
  BY DEF LocksIInv, Commit
<1>2. call[h] \in Calls
  BY DEF TypeOK
<1>3. call[h].step \in {"update_status", "confirm_tx", "return_tx"} => call[h].request \in RequestIds
  BY <1>2, CallShape
<1>4. call[h].step \in {"update_book", "delete_book"} => call[h].book \in Books
  BY <1>2, CallShape
<1>5. ASSUME call[h].step \in {"update_status", "confirm_tx", "return_tx"}
      PROVE  /\ DOMAIN newRequests[h] = {call[h].request}
             /\ Live(call[h].request)
             /\ newRequests[h][call[h].request] = RequestVersion(h, call[h].request)
  <2>1. call[h].request \in DOMAIN newRequests[h]
    BY <1>1, <1>3, <1>5 DEF NextRequests
  <2>2. \A r \in DOMAIN newRequests[h] : r = call[h].request
    BY <1>1, <1>5 DEF Locked, At
  <2> QED
    BY <1>1, <2>1, <2>2 DEF Locked
<1>6. ASSUME At(h, "update_status") \/ (At(h, "confirm_tx") /\ ~call[h].otherConfirmed)
      PROVE  DOMAIN newBooks[h] = {}
  BY <1>1, <1>6 DEF Locked, MovesBook, At
<1>7. ASSUME MovesBook(h)
      PROVE  /\ DOMAIN newBooks[h] = {RequestVersion(h, call[h].request).book} \cap Books
             /\ \A b \in DOMAIN newBooks[h] : newBooks[h][b] = BookVersion(h)
  <2> DEFINE k == RequestVersion(h, call[h].request).book
  <2>1. call[h].step \in {"confirm_tx", "return_tx"}
    BY <1>7 DEF MovesBook, At
  <2>2. DOMAIN newRequests[h] = {call[h].request} /\ newRequests[h][call[h].request].book = k
    BY <1>5, <2>1
  <2>3. \A b \in DOMAIN newBooks[h] : b = k /\ b \in Books
    BY <1>1, <2>1, <2>2 DEF Locked
  <2>4. k \in Books => k \in DOMAIN newBooks[h]
    BY <1>1, <1>7, <2>2 DEF NextBooks
  <2> QED
    BY <1>1, <2>3, <2>4 DEF Locked
<1>8. ASSUME call[h].step \in {"update_book", "delete_book"}
      PROVE  /\ OnShelf(call[h].book)
             /\ DOMAIN newBooks[h] = {call[h].book}
             /\ newBooks[h][call[h].book] = BookVersion(h)
  <2>1. call[h].book \in DOMAIN newBooks[h]
    BY <1>1, <1>4, <1>8 DEF NextBooks
  <2>2. \A b \in DOMAIN newBooks[h] : b = call[h].book
    BY <1>1, <1>8 DEF Locked, MovesBook, At
  <2> QED
    BY <1>1, <2>1, <2>2 DEF Locked
<1>9. At(h, "update_book") => DOMAIN newRequests[h] = {}
  BY <1>1 DEF Locked, At
<1>10. ASSUME At(h, "delete_book")
       PROVE  /\ DOMAIN newRequests[h] =
                   {r \in RequestIds : Live(r) /\ requests[r].book = call[h].book}
              /\ \A r \in DOMAIN newRequests[h] : newRequests[h][r] = RequestVersion(h, r)
  <2>1. call[h].book \in DOMAIN newBooks[h]
    BY <1>8, <1>10 DEF At
  <2>2. \A r \in RequestIds : Live(r) /\ requests[r].book = call[h].book =>
          r \in DOMAIN newRequests[h]
    BY <1>1, <1>10, <2>1 DEF NextRequests
  <2>3. \A r \in DOMAIN newRequests[h] :
          r \in RequestIds /\ Live(r) /\ requests[r].book = call[h].book
    BY <1>1, <1>10 DEF Locked, At
  <2> QED
    BY <1>1, <2>2, <2>3 DEF Locked
<1> QED
  BY <1>3, <1>4, <1>5, <1>6, <1>7, <1>8, <1>9, <1>10

LEMMA OverwriteRequest ==
    ASSUME TypeOK, NEW h \in Handlers, NEW r \in RequestIds, DOMAIN newRequests[h] = {r},
           requests' = Overwrite(requests, newRequests[h])
    PROVE  requests' = [requests EXCEPT ![r] = newRequests[h][r]]
  BY DEF Overwrite, TypeOK

LEMMA OverwriteBook ==
    ASSUME TypeOK, NEW h \in Handlers, NEW b \in Books, DOMAIN newBooks[h] = {b},
           books' = Overwrite(books, newBooks[h])
    PROVE  books' = [books EXCEPT ![b] = newBooks[h][b]]
  BY DEF Overwrite, TypeOK

LEMMA OverwriteNone ==
    ASSUME TypeOK, NEW h \in Handlers
    PROVE  /\ DOMAIN newRequests[h] = {} => Overwrite(requests, newRequests[h]) = requests
           /\ DOMAIN newBooks[h] = {} => Overwrite(books, newBooks[h]) = books
  BY DEF Overwrite, TypeOK

\* A commit is the whole transaction, or the whole cascading DELETE.
LEMMA CommitIsStep ==
    ASSUME IInv, LocksIInv, NEW h \in Handlers, Commit(h)
    PROVE  Step(h)
<1> DEFINE r == call[h].request
           k == call[h].book
<1>1. TypeOK
  BY DEF IInv
<1>2. /\ requests' = Overwrite(requests, newRequests[h])
      /\ books' = Overwrite(books, newBooks[h])
      /\ UNCHANGED <<profile, threads, reminders>>
      /\ ~(At(h, "confirm_tx") /\ ~call[h].otherConfirmed) => Return(h)
      /\ At(h, "confirm_tx") /\ ~call[h].otherConfirmed =>
           Goto(h, [step |-> "notify", request |-> call[h].request, role |-> call[h].role])
  BY DEF Commit, Return
<1>3. CASE At(h, "update_status")
  <2>0. RequestVersion(h, r) = UpdateStatus(requests[r], call[h].status)
    BY <1>3, Versions
  <2>1. /\ DOMAIN newRequests[h] = {r} /\ r \in RequestIds /\ Live(r)
        /\ newRequests[h][r] = RequestVersion(h, r)
        /\ DOMAIN newBooks[h] = {}
    <3>1. call[h].step \in {"update_status", "confirm_tx", "return_tx"}
      BY <1>3 DEF At
    <3>2. /\ DOMAIN newRequests[h] = {r} /\ r \in RequestIds /\ Live(r)
          /\ newRequests[h][r] = RequestVersion(h, r)
      BY <1>1, <3>1, LockedAtCommit
    <3>3. DOMAIN newBooks[h] = {}
      BY <1>1, <1>3, LockedAtCommit
    <3> QED
      BY <3>2, <3>3
  <2>2. requests' = [requests EXCEPT ![r] = UpdateStatus(requests[r], call[h].status)]
    BY <1>1, <1>2, <2>0, <2>1, OverwriteRequest
  <2>3. books' = books
    BY <1>1, <1>2, <2>1, OverwriteNone
  <2>4. Return(h)
    BY <1>2, <1>3 DEF At
  <2>5. WriteStatus(h)
    BY <1>2, <1>3, <2>1, <2>2, <2>3, <2>4 DEF WriteStatus
  <2> QED
    BY <2>5 DEF Step, RequestStep
<1>4. CASE At(h, "confirm_tx") /\ ~call[h].otherConfirmed
  <2>1. /\ DOMAIN newRequests[h] = {r} /\ r \in RequestIds /\ Live(r)
        /\ newRequests[h][r] = SetConfirmed(requests[r], call[h].role)
        /\ DOMAIN newBooks[h] = {}
    BY <1>1, <1>4, LockedAtCommit, Versions DEF At
  <2>2. requests' = [requests EXCEPT ![r] = SetConfirmed(requests[r], call[h].role)]
    BY <1>1, <1>2, <2>1, OverwriteRequest
  <2>3. books' = books
    BY <1>1, <1>2, <2>1, OverwriteNone
  <2>4. ConfirmTx(h)
    BY <1>2, <1>4, <2>1, <2>2, <2>3 DEF ConfirmTx
  <2> QED
    BY <2>4 DEF Step, RequestStep
<1>5. CASE At(h, "confirm_tx") /\ call[h].otherConfirmed
  <2> DEFINE row == UpdateStatus(SetConfirmed(requests[r], call[h].role), "active")
  <2>1. /\ DOMAIN newRequests[h] = {r} /\ r \in RequestIds /\ Live(r)
        /\ newRequests[h][r] = row
        /\ DOMAIN newBooks[h] = {row.book} \cap Books
        /\ \A b \in DOMAIN newBooks[h] : newBooks[h][b] = "unavailable"
    BY <1>1, <1>5, LockedAtCommit, Versions DEF At, MovesBook, Availability
  <2>2. requests[r] \in Row
    BY <1>1, <2>1, LiveRow
  <2>3. row.book = requests[r].book /\ requests[r].book \in Books
    BY <2>2 DEF Row, UpdateStatus, SetConfirmed
  <2>4. requests' = [requests EXCEPT ![r] = row]
    BY <1>1, <1>2, <2>1, OverwriteRequest
  <2>5. books' = SetAvailability(requests[r].book, FALSE)
    BY <1>1, <1>2, <2>1, <2>3, OverwriteBook DEF SetAvailability
  <2>6. Return(h)
    BY <1>2, <1>5
  <2>7. ConfirmTx(h)
    BY <1>2, <1>5, <2>1, <2>4, <2>5, <2>6 DEF ConfirmTx
  <2> QED
    BY <2>7 DEF Step, RequestStep
<1>6. CASE At(h, "return_tx")
  <2> DEFINE row == UpdateStatus(requests[r], "returned")
  <2>1. /\ DOMAIN newRequests[h] = {r} /\ r \in RequestIds /\ Live(r)
        /\ newRequests[h][r] = row
        /\ DOMAIN newBooks[h] = {row.book} \cap Books
        /\ \A b \in DOMAIN newBooks[h] : newBooks[h][b] = "available"
    BY <1>1, <1>6, LockedAtCommit, Versions DEF At, MovesBook, Availability
  <2>2. requests[r] \in Row
    BY <1>1, <2>1, LiveRow
  <2>3. row.book = requests[r].book /\ requests[r].book \in Books
    BY <2>2 DEF Row, UpdateStatus
  <2>4. requests' = [requests EXCEPT ![r] = row]
    BY <1>1, <1>2, <2>1, OverwriteRequest
  <2>5. books' = SetAvailability(requests[r].book, TRUE)
    BY <1>1, <1>2, <2>1, <2>3, OverwriteBook DEF SetAvailability
  <2>6. Return(h)
    BY <1>2, <1>6 DEF At
  <2>7. ReturnTx(h)
    BY <1>2, <1>6, <2>1, <2>4, <2>5, <2>6 DEF ReturnTx
  <2> QED
    BY <2>7 DEF Step, RequestStep
<1>7. CASE At(h, "update_book")
  <2>1. /\ k \in Books /\ OnShelf(k) /\ DOMAIN newBooks[h] = {k}
        /\ newBooks[h][k] = Availability(call[h].available)
        /\ DOMAIN newRequests[h] = {}
    BY <1>1, <1>7, LockedAtCommit, Versions DEF At
  <2>2. requests' = requests
    BY <1>1, <1>2, <2>1, OverwriteNone
  <2>3. books' = SetAvailability(k, call[h].available)
    BY <1>1, <1>2, <2>1, OverwriteBook DEF SetAvailability, Availability
  <2>4. Return(h)
    BY <1>2, <1>7 DEF At
  <2>5. UpdateBook(h)
    BY <1>2, <1>7, <2>1, <2>2, <2>3, <2>4 DEF UpdateBook
  <2> QED
    BY <2>5 DEF Step, CatalogStep
<1>8. CASE At(h, "delete_book")
  <2>0. BookVersion(h) = "deleted" /\ \A q : RequestVersion(h, q) = Deleted
    BY <1>8, Versions
  <2>1. /\ k \in Books /\ OnShelf(k) /\ DOMAIN newBooks[h] = {k}
        /\ newBooks[h][k] = "deleted"
        /\ DOMAIN newRequests[h] = {q \in RequestIds : Live(q) /\ requests[q].book = k}
        /\ \A q \in DOMAIN newRequests[h] : newRequests[h][q] = Deleted
    BY <1>1, <1>8, <2>0, LockedAtCommit DEF At
  <2>2. requests' = [q \in RequestIds |-> IF Live(q) /\ requests[q].book = k
                                          THEN Deleted ELSE requests[q]]
    BY <1>1, <1>2, <2>1 DEF Overwrite, TypeOK
  <2>3. books' = [books EXCEPT ![k] = "deleted"]
    BY <1>1, <1>2, <2>1, OverwriteBook
  <2>4. Return(h)
    BY <1>2, <1>8 DEF At
  <2>5. DeleteBook(h)
    BY <1>2, <1>8, <2>1, <2>2, <2>3, <2>4 DEF DeleteBook, DeleteBookCascade
  <2> QED
    BY <2>5 DEF Step, CatalogStep
<1> QED
  BY <1>3, <1>4, <1>5, <1>6, <1>7, <1>8 DEF Commit, InTx, WritingSteps, At

\* A rollback is a call that was cut off.
LEMMA NotFoundIsAbort ==
    ASSUME NEW h \in Handlers, InTx(h), NotFound(h)
    PROVE  Abort(h)
  BY DEF NotFound, Abort, InTx, WritingSteps, Idle

\* Whatever the pool and the locks let happen, Boibritto lets happen.
LEMMA NextImplements == IInv /\ LocksIInv /\ [LockedNext]_allVars => [Next]_vars
<1> SUFFICES ASSUME IInv, LocksIInv, [LockedNext]_allVars PROVE [Next]_vars
  OBVIOUS
<1>1. CASE UNCHANGED allVars
  BY <1>1 DEF allVars
<1>2. ASSUME NEW h \in Handlers, Briefly(Begin(h)) \/ Work(h) \/ Cancel(h)
      PROVE  Begin(h) \/ Step(h) \/ Abort(h) \/ UNCHANGED vars
  <2>1. CASE WriteRequest(h)
    <3>1. NextRequests(h) # {} => InTx(h)
      BY DEF NextRequests, InTx, WritingSteps, At
    <3> QED
      BY <2>1, <3>1, NotFoundIsAbort DEF WriteRequest
  <2>2. CASE WriteBook(h)
    <3>1. NextBooks(h) # {} => InTx(h)
      BY DEF NextBooks, MovesBook, InTx, WritingSteps, At
    <3> QED
      BY <2>2, <3>1, NotFoundIsAbort DEF WriteBook
  <2>3. CASE Commit(h)
    BY <2>3, CommitIsStep
  <2>4. CASE Acquire(h)
    BY <2>4 DEF Acquire
  <2>5. CASE Insert(h) \/ CreateThread(h) \/ Briefly(CheckPending(h))
               \/ Briefly(NotifyOther(h)) \/ Briefly(InsertBook(h))
    BY <2>5 DEF Insert, Briefly, Step, RequestStep, CatalogStep
  <2> QED
    BY <1>2, <2>1, <2>2, <2>3, <2>4, <2>5 DEF Work, Briefly, Cancel
<1>3. ASSUME NEW q \in Readers, StartQuery(q) \/ EndQuery(q) PROVE UNCHANGED vars
  BY <1>3 DEF StartQuery, EndQuery
<1>4. Briefly(EditProfile) => EditProfile
  BY DEF Briefly
<1> QED
  BY <1>1, <1>2, <1>3, <1>4 DEF LockedNext, Next

-----------------------------------------------------------------------------

\* Both invariants, in every reachable state of the server with locks.
THEOREM LocksInvariance == LockedSpec => [](IInv /\ LocksIInv)
<1>1. LockedInit => IInv /\ LocksIInv
  BY InitIInv, InitLocks DEF LockedInit
<1>2. IInv /\ LocksIInv /\ [LockedNext]_allVars => (IInv /\ LocksIInv)'
  BY NextImplements, NextIInv, NextLocks DEF IInv
<1> QED
  BY <1>1, <1>2, PTL DEF LockedSpec

\* Uncommitted versions never meet, and stay changes to the committed rows.
THEOREM LocksAreExclusive == LockedSpec => []LocksIInv
  BY LocksInvariance, PTL

\* The server that locks rows one by one, waits for locks and connections and
\* is rolled back implements the server whose transactions are single steps.
THEOREM Atomicity == LockedSpec => ImplementsBoibritto
<1>1. LockedInit => Init
  BY DEF LockedInit
<1> QED
  BY <1>1, NextImplements, LocksInvariance, PTL DEF LockedSpec, ImplementsBoibritto, Spec

\* What Boibritto never does, the server with locks never does either: the
\* safety of the lending, through waits, deadlocks and rollbacks.
THEOREM LocksKeepSafety ==
    LockedSpec =>
      /\ [](HandoffConfirmed /\ ReminderIsFounded /\ ContactableLender /\ UnavailableWasHandedOver)
      /\ PendingIsLeftOnce
<1>1. IInv => HandoffConfirmed /\ ReminderIsFounded /\ ContactableLender /\ UnavailableWasHandedOver
  BY DEF IInv
<1> QED
  BY <1>1, Atomicity, Invariance, PendingDecidedOnce, PTL DEF ImplementsBoibritto

\* Nor does it do, but in a handler that was overtaken, what Boibritto does
\* only there, if the history of module Overlaps is kept along with its steps.
THEOREM LocksKeepRaces ==
    LockedSpec /\ overtaken = {} /\ [][vars' # vars /\ Observe]_observedVars =>
      /\ ActivationIsLostInARace
      /\ PendingTwiceByARace
      /\ StrandedByARace
      /\ AvailabilityFollowsStatus
<1>1. [Next]_vars /\ [vars' # vars /\ Observe]_observedVars => [Next /\ Observe]_observedVars
  BY DEF observedVars
<1>2. Spec /\ overtaken = {} /\ [][vars' # vars /\ Observe]_observedVars => ObservedSpec
  BY <1>1, PTL DEF Spec, ObservedSpec
<1> QED
  BY <1>2, Atomicity, ActivationsAreLostInRaces, PendingIsDoubledInRaces,
     BooksAreStrandedInRaces, AvailabilityChangesWithStatus, PTL DEF ImplementsBoibritto

\* Two refinements in a row: where no call is repeated while it is in flight,
\* transactions that lock row by row do what the borrowing flow says.
THEOREM LocksKeepTheFlow == LockedSpec /\ []NoCallIsRepeated => ImplementsLending
<1>1. [Next]_vars /\ NoCallIsRepeated' => [Next /\ NoCallIsRepeated']_vars
  OBVIOUS
<1> QED
  BY <1>1, Atomicity, FlowIsImplemented, PTL DEF ImplementsBoibritto, Spec, SerialSpec

-----------------------------------------------------------------------------
(***************************************************************************)
(* Deadlocks.  Who waits for a request has locked nothing, and who has     *)
(* locked a book waits for nothing, unless it is deleting the book.        *)
(***************************************************************************)

LEMMA DeadlockNeedsDelete == LocksIInv => OnlyDeletesDeadlock
<1> SUFFICES ASSUME LocksIInv, NEW S \in SUBSET Handlers, Deadlocked(S),
                    \A h \in S : ~At(h, "delete_book")
             PROVE  FALSE
  BY DEF OnlyDeletesDeadlock
<1>1. ASSUME NEW h \in S, NextRequests(h) # {}
      PROVE  DOMAIN newRequests[h] = {} /\ DOMAIN newBooks[h] = {}
  <2>1. /\ call[h].step \in {"update_status", "confirm_tx", "return_tx"}
        /\ call[h].request \notin DOMAIN newRequests[h]
    BY <1>1 DEF NextRequests
  <2>2. Locked(h)
    BY DEF LocksIInv
  <2>3. DOMAIN newRequests[h] = {}
    BY <2>1, <2>2 DEF Locked, At
  <2> QED
    BY <2>1, <2>2, <2>3 DEF Locked, MovesBook, At
<1>2. ASSUME NEW h \in S, DOMAIN newBooks[h] # {}
      PROVE  Blockers(h) = {}
  <2>1. NextRequests(h) = {}
    BY <1>1, <1>2
  <2>2. Locked(h)
    BY DEF LocksIInv
  <2>3. NextBooks(h) = {}
    <3>1. PICK b \in DOMAIN newBooks[h] : TRUE
      BY <1>2
    <3>2. CASE call[h].step = "update_book"
      BY <2>2, <3>1, <3>2 DEF Locked, NextBooks, MovesBook, At
    <3>3. CASE call[h].step # "update_book"
      <4>1. \E r \in DOMAIN newRequests[h] : newRequests[h][r].book = b
        BY <2>2, <3>1, <3>3 DEF Locked, At
      <4>2. \A r \in DOMAIN newRequests[h] : r = call[h].request
        BY <2>2 DEF Locked
      <4> QED
        BY <3>1, <3>3, <4>1, <4>2 DEF NextBooks, At
    <3> QED
      BY <3>2, <3>3
  <2> QED
    BY <2>1, <2>3 DEF Blockers
<1>3. PICK h \in S : Blockers(h) \cap S # {}
  BY DEF Deadlocked
<1>4. PICK g \in S : g \in Blockers(h)
  BY <1>3
<1>5. DOMAIN newRequests[g] # {} \/ DOMAIN newBooks[g] # {}
  BY <1>4 DEF Blockers
<1>6. Blockers(g) \cap S # {}
  BY DEF Deadlocked
<1>7. PICK k \in S : k \in Blockers(g)
  BY <1>6
<1>8. NextRequests(g) = {}
  BY <1>1, <1>5
<1>9. DOMAIN newBooks[k] # {}
  BY <1>7, <1>8 DEF Blockers
<1>10. Blockers(k) \cap S # {}
  BY DEF Deadlocked
<1> QED
  BY <1>2, <1>9, <1>10

\* However many confirmations and returns meet on however many rows, they
\* deadlock only with the deletion of a book.
THEOREM DeadlocksNeedDeletes == LockedSpec => []OnlyDeletesDeadlock
  BY LocksAreExclusive, DeadlockNeedsDelete, PTL

=============================================================================

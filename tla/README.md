# Boibritto in TLA+

Boibritto is a book-lending service for students: a Go API server over
PostgreSQL and Firestore, with Firebase for sign-in and push. This directory
holds its specifications, their TLC configurations and machine-checked proofs.
Paths below are relative to `src/backend/internal/` unless they start with `src/`.

## The system

Every HTTP call is served by a goroutine of its own. A handler authenticates
(`auth`), calls a service, and the service runs a few SQL statements, one at a
time, through a pool of connections at READ COMMITTED. There is no lock, no
version column, and only two transactions: everything between two statements is
a place where any other goroutine may run.

| component | state | operations that change it | interacts with |
|---|---|---|---|
| `requests` | `borrow_requests` rows: status, two confirmation flags, `accepted_at` | create, accept/reject, confirm handoff, mark returned | reads `books` (owner), `profile` (completeness); writes `books.available`; calls `messages` (thread), `push` (reminder) |
| `books` | `books` rows: owner, availability, text | create, patch, delete, `SetAvailability` (from `requests`), `SetCover` (from `admin`) | deleting cascades to requests and forum posts |
| `profile` | `users` rows: name, WhatsApp number, last activity | patch, `TouchLastActive` | merges books and request events into an activity feed |
| `auth` | `users` rows: identity, admin flag | first-sign-in provisioning | in front of every call |
| `messages` | Firestore threads and messages | create thread (from `requests`), send | Firebase clients read the thread directly; `push` |
| `push` | `push_subscriptions`: device token to user | subscribe, unsubscribe; `Send` reads them | called by `requests` and `messages` |
| `forum` | `book_forum_posts` | create, edit, delete; paged listing | `books`, `profile` |
| `admin` | none | sets a cover | `books`, behind `auth` |
| `platform/postgres` | pool of 20 connections, transactions, schema | `WithTx`, connect, migrate | everything |
| `platform/httpserver`, `cmd/api` | server, signal context | start, graceful shutdown | everything |
| `apihttp`, `domain`, `apperror`, `config`, `app`, `logging`, `firebase` | none of interest | | |

What is hard here: handlers check a row in one statement and write it by id in
a later one, so checks go stale; the two confirmations of a handoff race; a
call can be cut off between PostgreSQL and Firestore writes; deletes cascade
under handlers in flight; pushes are best effort. `PROJECT.json` lists each of
these hazards at its line with the properties that bear on it.

Correct means, by component:

- *requests*: no activation without both confirmations, none lost with both;
  one decision per request; one pending request per student and book; a thread
  only for what was accepted; the documented flow, in its order.
- *books*: availability agrees with the requests; only contactable owners list.
- *profile*: a complete profile stays complete; the feed shows the newest events.
- *auth*: one row per identity; every verified student is served.
- *messages*: messages come from participants and are pushed to the other one;
  the preview is the last message.
- *push*: each device of a user is tried, whatever happens to the others.
- *forum*, *books* listing: paging shows every row once.
- *forum*: posts are changed by their authors only and go with their book; an
  answer is true of the table.
- *postgres*: transactions are all or nothing and always end.
- *httpserver*: a clean exit has answered everybody; a signal ends the process.

## Modules

| module | what it is |
|---|---|
| `Tables` | constants, state, the shapes of rows and of goroutines' locals, the SQL statements, `Abort`, `Init`, `TypeOK` |
| `Requests` | the handlers of `requests/service.go` |
| `Catalog` | the handlers of `books/service.go` and `profile/service.go` that write |
| `Boibritto` | both together: `Next`, `Spec`, the properties, the inductive invariant, the refinement mapping |
| `Overlaps` | `Boibritto` with a history of which goroutines were overtaken, and what overlapping calls can and cannot do to each other |
| `Lending` | the abstract specification: the borrowing flow of `src/README.md` (163-172) and `src/contracts/openapi.yml`, with no goroutines |
| `Messages` | Firestore threads and messages, composed with `Boibritto`, whose accept creates threads |
| `Conversation` | the abstract specification of a thread: two parties, a log, the message it shows, who is told of what; implemented by `Messages` when no send or call is repeated while in flight |
| `Transactions` | `Boibritto` with the connection pool and PostgreSQL's row locks; implements `Boibritto` |
| `Forum` | posts under a book, composed with `Boibritto`, whose deletions cascade to them |
| `Server` | the process: start, listener, signal, graceful shutdown, exit |
| `Auth` | the middleware: first sign-in and the activity note |
| `Push` | subscriptions, and `Send` device by device |
| `Newest` | `ORDER BY ... DESC LIMIT n`, used by the next two |
| `Paging` | a client that reads the book list or a forum page by page |
| `Activity` | the feed merged from four queries |
| `MC...` | constants and symmetry for the instances TLC checks; `Paging` and `Server` need none |
| `BoibrittoProofs`, `TransactionsProofs`, `MessagesProofs`, `ForumProofs`, `AccountProofs` (of `Auth` and `Push`), `PagingProofs`, `ActivityProofs`, `ServerProofs` | the theorems |

### The lending core: `Tables`, `Requests`, `Catalog`, `Boibritto`

`profile`, `books`, `requests` are the tables; `threads` is the set of requests
that have a Firestore document; `reminders` records pushes that went out (a
history, nothing reads it). `call[h]` is goroutine `h`: the statement it runs
next and the local variables it will run it with.

`Begin...` is a handler up to the point where everything it checks has been read
and accepted. Reads are merged only where the rows cannot change in between in a
way the check notices: a book's owner is immutable and a profile never becomes
incomplete. A refused call (404, 403, 400, 409) changes nothing and is no step.
Afterwards there is one action per statement or transaction:

| call | steps |
|---|---|
| `POST /books/{id}/requests` | `BeginCreateRequest`, `CheckPending`, `InsertRequest` |
| `PATCH /requests/{id}` | `BeginUpdateStatus`, `CreateThread` (accept only), `WriteStatus` |
| `POST /requests/{id}/confirm` | `BeginConfirm`, `ConfirmTx`, `NotifyOther` (first confirmation only) |
| `POST /requests/{id}/return` | `BeginReturn`, `ReturnTx` |
| `POST /books` | `BeginCreateBook`, `InsertBook` |
| `PATCH /books/{id}` | `BeginUpdateBook`, `UpdateBook` |
| `DELETE /books/{id}` | `BeginDeleteBook`, `DeleteBook` |
| `PATCH /me` | `UpdateProfile` (one statement, no read) |

The two transactions only write, and PostgreSQL holds the rows they wrote until
they end, so each is one step; a rolled-back one is `Abort` (`Transactions` does
without this argument and proves it). `Abort` may end a
call between any two statements: client gone, database error, panic, process
stopped. `CreateThread` and `NotifyOther` may or may not have their effect,
because the code ignores their errors.

`confirmed` holds the roles whose flag column is true; `acceptedAt` is
`accepted_at IS NOT NULL`. Ids are never reused, as with SERIAL; a deleted row
leaves a tombstone. Titles, messages, covers and timestamps are abstracted.

### `Overlaps`

Nothing in the code keeps two calls from overlapping, and some overlaps do harm.
`Overlaps` says which. `overtaken` is a history variable: the goroutines to whose
request, while their call was in flight, either the same call made a second time
has written (`Repeats`: two POSTs of a student for a book, two decisions, two
confirmations, two returns, whoever makes them), or a goroutine that was itself
overtaken. The first clause is the race; the second follows its damage on, since
a handler that was overtaken may leave a request in a status that it has passed
already. `ObservedSpec` restricts `Boibritto` in nothing. The properties say that
overlaps of *different* calls (a confirmation with a decision, a return with a
confirmation, anything with a deletion, a PATCH or a loan of the same book), cut
off anywhere, never make a read stale (`StaleIsOvertaken`), lose an activation
(`ActivationIsLostInARace`), double a pending request (`PendingTwiceByARace`),
strand a book (`StrandedByARace`), or move a book's availability but in the very
step that moves a request's status to match (`AvailabilityFollowsStatus`). That
overtaken goroutines do these things is shown by the configurations further down.

### `Messages`

`thread[r]` is the document `threads/r` (its participants and the preview of the
last message), `messages[r]` the collection below it. `CreateThreadDoc` is the
accept's `CreateThread` with what it does to the document: `Set` replaces all of
it. A send is `BeginSend` (the participant check), `AddMessage`, `SetPreview`,
`NotifyOtherParticipant`, and `AbortSend` between any two. `parties[r]` remembers
the two users of a request after its row is gone, as a handler that read it does.

### `Transactions`

The variables of `Boibritto`, and three more: `conns`, the goroutines that hold
one of the pool's `PoolSize` connections, and `newRequests[h]`, `newBooks[h]`, the
uncommitted row versions of `h`'s transaction. What a goroutine has written it has
locked. `call[h]` still names the statement or transaction of `Boibritto` that `h`
is in, so the refinement mapping is the identity: `WriteRequest` and `WriteBook`
stutter, `Commit` is `WriteStatus`, `ConfirmTx`, `ReturnTx`, `UpdateBook` or
`DeleteBook`, and `Cancel` is `Abort`.

| in the code | here |
|---|---|
| `BeginTx`, or a write outside a transaction that may wait for a row | `Acquire` |
| `SetOwnerConfirmed`/`SetBorrowerConfirmed`, `UpdateStatus`; a cascaded row | `WriteRequest` |
| `SetAvailability`, PATCH or DELETE of the book | `WriteBook` |
| `tx.Commit()` | `Commit` |
| `tx.Rollback()`: an error, no row (`NotFound`), a panic, a cancelled context | `Cancel`, `NotFound` |
| PostgreSQL after `deadlock_timeout` | `DeadlockDetector` |
| a statement that conflicts with nothing | `Briefly`: a connection is free at that moment |
| a reading call with its rows open | `StartQuery`, `EndQuery` |

The two UPDATEs of a confirmation that activates (the flag, then the status) lock
the same row and are one `WriteRequest`. The share lock of an inserted request's
foreign key conflicts with a DELETE of the book only (`Insert`). READ COMMITTED
re-evaluates a row it had to wait for, so versions are made from the committed
row at the moment the lock is got; that they still fit the committed row at
commit is part of `LocksIInv`.

### `Forum`

`posts[p]` is a row, `posting[s]` a goroutine: `BeginPost` and `BeginChange` are
what is checked (profile and book; post and author), `InsertPost`, `WriteEdit` and
`DeletePost` the statement by id, `Reread` the query that answers a POST or PATCH,
and `AbortPost` a call cut off. A body is the number of the edit that wrote it.
`CascadePosts` is conjoined to every step of `Boibritto`: deleting a book deletes
its posts in the same statement.

### `Server`

`main` is the main goroutine, `listener` the one in `ListenAndServe`, `conn[c]` a
client's connection with or without a handler, `push[c]` the goroutine that
`SendMessage` started for it, `pool` the `*sql.DB`. `TakeError` and `TakeSignal`
are the two cases of `Run`'s select, either of which Go may take when both are
ready; `Poll`, `Tick` and `TimeOut` are `Shutdown` under its ten seconds; `ClosePool`
is the deferred `db.Close()`, which `os.Exit` skips. `Accept`, `Serve` and the closing
of idle connections are net/http's, as `Run` uses it; the moment between its reading
the first bytes of a request and counting the connection as active is left out. A
handler is only something that runs until it answers, or for ever. `lost` records
pushes given up, by a closed pool or by the exit of the process with any code; a
history.

### `Auth`

`users` is the table in the order of its ids. `VerifyToken` (Firebase accepted
the token), `Lookup`, `InsertUser` (two UNIQUE columns, no ON CONFLICT) and
`TouchLastActive` (whose clock is read when the statement starts, before it may
have to wait for the row) are the middleware's statements; `Fail` ends it with
an error, at any statement. `refused` records the identities that were answered
500 because their insert hit a UNIQUE column, `failed` those of which an insert ended
in `Fail`, and `heard` the latest clock with which an identity's UPDATE was carried
out, whether or not it found the row worth a write; all three are histories.

### `Push`

`subscriptions` maps a token to the user of its row. `Send` reads the tokens in
one statement (`ReadTokens`, `FailTokens`) and tries them one by one
(`TryDevice`, `Return`). A send may run under the context of a request
(handoff reminders), whose client may hang up (`HangUp`), or under one of its own
(message pushes). FCM refuses the tokens in `Faulty` and no others. `ever` and
`always` record which devices were the recipient's at some time, and all the
time, since the send began; they are histories.

### `Paging`, `Activity`

Both are about reads that consist of several statements. A row's time is fixed
when its INSERT starts and the row appears when it commits, so rows appear out of
order and times repeat. `NewestOf` is the set of results a query with LIMIT may
return, ties in any order. `Paging` is written once for `GET /books` and
`GET /books/{id}/forum`, which have the same WHERE, ORDER BY and `next_cursor`; a
row that an edit moves in or out of the filter enters or leaves the table. The
cursor reaches the client as RFC 3339 with all of PostgreSQL's microseconds and
comes back the same, so it is a time and not a rounded one. In `Activity` the
four queries are four steps and the sort and cut a fifth; a request accepted
twice is an event that goes and one that comes. `stable` is what was there during
the whole read, a history.

## Runs

Bounds of the core: one book, two requests, two goroutines, two or three
students. Every hazard here involves at most two requests of one book, or two
calls that act on what they read before the other wrote; the proofs remove the
bound where it matters. `CHECK_DEADLOCK FALSE` wherever every id may be used up, a
reader has finished or the process has exited, so that nothing is left to do.

Passing:

| run | question |
|---|---|
| `lending` | Every call on two requests of a book, two at a time, from a requester without a number on file: what holds whatever overlaps of a request (`HandoffConfirmed`, `PendingIsLeftOnce`), of reminders (`ReminderIsFounded`), of the book (`UnavailableWasHandedOver`), of owners (`ContactableLender`); the inductive invariant `IInv` of the proofs, with the types and `AcceptedIsDated`; and what only a goroutine overtaken by the same call can do: `StaleIsOvertaken`, `ActivationIsLostInARace`, `PendingTwiceByARace`, `StrandedByARace`, `AvailabilityFollowsStatus` (713,650 states) |
| `flow` | If no call is made a second time while it is in flight, the server implements `Lending` step by step, with different calls overlapping, aborts, and owners who relist a book by hand (97,303 states) |
| `locks` | One request of one book, two goroutines and a reading one, two connections: `LocksIInv`; only a book's deletion closes a cycle of waiters (`OnlyDeletesDeadlock`); what can be seen is `Boibritto` (`ImplementsBoibritto`); every call ends (`EveryCallEnds`, liveness) |
| `chat` | Two sends, and two calls that accept, confirm, return or delete the request, with a third student who is no party to it: `ThreadIsBetweenParties`, `MessagesAreFromParties`, `PreviewIsStored`, and a preview goes back only in a send that another overtook between its two writes, `PreviewGoesBackInARace` (712,533 states) |
| `chat_serialised` | If sends to a thread do not overlap and no call on a request is repeated while in flight, requests and threads implement `Conversation` step by step (`ImplementsConversation`), so the thread of an accepted request is not replaced |
| `forum` | Two goroutines post, edit and delete two posts under two books that a third lists and deletes: `ForumIInv` (a post has its book and an author who can be reached), `AnswersHold` (204, 404 and the post shown are true and stay so), `PostsAreTheirAuthors` |
| `sign_in` | Two identities with one e-mail, three goroutines, failures, a clock of three values with a throttle of one: `OneRowPerStudent`; `last_active_at` is right to within the throttle, `LastActiveIsAccurate`; who was refused because an overlapping call inserted first finds the row next time, unless the e-mail is somebody else's, `RetryFindsTheRow`; and who gets as far as the insert has a row in the end, `ProvisionedInTheEnd` (liveness; 151,324 states) |
| `push` | Three devices, one of them refused, change hands during a send: `OnlyTheirDevices`, `OthersAreReached`, and a device about to be tried gets its push before `Send` ends unless the caller hangs up, `DevicesAreServed` (liveness). Senders share only the table, so one is enough |
| `paging` | Four rows, pages of two, three times: full pages, short pages, ties across a boundary: `PagesDescend`, `OnlyTiesAreMissed`, and the end of the list is reached, `ReadingEnds` (liveness) |
| `feed` | Five events of three sources, caps of two, three times: `FeedShowsNewest` |
| `server` | Two connections, a grace of two ticks, handlers, pushes and migrations that may never end: what exit code 0 means (`CleanExit`), who is cut off (`CutOffOnlyAfterGrace`), what may cost a push, also one under way at the exit (`PushesOutliveRequests`), `NoNewConnections`, and that the process stops, `StopsInTheEnd` (liveness) |

`UnavailableWasHandedOver` is about a book that only requests take off the list, so
`flow` and `lending` let owners put a book back on it by hand but not take it off.
`chat` has one request and one student beside its two parties: a stranger who wrote,
or was pushed a message, would be seen. In `sign_in` a touch within the throttle of
the last is not written, one after it is, and with three goroutines a late UPDATE has
an earlier time than two that went before. Its two identities share an e-mail, so that
each may be refused for the other's row as well as for its own; identities that share
nothing meet in no statement.

`locks` has as many connections as writing goroutines, one fewer than goroutines: a
transaction that asked for a second connection would find none (the mutant of
`EveryCallEnds`). Without its liveness property TLC was also given two requests (2.9
million states, two and a half minutes) and three writing goroutines (219,000 states),
which the proofs subsume. Two posters suffice for `forum` because statements name one
post and the third actor is the server.

Nothing in the code enforces the assumptions of `flow` and `chat_serialised`
(`NoCallIsRepeated`, `SendsSerialised`), and no other run makes them: only a
refinement of a specification without goroutines needs them. `lending` and `chat`
say what happens otherwise, and the configurations below show it happen.

Violation (`PROJECT.json` quotes the line of the repository it contradicts):

| run | what happens |
|---|---|
| `two_loans` | with no overlap at all: two requests for one book are handed over, and the first return lists the book |

Further configurations stand beside these and are not part of the regular runs.
TLC finds each property below violated within seconds:

| configuration, module | property | what happens |
|---|---|---|
| `two_pending`, `MCBoibritto` | `OnePendingRequest` | two overlapping POSTs leave two pending requests (`requests/service.go:70`; `src/contracts/openapi.yml:164`) |
| `lost_activation`, `MCBoibritto` | `NoLostActivation` | simultaneous confirmations leave an accepted request that both confirmed (`requests/service.go:164`, against its comment at 138) |
| `late_decision`, `MCBoibritto` | `DecidedOnlyWhilePending` | an accept and a reject at once both win (`requests/service.go:126`, against the comment at 100) |
| `orphaned_book`, `MCBoibritto` | `UnavailableIsOnLoan` | a late reject strands a book: off the list, nothing to return (`requests/service.go:126`; `src/README.md:171`) |
| `unreachable_requester`, `MCBoibritto` | `RequesterIsContactable` | the profile check concerns the book's owner, not the student who asks (`requests/service.go:54`) |
| `early_thread`, `MCBoibritto` | `ThreadMeansAccepted` | an accept cut off half-way leaves a thread nobody accepted (`requests/service.go:118`) |
| `preview_race`, `MCMessages` | `PreviewMovesForward` | of two overlapping sends the earlier stays as the preview (`messages/store.go:121`) |
| `wiped_preview`, `MCMessages` | `PreviewIsKept` | a second accept, after one that was cut off, wipes the preview of a thread in use (`messages/store.go:50`) |
| `first_sign_in`, `MCAuth` | `FirstSignInIsServed` | two overlapping first calls of a student: one is answered 500 (`auth/provision.go:24`) |
| `no_email`, `MCAuth` | `FirstSignInIsServed` | one call at a time: the second student without an e-mail claim is never provisioned (`auth/middleware.go:48`) |
| `hung_up`, `MCPush` | `EveryDeviceIsReached` | a client that hangs up after confirming leaves the other party's devices unreminded (`push/sender.go:59`) |
| `lost_error`, `Server` | `FailureIsReported` | the listener fails while a signal is there: the select takes the signal, and the exit code is 0 (`platform/httpserver/server.go:33`) |
| `lost_push`, `Server` | `CleanExitLosesNoPush` | every request was answered, the exit code is 0, and a push that had begun is lost: nobody waits for it (`messages/service.go:86`) |
| `stuck_migration`, `Server` | `SignalStops` | a migration is not told about the signal and may keep the process for ever (`platform/postgres/postgres.go:48`) |

### Fairness

Safety runs assume none. The liveness runs assume that the runtime schedules
every goroutine and that each statement or FCM call it waits for ends, with an
error or without: weak fairness of `AuthStep(h)`, `SendStep(s)` and `ReadPage`.
Go's scheduler and the contexts and time-outs of the drivers justify this. `locks`
needs strong fairness of each goroutine's work, since what it waits for comes and
goes: `database/sql` hands a freed connection to one of those who wait, and
PostgreSQL queues those who wait for a row. The deadlock detector and the end of a
reading call are weakly fair; cancellation never is, so that no call ends
only because it was cut off. A create that finds the model's ids used up is taken
to fail. `server` assumes that the main goroutine and the clock go on, and nothing
of handlers, pushes and migrations. For
`ReadPage` it also means that the client wants the whole list. A student with a
call that failed is not promised a row, since nothing in the server retries.
Nobody is obliged to call.

## Proofs

Each `...Proofs` module proves an inductive invariant and from it the properties,
with one lemma per action. `IInv`, `LocksIInv` and `ForumIInv` are also
checked by TLC in the runs. Every safety property of a passing
run is stated by a theorem.

`BoibrittoProofs`, for any students, books, requests and goroutines, from
`TablesAssumption` alone (owners and profiles are functions of the right sets):
`Invariance` (`Spec => []IInv`), and from it `TypeCorrect`, `HandoffIsConfirmed`,
`AcceptanceIsDated`, `RemindersAreFounded`, `LendersAreContactable`,
`UnavailableIsExplained`; and the action property `PendingDecidedOnce`. The properties
are not inductive alone: a transaction commits on the strength of what its goroutine
read before others ran. `IInv` adds what stays true of such locals (`LocalsStayTrue`):
flags are never withdrawn, so a flag once read as set still is; a request's id never
returns to unused; a checked profile stays complete. With `PendingIsFresh` (a pending
request has no flags) and `RequestHasBook` (the foreign key) this survives every
statement.

Its second part is about overlaps (`ObservedSpec`), with no assumption on the calls.
`StaleCause` is the heart of it: if a goroutine's read was fresh before a step and is
not after it, then the step wrote, for a call that repeats its own or on a read that
was itself stale. It is proved by going through the statements: a decision needs a
pending request and a confirmation an accepted one, so, fresh as they are, neither
writes under the other's feet; a deletion leaves nothing to be wrong about. Hence
`ObservedInvariance` (`IInv /\ StaleIsOvertaken` is inductive) and
`StaleCallsWereOvertaken`. A goroutine that was not overtaken thus writes on a fresh
read, and for such a write the harm is excluded case by case:
`ActivationsAreLostInRaces`, `PendingIsDoubledInRaces`, `BooksAreStrandedInRaces`,
`AvailabilityChangesWithStatus`.

Its third part is the refinement. Where no call is repeated while it is in flight
(`SerialSpec`) no read is ever stale (`SerialInvariance`, again by `StaleCause`), and
`FlowIsImplemented`: a write on fresh reads is a step of the documented flow, every
other step a stutter.

`TransactionsProofs`, for any pool and any goroutines: `Atomicity`, the refinement
`LockedSpec => Spec` of `Boibritto`, from `LocksIInv` (`LocksInvariance`,
`LocksAreExclusive`): a version is its goroutine's change to the row as committed,
nobody else holds one of that row, so applying the versions at commit is the
one-step transaction, and a cascade has by then reached every request of the book.
`DeadlocksNeedDeletes`: without deletions whoever holds a lock and waits, waits for a
book, and whoever holds a book's lock waits for nothing. `LocksKeepSafety` and
`LocksKeepRaces` carry the properties of `Boibritto` and of `Overlaps` over the
refinement, and `LocksKeepTheFlow` composes the two refinements: the server with locks
implements `Lending` when no call is repeated while in flight.

`MessagesProofs`: `ChatInvariance`, and from it `ThreadsAreBetweenParties`,
`OnlyPartiesChat`, `PreviewsAreStored` and the action property
`PreviewsGoBackInRaces`. A thread is created, and created again, only by an accept
that has read its request; a request's parties never change, so every sender who
passed the check is one of them, whatever replaced the document since. A preview that
a send writes is the last message unless another was stored after it.

The second part is about `SerialChatSpec`. `SerialChatIInv` (`SerialChatInvariance`)
adds that message ids are distinct (`MessagesAreDistinct`) and that whoever is about
to write a preview has written the thread's last message (`LatestIsShown`). With it
`ConversationIsImplemented`: `AddMessage` says, `SetPreview` shows, a push that goes
out tells, an accept opens a thread between the same two parties, and no accept is
under way on a request already agreed upon. `FlowAndConversation` has both abstract
specifications of the one composed system.

`ForumProofs`: `ForumInvariance`, and from it `PostsHaveTheirBook`, `ForumAnswersHold`
and the action property `OnlyAuthorsChangePosts`. Posts move in one direction
(`PostGrows`): made, edited, deleted for good, under one author and one book; so
checks and answers survive the steps of all others, and the foreign key with its cascade
does the rest.

`AccountProofs`, for any identities, e-mails and goroutines: `StudentsHaveOneRow`,
`RetriesFindTheRow`, `ActivityIsAccurate`. Rows are only added and keep their
identity and e-mail, so the row a goroutine carries along stays its caller's, and the
row that refused an insert is there for the next lookup.

Its second part, for any students, devices and senders: `PushesReachTheirDevices`,
`BadTokensStopNobody`. `SendIsOnTrack` ties the snapshot to the two histories: it
holds every device that stayed the recipient's, and only devices that once were.

`PagingProofs`, for any rows, times and page size: `PagesNeverRepeat`,
`ReadingIsComplete`. The cursor divides the rows: none received is older
(`CursorIsOldest`), none missing is newer (`NothingIsForgotten`); rows of exactly
the cursor's time are on neither side.

`ActivityProofs`, for any finite set of events and any caps with
`ShowCap <= FetchCap <= BookLimit`, as in the code (5, 5, 10): `FeedIsNewest`. The
first m of the n newest are the m newest (`NewestOfNewest`), and an event passed
over by its own query has as many newer ones in what was fetched as the feed can
show (`PassedOverForNewer`).

`ServerProofs`, for any connections and any grace: `ServerInvariance`, and from it
`ExitIsClean`, `NobodyIsCutOffEarly`, `PushesOutliveTheirRequests` and the action property
`ShutdownLetsNobodyIn`. The properties speak of the exit; `ServerIInv` says how each
stage of `main` prepares for it: nobody is connected before there is a listener
(`ListensWhenReady`), a shutdown was asked for and has closed it
(`ShutdownClosesListener`), only an empty server lets `Shutdown` return cleanly and the
pool be closed (`ReturnIsClean`), and code 1 has its reasons (`FailureHasReason`).

Outside the prover's reach, and left to TLC: liveness under fairness
(`EveryCallEnds`, `ProvisionedInTheEnd`, `DevicesAreServed`, `ReadingEnds`,
`StopsInTheEnd`) and ENABLED. Induction over data and RECURSIVE operators are not
used.

## Plan

Done: the lending core with its locks and its refinements in both directions
(implemented by `Transactions`, implementing `Lending` where no call is repeated) and
what overlaps do to it, chat with its refinement of `Conversation`, forum, sign-in,
push, paging, feed, and the process, all with proofs of their safety. Left:

1. Composition: pushes of `Requests` and `Messages` through `Push`.
2. Proofs: abstract specifications of `Push` and `Forum`, and their refinement.

## Not modelled

Text, validation of lengths and formats, HTTP encoding, CORS, rate limiting,
logging, configuration (a bad one panics before anything runs), migration order,
the order of routes and middlewares, the admin cover update and the Firebase
client libraries: none keeps state that a property above depends on. Rows of
`borrow_requests` and `book_forum_posts` also go with their student, but nothing in the
code deletes a student. `src/frontend` is empty.

-------------------------------- MODULE Auth --------------------------------
(***************************************************************************)
(* internal/auth: the middleware in front of every call.  Firebase has     *)
(* verified who the caller is; the middleware looks up that identity's     *)
(* row in users, inserts one on first sign-in, and notes when the student  *)
(* was last active.  Lookup, insert and note are separate statements, and  *)
(* a client that starts up sends several calls at once.                    *)
(***************************************************************************)
EXTENDS Integers, Sequences

CONSTANTS
    Uids,       \* Firebase identities of the students who call
    EmailOf,    \* e-mail claim of each identity's token, "" if it has none
    Handlers,   \* goroutines that can be authenticating at once
    Throttle,   \* least time between two writes of last_active_at (60 s)
    MaxTime     \* a bound on the clock

ASSUME AuthAssumption ==
    /\ DOMAIN EmailOf = Uids
    /\ Throttle \in Nat
    /\ MaxTime \in Nat

VARIABLES
    users,      \* the rows of users, in the order of their SERIAL ids
    now,        \* the database's clock
    auth,       \* auth[h]: next statement and locals of goroutine h
    refused,    \* identities whose insert was refused: they were answered 500
    failed,     \* identities with an insert that failed for reasons outside the model
    heard       \* heard[u]: the latest clock a touch of u's row was carried out with

authVars == <<users, now, auth, refused, failed, heard>>

-----------------------------------------------------------------------------
(***************************************************************************)
(* Rows and goroutines.                                                    *)
(***************************************************************************)

Never == -1

Rows == [uid : Uids, email : {EmailOf[u] : u \in Uids}, lastActive : Never .. MaxTime]

Idle == [step |-> "idle"]

Calls ==
    {Idle}
      \cup [step : {"lookup", "insert"}, uid : Uids]
      \cup [step : {"touch"}, uid : Uids, row : Nat, at : 0 .. MaxTime]

RowsOf(u) == {i \in DOMAIN users : users[i].uid = u}

\* UNIQUE (firebase_uid), UNIQUE (email).
Conflict(u) == \E i \in DOMAIN users : users[i].uid = u \/ users[i].email = EmailOf[u]

-----------------------------------------------------------------------------
(***************************************************************************)
(* RequireAuth.                                                            *)
(***************************************************************************)

VerifyToken(h, u) ==
    /\ auth[h] = Idle
    /\ auth' = [auth EXCEPT ![h] = [step |-> "lookup", uid |-> u]]
    /\ UNCHANGED <<users, now, refused, failed, heard>>

\* The statement that writes last_active_at starts, and reads its clock,
\* once the row is known.
Touch(u, i) == [step |-> "touch", uid |-> u, row |-> i, at |-> now]

\* Mutant: any error of the lookup is taken for ErrNotFound.
LookupAnyError(h) ==
    /\ auth[h].step = "lookup"
    /\ LET u == auth[h].uid
       IN  \/ \E i \in RowsOf(u) : auth' = [auth EXCEPT ![h] = Touch(u, i)]
           \/ auth' = [auth EXCEPT ![h].step = "insert"]
    /\ UNCHANGED <<users, now, refused, failed, heard>>

Lookup(h) ==
    /\ auth[h].step = "lookup"
    /\ LET u == auth[h].uid
       IN  \/ \E i \in RowsOf(u) : auth' = [auth EXCEPT ![h] = Touch(u, i)]
           \/ /\ RowsOf(u) = {}
              /\ auth' = [auth EXCEPT ![h].step = "insert"]
    /\ UNCHANGED <<users, now, refused, failed, heard>>

\* Mutant: the columns are not unique.
InsertUnconstrained(h) ==
    /\ auth[h].step = "insert"
    /\ LET u == auth[h].uid
       IN  /\ users' = Append(users, [uid |-> u, email |-> EmailOf[u], lastActive |-> Never])
           /\ auth' = [auth EXCEPT ![h] = Touch(u, Len(users) + 1)]
    /\ UNCHANGED <<now, refused, failed, heard>>

\* Mutant: the insert runs in a transaction that nobody commits.
InsertRolledBack(h) ==
    /\ auth[h].step = "insert"
    /\ auth' = [auth EXCEPT ![h] = Idle]
    /\ UNCHANGED <<users, now, refused, failed, heard>>

InsertUser(h) ==
    /\ auth[h].step = "insert"
    /\ LET u == auth[h].uid
       IN  \/ /\ Conflict(u)
              /\ auth' = [auth EXCEPT ![h] = Idle]
              /\ refused' = refused \cup {u}
              /\ UNCHANGED users
           \/ /\ ~Conflict(u)
              /\ users' = Append(users, [uid |-> u, email |-> EmailOf[u],
                                         lastActive |-> Never])
              /\ auth' = [auth EXCEPT ![h] = Touch(u, Len(users) + 1)]
              /\ UNCHANGED refused
    /\ UNCHANGED <<now, failed, heard>>

\* The UPDATE is carried out, whether or not it finds the row worth a write.
Hear(u, at) == heard' = [heard EXCEPT ![u] = IF @ < at THEN at ELSE @]

\* Mutant: every call writes the row.
TouchAlways(h) ==
    /\ auth[h].step = "touch"
    /\ users' = [users EXCEPT ![auth[h].row].lastActive = auth[h].at]
    /\ Hear(auth[h].uid, auth[h].at)
    /\ auth' = [auth EXCEPT ![h] = Idle]
    /\ UNCHANGED <<now, refused, failed>>

\* A failure here is only logged: the row stays as it is.
TouchLastActive(h) ==
    /\ auth[h].step = "touch"
    /\ LET i == auth[h].row
           last == users[i].lastActive
       IN  \/ /\ last = Never \/ last < auth[h].at - Throttle
              /\ users' = [users EXCEPT ![i].lastActive = auth[h].at]
              /\ Hear(auth[h].uid, auth[h].at)
           \/ /\ last # Never /\ last >= auth[h].at - Throttle
              /\ Hear(auth[h].uid, auth[h].at)
              /\ UNCHANGED users
           \/ UNCHANGED <<users, heard>>
    /\ auth' = [auth EXCEPT ![h] = Idle]
    /\ UNCHANGED <<now, refused, failed>>

\* The lookup or the insert fails, or the client is gone.
Fail(h) ==
    /\ auth[h] # Idle
    /\ auth' = [auth EXCEPT ![h] = Idle]
    /\ failed' = IF auth[h].step = "insert" THEN failed \cup {auth[h].uid} ELSE failed
    /\ UNCHANGED <<users, now, refused, heard>>

Tick ==
    /\ now < MaxTime
    /\ now' = now + 1
    /\ UNCHANGED <<users, auth, refused, failed, heard>>

-----------------------------------------------------------------------------

AuthInit ==
    /\ users = << >>
    /\ now = 0
    /\ auth = [h \in Handlers |-> Idle]
    /\ refused = {}
    /\ failed = {}
    /\ heard = [u \in Uids |-> Never]

AuthStep(h) == Lookup(h) \/ InsertUser(h) \/ TouchLastActive(h)

AuthNext ==
    \/ \E h \in Handlers : AuthStep(h) \/ Fail(h) \/ \E u \in Uids : VerifyToken(h, u)
    \/ Tick

AuthSpec == AuthInit /\ [][AuthNext]_authVars

(***************************************************************************)
(* Fairness: the runtime schedules every goroutine, and the database       *)
(* answers every statement.  Nobody is obliged to call.                    *)
(***************************************************************************)
FairAuthSpec == AuthSpec /\ \A h \in Handlers : WF_authVars(AuthStep(h))

-----------------------------------------------------------------------------

AuthTypeOK ==
    /\ users \in Seq(Rows)
    /\ now \in 0 .. MaxTime
    /\ auth \in [Handlers -> Calls]
    /\ refused \subseteq Uids
    /\ failed \subseteq Uids
    /\ heard \in [Uids -> Never .. MaxTime]

\* An identity has one row and a row's owner is found again: overlapping
\* first calls never split a student in two, and the row that a goroutine
\* carries along is its caller's.
OneRowPerStudent ==
    /\ \A i, j \in DOMAIN users :
         users[i].uid = users[j].uid \/ users[i].email = users[j].email => i = j
    /\ \A h \in Handlers :
         auth[h].step = "touch" => users[auth[h].row].uid = auth[h].uid

\* last_active_at is as accurate as the throttle allows: it is never ahead of
\* the latest touch that was carried out, and never behind it by more than the
\* throttle, though touches are carried out in another order than they began.
LastActiveIsAccurate ==
    \A i \in DOMAIN users :
      LET last == users[i].lastActive
          latest == heard[users[i].uid]
      IN  /\ last = Never <=> latest = Never
          /\ last <= latest /\ latest <= last + Throttle

\* Nobody is refused by the UNIQUE columns for a row that is not there.
RefusedHaveRow == \A u \in refused : Conflict(u)

\* The inductive invariant of the proofs: with it, the row a goroutine is
\* about to touch is there, since rows are only ever added.
AuthIInv ==
    /\ AuthTypeOK
    /\ OneRowPerStudent
    /\ RefusedHaveRow
    /\ \A h \in Handlers : auth[h].step = "touch" => auth[h].row \in DOMAIN users
    /\ \A u \in Uids : RowsOf(u) = {} => heard[u] = Never
    /\ LastActiveIsAccurate

\* A student whose insert was refused, because the row of an overlapping call
\* came first, finds that row with the next call, and is not sent to the insert
\* to be refused again, unless it was somebody else's row with the e-mail.
RetryStep(h) ==
    /\ auth[h].step = "lookup" /\ auth'[h].step = "insert"
    /\ auth[h].uid \in refused
    => \E i \in DOMAIN users : /\ users[i].uid # auth[h].uid
                               /\ users[i].email = EmailOf[auth[h].uid]

RetryFindsTheRow == [][\A h \in Handlers : RetryStep(h)]_authVars

\* A student who gets as far as the insert has a row in the end, whoever's
\* insert it was that created it, unless the e-mail is somebody else's or an
\* insert of the student's failed.
ProvisionedInTheEnd ==
    \A u \in Uids :
      (\E h \in Handlers : auth[h].step = "insert" /\ auth[h].uid = u)
        ~> (Conflict(u) \/ u \in failed)

-----------------------------------------------------------------------------
(***************************************************************************)
(* What the documentation promises, and the code does not keep.            *)
(***************************************************************************)

\* A verified student is served on first sign-in.
FirstSignInIsServed == refused = {}

=============================================================================

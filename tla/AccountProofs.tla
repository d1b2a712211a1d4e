--------------------------- MODULE AccountProofs ----------------------------
(***************************************************************************)
(* Proofs of the safety properties of Auth and Push: what the server       *)
(* keeps of a student who signs in (the row in users, the last activity)   *)
(* and of the student's devices.  For any number of identities, students,  *)
(* devices, goroutines and senders, any assignment of e-mails and any set  *)
(* of faulty tokens.  The two share no state.                              *)
(*                                                                         *)
(* Auth: rows are only added, and a row keeps its identity and its e-mail  *)
(* (RowsStay): so an index that a goroutine carries stays good, and a      *)
(* refusal stays explained.  Only the insert adds a row, and the two       *)
(* UNIQUE columns make it new in both.  What a touch leaves in the row is  *)
(* kept in step with the touches that were carried out (HeardIsKept).      *)
(*                                                                         *)
(* Push: the loop works on a snapshot.  What keeps it honest is that a     *)
(* device that stays the recipient's is in every snapshot, and that a      *)
(* device in the snapshot was the recipient's when it was taken            *)
(* (SendIsOnTrack).                                                        *)
(***************************************************************************)
EXTENDS Auth, Push, TLAPS

-----------------------------------------------------------------------------
(***************************************************************************)
(* Sign-in (Auth).                                                         *)
(***************************************************************************)

\* A call at a step has that step's locals.
LEMMA AuthCallShape ==
    ASSUME NEW c \in Calls
    PROVE  /\ c.step \in {"lookup", "insert"} => c.uid \in Uids
           /\ c.step = "lookup" => [c EXCEPT !.step = "insert"] \in Calls
           /\ c.step = "lookup" => [c EXCEPT !.step = "insert"].step = "insert"
           /\ c.step = "touch" => c.uid \in Uids /\ c.row \in Nat /\ c.at \in 0 .. MaxTime
  BY DEF Calls, Idle

\* What the middleware starts a goroutine with is a call.
LEMMA AuthNewCalls ==
    /\ Idle \in Calls
    /\ Idle.step = "idle"
    /\ \A u \in Uids : [step |-> "lookup", uid |-> u] \in Calls
    /\ \A u \in Uids, i \in Nat, t \in 0 .. MaxTime :
         [step |-> "touch", uid |-> u, row |-> i, at |-> t] \in Calls
  BY DEF Calls, Idle

\* What a statement may do to the rows there are.
RowsStay ==
    /\ DOMAIN users \subseteq DOMAIN users'
    /\ \A i \in DOMAIN users : /\ users'[i].uid = users[i].uid
                               /\ users'[i].email = users[i].email

\* What the rows and the touches that were carried out have to do with each
\* other.
HeardIsKept ==
    /\ \A u \in Uids : RowsOf(u) = {} => heard[u] = Never
    /\ LastActiveIsAccurate

\* When the rows that are there stay, so do the facts that point at them.
LEMMA PointersStay ==
    ASSUME AuthIInv, RowsStay, UNCHANGED refused,
           NEW h \in Handlers, NEW c \in Calls,
           auth' = [auth EXCEPT ![h] = c],
           c.step = "touch" => c.row \in DOMAIN users' /\ users'[c.row].uid = c.uid
    PROVE  /\ RefusedHaveRow'
           /\ auth' \in [Handlers -> Calls]
           /\ \A g \in Handlers : auth'[g].step = "touch" =>
                auth'[g].row \in DOMAIN users' /\ users'[auth'[g].row].uid = auth'[g].uid
<1>1. RefusedHaveRow'
  BY DEF AuthIInv, RefusedHaveRow, Conflict, RowsStay
<1>2. auth' \in [Handlers -> Calls]
  BY DEF AuthIInv, AuthTypeOK
<1>3. ASSUME NEW g \in Handlers, auth'[g].step = "touch"
      PROVE  auth'[g].row \in DOMAIN users' /\ users'[auth'[g].row].uid = auth'[g].uid
  <2>1. auth'[g] = IF g = h THEN c ELSE auth[g]
    BY DEF AuthIInv, AuthTypeOK
  <2>2. CASE g = h
    BY <1>3, <2>1, <2>2
  <2>3. CASE g # h
    BY <1>3, <2>1, <2>3 DEF AuthIInv, OneRowPerStudent, RowsStay
  <2> QED
    BY <2>2, <2>3
<1> QED
  BY <1>1, <1>2, <1>3

\* A statement that only moves its own goroutine on keeps the invariant.
LEMMA MoveKeepsIInv ==
    ASSUME AuthIInv, UNCHANGED <<users, refused, heard>>, now' \in 0 .. MaxTime,
           failed' \subseteq Uids,
           NEW h \in Handlers, NEW c \in Calls,
           auth' = [auth EXCEPT ![h] = c],
           c.step = "touch" => c.row \in DOMAIN users /\ users[c.row].uid = c.uid
    PROVE  AuthIInv'
<1>1. RowsStay
  BY DEF RowsStay
<1>2. /\ RefusedHaveRow'
      /\ auth' \in [Handlers -> Calls]
      /\ \A g \in Handlers : auth'[g].step = "touch" =>
           auth'[g].row \in DOMAIN users' /\ users'[auth'[g].row].uid = auth'[g].uid
  BY <1>1, PointersStay
<1>3. AuthTypeOK'
  BY <1>2 DEF AuthIInv, AuthTypeOK
<1>4. OneRowPerStudent'
  BY <1>2 DEF AuthIInv, OneRowPerStudent
<1>5. HeardIsKept'
  BY DEF AuthIInv, HeardIsKept, LastActiveIsAccurate, RowsOf
<1> QED
  BY <1>2, <1>3, <1>4, <1>5 DEF AuthIInv, HeardIsKept

-----------------------------------------------------------------------------

\* No rows, no calls, no refusals.
LEMMA AuthInitIInv == AuthInit => AuthIInv
<1> SUFFICES ASSUME AuthInit PROVE AuthIInv
  OBVIOUS
<1>1. AuthTypeOK
  <2>1. Never \in Never .. MaxTime
    BY AuthAssumption DEF Never, AuthAssumption
  <2> QED
    BY <2>1, AuthAssumption, AuthNewCalls DEF AuthInit, AuthTypeOK, AuthAssumption
<1>2. OneRowPerStudent /\ RefusedHaveRow
  BY AuthNewCalls DEF AuthInit, OneRowPerStudent, RefusedHaveRow
<1>3. \A h \in Handlers : auth[h].step # "touch"
  BY AuthNewCalls DEF AuthInit
<1>4. HeardIsKept
  BY DEF AuthInit, HeardIsKept, LastActiveIsAccurate
<1> QED
  BY <1>1, <1>2, <1>3, <1>4 DEF AuthIInv, HeardIsKept

\* The lookup finds the caller's own row, or none.
LEMMA LookupKeepsIInv ==
    ASSUME AuthIInv, NEW h \in Handlers, Lookup(h)
    PROVE  AuthIInv'
<1> DEFINE u == auth[h].uid
<1>1. /\ auth[h] \in Calls /\ u \in Uids
      /\ now' \in 0 .. MaxTime /\ now' = now
      /\ failed' \subseteq Uids
      /\ DOMAIN users \subseteq Nat
  <2>1. /\ users \in Seq(Rows) /\ auth[h] \in Calls
        /\ now' \in 0 .. MaxTime /\ now' = now
        /\ failed' \subseteq Uids
    BY DEF AuthIInv, AuthTypeOK, Lookup
  <2>2. DOMAIN users \subseteq Nat
    BY <2>1
  <2> QED
    BY <2>1, <2>2, AuthCallShape DEF Lookup
<1>2. CASE \E i \in RowsOf(u) : auth' = [auth EXCEPT ![h] = Touch(u, i)]
  <2>1. PICK i \in RowsOf(u) : auth' = [auth EXCEPT ![h] = Touch(u, i)]
    BY <1>2
  <2>2. i \in DOMAIN users /\ users[i].uid = u
    BY DEF RowsOf
  <2>3. /\ Touch(u, i) \in Calls
        /\ Touch(u, i).row = i
        /\ Touch(u, i).uid = u
    BY <1>1, <2>2, AuthNewCalls DEF Touch
  <2> QED
    BY <1>1, <2>1, <2>2, <2>3, MoveKeepsIInv DEF Lookup
<1>3. CASE auth' = [auth EXCEPT ![h].step = "insert"]
  <2>1. auth' = [auth EXCEPT ![h] = [auth[h] EXCEPT !.step = "insert"]]
    BY <1>3
  <2> QED
    BY <1>1, <2>1, AuthCallShape, MoveKeepsIInv DEF Lookup
<1> QED
  BY <1>2, <1>3 DEF Lookup

\* A refused insert is explained by the row it ran into; an accepted one is
\* new in both unique columns.
LEMMA InsertUserKeepsIInv ==
    ASSUME AuthIInv, NEW h \in Handlers, InsertUser(h)
    PROVE  AuthIInv'
<1> DEFINE u == auth[h].uid
           row == [uid |-> u, email |-> EmailOf[u], lastActive |-> Never]
           n == Len(users) + 1
<1>1. /\ auth[h] \in Calls
      /\ u \in Uids
      /\ now \in 0 .. MaxTime
      /\ users \in Seq(Rows)
      /\ now' = now
      /\ UNCHANGED <<failed, heard>>
  BY AuthCallShape DEF AuthIInv, AuthTypeOK, InsertUser
<1>2. CASE Conflict(u) /\ auth' = [auth EXCEPT ![h] = Idle] /\ refused' = refused \cup {u}
           /\ UNCHANGED users
  <2>1. RefusedHaveRow'
    BY <1>2 DEF AuthIInv, RefusedHaveRow, Conflict
  <2>2. \A g \in Handlers : auth'[g] = IF g = h THEN Idle ELSE auth[g]
    BY <1>2 DEF AuthIInv, AuthTypeOK
  <2>3. \A g \in Handlers : auth'[g].step = "touch" => auth'[g] = auth[g]
    BY <2>2, AuthNewCalls
  <2>4. AuthTypeOK'
    BY <1>1, <1>2, AuthNewCalls DEF AuthIInv, AuthTypeOK
  <2>5. OneRowPerStudent'
    BY <1>2, <2>3 DEF AuthIInv, OneRowPerStudent
  <2>6. HeardIsKept'
    BY <1>1, <1>2 DEF AuthIInv, HeardIsKept, LastActiveIsAccurate, RowsOf
  <2> QED
    BY <1>2, <2>1, <2>3, <2>4, <2>5, <2>6 DEF AuthIInv, HeardIsKept
<1>3. CASE ~Conflict(u) /\ users' = Append(users, row)
           /\ auth' = [auth EXCEPT ![h] = Touch(u, n)] /\ UNCHANGED refused
  <2>1. row \in Rows
    BY <1>1, AuthAssumption DEF Rows, Never, AuthAssumption
  <2>2. /\ users' \in Seq(Rows)
        /\ DOMAIN users' = DOMAIN users \cup {n}
        /\ n \in Nat
        /\ n \notin DOMAIN users
        /\ users'[n] = row
        /\ \A i \in DOMAIN users : users'[i] = users[i]
    BY <1>1, <1>3, <2>1
  <2>3. RowsStay
    BY <2>2 DEF RowsStay
  <2>4. Touch(u, n) \in Calls /\ Touch(u, n).row = n /\ Touch(u, n).uid = u
    BY <1>1, <2>2, AuthNewCalls DEF Touch
  <2>5. /\ RefusedHaveRow'
        /\ auth' \in [Handlers -> Calls]
        /\ \A g \in Handlers : auth'[g].step = "touch" =>
             auth'[g].row \in DOMAIN users' /\ users'[auth'[g].row].uid = auth'[g].uid
    <3> DEFINE c == Touch(u, n)
    <3>1. c \in Calls /\ c.row \in DOMAIN users' /\ users'[c.row].uid = c.uid
      BY <2>2, <2>4
    <3>2. auth' = [auth EXCEPT ![h] = c] /\ UNCHANGED refused
      BY <1>3
    <3> HIDE DEF c
    <3> QED
      BY <2>3, <3>1, <3>2, PointersStay
  <2>6. AuthTypeOK'
    BY <1>1, <1>3, <2>2, <2>5 DEF AuthIInv, AuthTypeOK
  <2>7. ASSUME NEW i \in DOMAIN users', NEW j \in DOMAIN users',
               users'[i].uid = users'[j].uid \/ users'[i].email = users'[j].email
        PROVE  i = j
    <3>1. CASE i # n /\ j # n
      BY <2>2, <2>7, <3>1 DEF AuthIInv, OneRowPerStudent
    <3>2. ASSUME NEW k \in DOMAIN users
          PROVE  users[k].uid # u /\ users[k].email # EmailOf[u]
      BY <1>3 DEF Conflict
    <3>3. CASE i = n \/ j = n
      BY <2>2, <2>7, <3>2, <3>3
    <3> QED
      BY <3>1, <3>3
  <2>8. OneRowPerStudent'
    BY <2>5, <2>7 DEF OneRowPerStudent
  <2>9. RowsOf(u) = {}
    BY <1>3 DEF Conflict, RowsOf
  <2>10. heard[u] = Never
    BY <1>1, <2>9 DEF AuthIInv
  <2>11. ASSUME NEW v \in Uids, RowsOf(v)' = {} PROVE heard'[v] = Never
    <3>1. RowsOf(v) = {}
      BY <2>2, <2>11 DEF RowsOf
    <3> QED
      BY <1>1, <3>1 DEF AuthIInv
  <2>12. LastActiveIsAccurate'
    <3> SUFFICES ASSUME NEW i \in DOMAIN users'
                 PROVE  LET last == users'[i].lastActive
                            latest == heard'[users'[i].uid]
                        IN  /\ last = Never <=> latest = Never
                            /\ last <= latest /\ latest <= last + Throttle
      BY DEF LastActiveIsAccurate
    <3>1. CASE i = n
      BY <1>1, <2>2, <2>10, <3>1, AuthAssumption DEF Never, AuthAssumption
    <3>2. CASE i # n
      BY <1>1, <2>2, <3>2 DEF AuthIInv, LastActiveIsAccurate
    <3> QED
      BY <3>1, <3>2
  <2> QED
    BY <2>5, <2>6, <2>8, <2>11, <2>12 DEF AuthIInv
<1> QED
  BY <1>2, <1>3 DEF InsertUser

\* A touch is of a row that is there, and its caller's.
LEMMA TouchedRow ==
    ASSUME AuthIInv, NEW h \in Handlers, TouchLastActive(h)
    PROVE  /\ auth[h].row \in DOMAIN users
           /\ users[auth[h].row].uid = auth[h].uid
           /\ auth[h].uid \in Uids
           /\ auth[h].at \in 0 .. MaxTime
           /\ users[auth[h].row].lastActive \in Never .. MaxTime
           /\ heard[auth[h].uid] \in Never .. MaxTime
<1>1. /\ auth[h] \in Calls /\ auth[h].step = "touch"
      /\ users \in Seq(Rows)
      /\ heard \in [Uids -> Never .. MaxTime]
      /\ auth[h].row \in DOMAIN users /\ users[auth[h].row].uid = auth[h].uid
  BY DEF AuthIInv, AuthTypeOK, OneRowPerStudent, TouchLastActive
<1>2. auth[h].uid \in Uids /\ auth[h].at \in 0 .. MaxTime
  BY <1>1, AuthCallShape
<1>3. users[auth[h].row] \in Rows
  BY <1>1
<1> QED
  BY <1>1, <1>2, <1>3 DEF Rows

\* What a touch does to the row and to the latest touch carried out: nothing,
\* or it keeps the two within the throttle of each other.
LEMMA TouchWrites ==
    ASSUME AuthIInv, NEW h \in Handlers, TouchLastActive(h)
    PROVE  \E last, latest \in Never .. MaxTime :
             /\ users' = [users EXCEPT ![auth[h].row].lastActive = last]
             /\ heard' = [heard EXCEPT ![auth[h].uid] = latest]
             /\ last = Never <=> latest = Never
             /\ last <= latest /\ latest <= last + Throttle
<1> DEFINE i == auth[h].row
           u == auth[h].uid
           at == auth[h].at
           last == users[i].lastActive
           latest == heard[u]
<1>1. /\ i \in DOMAIN users /\ users[i].uid = u /\ u \in Uids
      /\ at \in 0 .. MaxTime /\ at \in Never .. MaxTime
      /\ last \in Never .. MaxTime /\ latest \in Never .. MaxTime
  BY TouchedRow, AuthAssumption DEF Never, AuthAssumption
<1>2. /\ last = Never <=> latest = Never
      /\ last <= latest /\ latest <= last + Throttle
  BY <1>1 DEF AuthIInv, LastActiveIsAccurate
<1>3. users \in Seq(Rows) /\ heard \in [Uids -> Never .. MaxTime]
  BY DEF AuthIInv, AuthTypeOK
<1>4. users[i] \in Rows
  BY <1>1, <1>3
<1>5. users = [users EXCEPT ![i].lastActive = last]
  <2>1. [users[i] EXCEPT !.lastActive = last] = users[i]
    BY <1>4 DEF Rows
  <2> QED
    BY <1>1, <1>3, <2>1
<1>6. heard = [heard EXCEPT ![u] = latest]
  BY <1>1, <1>3
<1>7. CASE /\ last = Never \/ last < at - Throttle
           /\ users' = [users EXCEPT ![i].lastActive = at]
           /\ Hear(u, at)
  <2>1. latest < at
    BY <1>1, <1>2, <1>7, AuthAssumption DEF Never, AuthAssumption
  <2>2. heard' = [heard EXCEPT ![u] = at]
    BY <1>7, <2>1 DEF Hear
  <2>3. at # Never /\ at <= at + Throttle
    BY <1>1, AuthAssumption DEF Never, AuthAssumption
  <2>4. at <= at
    BY <1>1
  <2> QED
    BY <1>1, <1>7, <2>2, <2>3, <2>4
<1>8. CASE /\ last # Never /\ last >= at - Throttle
           /\ Hear(u, at)
           /\ UNCHANGED users
  <2> DEFINE newest == IF latest < at THEN at ELSE latest
  <2>1. heard' = [heard EXCEPT ![u] = newest]
    BY <1>8 DEF Hear
  <2>2. /\ newest \in Never .. MaxTime /\ newest # Never
        /\ last <= newest /\ newest <= last + Throttle
    BY <1>1, <1>2, <1>8, AuthAssumption DEF Never, AuthAssumption
  <2> HIDE DEF newest
  <2> QED
    BY <1>1, <1>5, <1>8, <2>1, <2>2
<1>9. CASE UNCHANGED <<users, heard>>
  BY <1>1, <1>2, <1>5, <1>6, <1>9
<1> QED
  BY <1>7, <1>8, <1>9 DEF TouchLastActive

\* Noting the activity changes neither identity nor e-mail.
LEMMA TouchLastActiveKeepsIInv ==
    ASSUME AuthIInv, NEW h \in Handlers, TouchLastActive(h)
    PROVE  AuthIInv'
<1> DEFINE k == auth[h].row
           v == auth[h].uid
<1>1. auth' = [auth EXCEPT ![h] = Idle] /\ UNCHANGED <<now, refused, failed>>
  BY DEF TouchLastActive
<1>2. PICK last, latest \in Never .. MaxTime :
        /\ users' = [users EXCEPT ![k].lastActive = last]
        /\ heard' = [heard EXCEPT ![v] = latest]
        /\ last = Never <=> latest = Never
        /\ last <= latest /\ latest <= last + Throttle
  BY TouchWrites
<1>3. /\ users \in Seq(Rows) /\ heard \in [Uids -> Never .. MaxTime]
      /\ k \in DOMAIN users /\ users[k].uid = v /\ v \in Uids
      /\ \A i \in DOMAIN users : users[i] \in Rows
  BY TouchedRow DEF AuthIInv, AuthTypeOK
<1> DEFINE row == [users[k] EXCEPT !.lastActive = last]
<1>4. row \in Rows /\ row.uid = v /\ row.email = users[k].email /\ row.lastActive = last
  BY <1>3 DEF Rows
<1>5. users' = [users EXCEPT ![k] = row]
  BY <1>2
<1> HIDE DEF row
<1>6. /\ users' \in Seq(Rows)
      /\ DOMAIN users' = DOMAIN users
      /\ \A i \in DOMAIN users : users'[i] = IF i = k THEN row ELSE users[i]
  BY <1>3, <1>4, <1>5
<1>7. \A i \in DOMAIN users : users'[i].uid = users[i].uid /\ users'[i].email = users[i].email
  BY <1>3, <1>4, <1>6
<1>8. RowsStay
  BY <1>6, <1>7 DEF RowsStay
<1>9. /\ RefusedHaveRow'
      /\ auth' \in [Handlers -> Calls]
      /\ \A g \in Handlers : auth'[g].step = "touch" =>
           auth'[g].row \in DOMAIN users' /\ users'[auth'[g].row].uid = auth'[g].uid
  BY <1>1, <1>8, AuthNewCalls, PointersStay
<1>10. heard' \in [Uids -> Never .. MaxTime]
  BY <1>2, <1>3
<1>11. AuthTypeOK'
  BY <1>1, <1>6, <1>9, <1>10 DEF AuthIInv, AuthTypeOK
<1>12. OneRowPerStudent'
  BY <1>6, <1>7, <1>9 DEF AuthIInv, OneRowPerStudent
<1>13. ASSUME NEW u \in Uids, RowsOf(u)' = {} PROVE heard'[u] = Never
  <2>1. RowsOf(u) = {}
    BY <1>6, <1>7, <1>13 DEF RowsOf
  <2>2. u # v
    BY <1>3, <2>1 DEF RowsOf
  <2> QED
    BY <1>2, <1>3, <2>1, <2>2 DEF AuthIInv
<1>14. LastActiveIsAccurate'
  <2> SUFFICES ASSUME NEW i \in DOMAIN users'
               PROVE  /\ users'[i].lastActive = Never <=> heard'[users'[i].uid] = Never
                      /\ users'[i].lastActive <= heard'[users'[i].uid]
                      /\ heard'[users'[i].uid] <= users'[i].lastActive + Throttle
    BY DEF LastActiveIsAccurate
  <2>1. CASE i = k
    <3>1. users'[i].lastActive = last /\ users'[i].uid = v
      BY <1>4, <1>6, <2>1
    <3>2. heard'[v] = latest
      BY <1>2, <1>3
    <3> QED
      BY <1>2, <3>1, <3>2
  <2>2. CASE i # k
    <3>1. users'[i] = users[i] /\ users[i].uid # v
      BY <1>3, <1>6, <2>2 DEF AuthIInv, OneRowPerStudent
    <3>2. heard'[users[i].uid] = heard[users[i].uid]
      BY <1>2, <1>3, <3>1
    <3> QED
      BY <1>6, <3>1, <3>2 DEF AuthIInv, LastActiveIsAccurate
  <2> QED
    BY <2>1, <2>2
<1> QED
  BY <1>9, <1>11, <1>12, <1>13, <1>14 DEF AuthIInv

\* Every statement of the middleware keeps the invariant.
LEMMA AuthNextIInv == AuthIInv /\ [AuthNext]_authVars => AuthIInv'
<1> SUFFICES ASSUME AuthIInv, [AuthNext]_authVars PROVE AuthIInv'
  OBVIOUS
<1>1. ASSUME NEW h \in Handlers, AuthStep(h) PROVE AuthIInv'
  BY <1>1, LookupKeepsIInv, InsertUserKeepsIInv, TouchLastActiveKeepsIInv DEF AuthStep
<1>2. ASSUME NEW h \in Handlers, Fail(h) PROVE AuthIInv'
  <2>1. auth[h] \in Calls /\ auth[h] # Idle
    BY <1>2 DEF Fail, AuthIInv, AuthTypeOK
  <2>2. auth[h].uid \in Uids
    BY <2>1 DEF Calls
  <2> QED
    BY <1>2, <2>2, AuthNewCalls, MoveKeepsIInv DEF Fail, AuthIInv, AuthTypeOK
<1>3. ASSUME NEW h \in Handlers, NEW u \in Uids, VerifyToken(h, u) PROVE AuthIInv'
  BY <1>3, AuthNewCalls, MoveKeepsIInv DEF VerifyToken, AuthIInv, AuthTypeOK
<1>4. CASE Tick
  BY <1>4, AuthAssumption
     DEF Tick, AuthIInv, AuthTypeOK, OneRowPerStudent, RefusedHaveRow, Conflict, RowsOf,
         LastActiveIsAccurate, AuthAssumption
<1>5. CASE UNCHANGED authVars
  BY <1>5 DEF authVars, AuthIInv, AuthTypeOK, OneRowPerStudent, RefusedHaveRow, Conflict,
              RowsOf, LastActiveIsAccurate
<1> QED
  BY <1>1, <1>2, <1>3, <1>4, <1>5 DEF AuthNext

-----------------------------------------------------------------------------

\* The inductive invariant of the middleware.
THEOREM AuthInvariance == AuthSpec => []AuthIInv
<1> QED
  BY AuthInitIInv, AuthNextIInv, PTL DEF AuthSpec

\* However first calls overlap, an identity and an e-mail have one row, and
\* each call goes on as its own student.
THEOREM StudentsHaveOneRow == AuthSpec => []OneRowPerStudent
<1>1. AuthIInv => OneRowPerStudent
  BY DEF AuthIInv
<1> QED
  BY <1>1, AuthInvariance, PTL

\* A student whose insert lost the race for the row finds that row with the
\* next call: nobody but those who share an e-mail is refused call after call
\* (FindOrCreateUser).
THEOREM RetriesFindTheRow == AuthSpec => RetryFindsTheRow
<1> DEFINE Found == \A h \in Handlers : RetryStep(h)
<1>1. AuthIInv /\ [AuthNext]_authVars => [Found]_authVars
  <2> SUFFICES ASSUME AuthIInv, AuthNext, NEW h \in Handlers,
                      auth[h].step = "lookup", auth'[h].step = "insert",
                      auth[h].uid \in refused
               PROVE  \E i \in DOMAIN users : /\ users[i].uid # auth[h].uid
                                              /\ users[i].email = EmailOf[auth[h].uid]
    BY DEF RetryStep
  <2>1. auth \in [Handlers -> Calls]
    BY DEF AuthIInv, AuthTypeOK
  <2>2. ASSUME NEW g \in Handlers, Lookup(g) PROVE RowsOf(auth[h].uid) = {}
    <3>1. g = h
      BY <2>1, <2>2 DEF Lookup
    <3>2. ASSUME NEW i \in RowsOf(auth[g].uid), auth' = [auth EXCEPT ![g] = Touch(auth[g].uid, i)]
          PROVE  FALSE
      BY <2>1, <3>1, <3>2 DEF Touch
    <3> QED
      BY <2>2, <3>1, <3>2 DEF Lookup
  <2>3. ASSUME NEW g \in Handlers, NEW c, auth' = [auth EXCEPT ![g] = c], c.step # "insert"
        PROVE  FALSE
    BY <2>1, <2>3
  <2>4. ASSUME NEW g \in Handlers, InsertUser(g) PROVE FALSE
    BY <2>3, <2>4, AuthNewCalls DEF InsertUser, Touch
  <2>5. ASSUME NEW g \in Handlers, TouchLastActive(g) \/ Fail(g) PROVE FALSE
    BY <2>3, <2>5, AuthNewCalls DEF TouchLastActive, Fail
  <2>6. ASSUME NEW g \in Handlers, NEW u \in Uids, VerifyToken(g, u) PROVE FALSE
    BY <2>3, <2>6 DEF VerifyToken
  <2>7. ~Tick
    BY DEF Tick
  <2>8. RowsOf(auth[h].uid) = {}
    BY <2>2, <2>4, <2>5, <2>6, <2>7 DEF AuthNext, AuthStep
  <2>9. Conflict(auth[h].uid)
    BY DEF AuthIInv, RefusedHaveRow
  <2> QED
    BY <2>8, <2>9 DEF Conflict, RowsOf
<1> QED
  BY <1>1, AuthInvariance, PTL DEF AuthSpec, RetryFindsTheRow

\* Whatever the order in which overlapping calls carry out their touches,
\* last_active_at is no later than the latest of them and no older than it by
\* more than the throttle (TouchLastActive).
THEOREM ActivityIsAccurate == AuthSpec => []LastActiveIsAccurate
<1>1. AuthIInv => LastActiveIsAccurate
  BY DEF AuthIInv
<1> QED
  BY <1>1, AuthInvariance, PTL

-----------------------------------------------------------------------------
(***************************************************************************)
(* Devices (Push).                                                         *)
(***************************************************************************)

\* A goroutine inside Send has all of its locals.
LEMMA SendShape ==
    ASSUME NEW c \in Sends, c # IdleSend
    PROVE  /\ c \in [step : {"tokens", "loop", "returned"}, user : Users,
                     todo : SUBSET Devices, delivered : SUBSET Devices,
                     caller : BOOLEAN, cancelled : BOOLEAN]
           /\ c.step \in {"tokens", "loop", "returned"}
  BY DEF Sends, IdleSend

\* An idle goroutine is at none of the steps of Send.
LEMMA IdleSendShape == IdleSend \in Sends /\ IdleSend.step = "idle"
  BY DEF Sends, IdleSend

\* It is enough to look at the goroutine that moves.
LEMMA MoveKeepsPushIInv ==
    ASSUME PushIInv, NEW s \in Senders, NEW c \in Sends,
           send' = [send EXCEPT ![s] = c], UNCHANGED <<subscriptions, ever, always>>,
           Active(s)' => SendIsOnTrack(s)'
    PROVE  PushIInv'
<1>1. PushTypeOK'
  BY DEF PushIInv, PushTypeOK
<1>2. ASSUME NEW t \in Senders, Active(t)'
      PROVE  SendIsOnTrack(t)'
  <2>1. CASE t = s
    BY <1>2, <2>1
  <2>2. CASE t # s
    <3>1. send'[t] = send[t]
      BY <2>2 DEF PushIInv, PushTypeOK
    <3> QED
      BY <1>2, <3>1 DEF PushIInv, Active, SendIsOnTrack, TokensForUser, TokensIn
  <2> QED
    BY <2>1, <2>2
<1> QED
  BY <1>1, <1>2 DEF PushIInv

\* A statement on the table disturbs no send: what it takes from or gives to
\* the recipient, it takes from `always' or gives to `ever'.
LEMMA WriteKeepsPushIInv ==
    ASSUME PushIInv, NEW table \in [Devices -> Users \cup {NoUser}], Write(table)
    PROVE  PushIInv'
<1>1. PushTypeOK'
  BY DEF PushIInv, PushTypeOK, Write, TokensIn
<1>2. ASSUME NEW s \in Senders, Active(s)'
      PROVE  SendIsOnTrack(s)'
  <2>1. send'[s] = send[s] /\ Active(s)
    BY <1>2 DEF Write, Active
  <2>2. /\ ever'[s] = ever[s] \cup TokensIn(table, send[s].user)
        /\ always'[s] = always[s] \cap TokensIn(table, send[s].user)
        /\ TokensForUser(send[s].user)' = TokensIn(table, send[s].user)
    BY <2>1 DEF Write, TokensForUser, TokensIn
  <2>3. SendIsOnTrack(s)
    BY <2>1 DEF PushIInv
  <2> QED
    BY <2>1, <2>2, <2>3 DEF SendIsOnTrack
<1> QED
  BY <1>1, <1>2 DEF PushIInv

-----------------------------------------------------------------------------

\* A send begins on track: both histories are the tokens of its recipient.
LEMMA BeginSendKeepsPushIInv ==
    ASSUME PushIInv, NEW s \in Senders, NEW u \in Users, NEW b \in BOOLEAN, BeginSend(s, u, b)
    PROVE  PushIInv'
<1> DEFINE c == [step |-> "tokens", user |-> u, todo |-> {}, delivered |-> {},
                 caller |-> b, cancelled |-> FALSE]
<1>1. c \in Sends
  BY DEF Sends
<1>2. PushTypeOK'
  BY <1>1 DEF PushIInv, PushTypeOK, BeginSend, TokensForUser, TokensIn
<1>3. ASSUME NEW t \in Senders, Active(t)'
      PROVE  SendIsOnTrack(t)'
  <2>1. CASE t = s
    <3>1. /\ send'[t] = c
          /\ ever'[t] = TokensForUser(u)
          /\ always'[t] = TokensForUser(u)
          /\ TokensForUser(u)' = TokensForUser(u)
      BY <2>1 DEF PushIInv, PushTypeOK, BeginSend, TokensForUser, TokensIn
    <3> QED
      BY <3>1 DEF SendIsOnTrack
  <2>2. CASE t # s
    <3>1. /\ send'[t] = send[t] /\ ever'[t] = ever[t] /\ always'[t] = always[t]
          /\ subscriptions' = subscriptions
      BY <2>2 DEF PushIInv, PushTypeOK, BeginSend
    <3> QED
      BY <1>3, <3>1 DEF PushIInv, Active, SendIsOnTrack, TokensForUser, TokensIn
  <2> QED
    BY <2>1, <2>2
<1> QED
  BY <1>2, <1>3 DEF PushIInv

\* Hanging up only takes a promise back.
LEMMA HangUpKeepsPushIInv ==
    ASSUME PushIInv, NEW s \in Senders, HangUp(s)
    PROVE  PushIInv'
<1> DEFINE c == [send[s] EXCEPT !.cancelled = TRUE]
<1>1. send[s] \in Sends /\ Active(s) /\ SendIsOnTrack(s)
  BY IdleSendShape DEF PushIInv, PushTypeOK, HangUp, Active
<1>2. /\ c \in Sends
      /\ c.step = send[s].step /\ c.user = send[s].user
      /\ c.todo = send[s].todo /\ c.delivered = send[s].delivered
      /\ c.cancelled = TRUE
  BY <1>1, SendShape DEF Active, Sends
<1>3. send' = [send EXCEPT ![s] = c] /\ UNCHANGED <<subscriptions, ever, always>>
  BY DEF HangUp
<1>4. send'[s] = c
  BY <1>3 DEF PushIInv, PushTypeOK
<1>5. SendIsOnTrack(s)'
  BY <1>1, <1>2, <1>3, <1>4 DEF SendIsOnTrack, TokensForUser, TokensIn
<1> QED
  BY <1>2, <1>3, <1>5, MoveKeepsPushIInv

\* The snapshot holds every device that stayed, and only the recipient's.
LEMMA ReadTokensKeepsPushIInv ==
    ASSUME PushIInv, NEW s \in Senders, ReadTokens(s)
    PROVE  PushIInv'
<1> DEFINE c == [send[s] EXCEPT !.step = "loop", !.todo = TokensForUser(send[s].user)]
<1>1. send[s] \in Sends /\ Active(s) /\ SendIsOnTrack(s)
  BY IdleSendShape DEF PushIInv, PushTypeOK, ReadTokens, Active
<1>2. /\ c \in Sends
      /\ c.step = "loop" /\ c.user = send[s].user
      /\ c.todo = TokensForUser(send[s].user) /\ c.delivered = send[s].delivered
      /\ c.cancelled = send[s].cancelled
  BY <1>1, SendShape DEF Active, Sends, TokensForUser, TokensIn
<1>3. send' = [send EXCEPT ![s] = c] /\ UNCHANGED <<subscriptions, ever, always>>
  BY DEF ReadTokens, Move
<1>4. send'[s] = c
  BY <1>3 DEF PushIInv, PushTypeOK
<1>5. SendIsOnTrack(s)'
  BY <1>1, <1>2, <1>3, <1>4 DEF SendIsOnTrack, TokensForUser, TokensIn
<1> QED
  BY <1>2, <1>3, <1>5, MoveKeepsPushIInv

\* A device tried is one less to try; it has the push unless its token is
\* faulty or nobody waits any more.
LEMMA TryDeviceKeepsPushIInv ==
    ASSUME PushIInv, NEW s \in Senders, TryDevice(s)
    PROVE  PushIInv'
<1>1. send[s] \in Sends /\ Active(s) /\ SendIsOnTrack(s)
  BY IdleSendShape DEF PushIInv, PushTypeOK, TryDevice, Active
<1>2. PICK d \in send[s].todo :
        Move(s, [send[s] EXCEPT !.todo = @ \ {d},
                                !.delivered = IF Accepts(s, d) THEN @ \cup {d} ELSE @])
  BY DEF TryDevice
<1> DEFINE c == [send[s] EXCEPT !.todo = @ \ {d},
                                !.delivered = IF Accepts(s, d) THEN @ \cup {d} ELSE @]
<1>3. /\ c \in Sends
      /\ c.step = send[s].step /\ c.user = send[s].user
      /\ c.todo = send[s].todo \ {d}
      /\ c.delivered = IF Accepts(s, d) THEN send[s].delivered \cup {d} ELSE send[s].delivered
      /\ c.cancelled = send[s].cancelled
  BY <1>1, SendShape DEF Active, Sends
<1>4. send' = [send EXCEPT ![s] = c] /\ UNCHANGED <<subscriptions, ever, always>>
  BY <1>2 DEF Move
<1>5. send'[s] = c
  BY <1>4 DEF PushIInv, PushTypeOK
<1>6. c.step = "loop"
  BY <1>3 DEF TryDevice
<1>7. SendIsOnTrack(s)'
  BY <1>1, <1>3, <1>4, <1>5, <1>6 DEF SendIsOnTrack, TokensForUser, TokensIn, Accepts
<1> QED
  BY <1>3, <1>4, <1>7, MoveKeepsPushIInv

\* The loop ends when nothing is left to try.
LEMMA ReturnKeepsPushIInv ==
    ASSUME PushIInv, NEW s \in Senders, Return(s)
    PROVE  PushIInv'
<1> DEFINE c == [send[s] EXCEPT !.step = "returned"]
<1>1. send[s] \in Sends /\ Active(s) /\ SendIsOnTrack(s)
  BY IdleSendShape DEF PushIInv, PushTypeOK, Return, Active
<1>2. /\ c \in Sends
      /\ c.user = send[s].user
      /\ c.todo = send[s].todo /\ c.delivered = send[s].delivered
      /\ c.cancelled = send[s].cancelled
  BY <1>1, SendShape DEF Active, Sends
<1>3. send' = [send EXCEPT ![s] = c] /\ UNCHANGED <<subscriptions, ever, always>>
  BY DEF Return, Move
<1>4. send'[s] = c
  BY <1>3 DEF PushIInv, PushTypeOK
<1>5. SendIsOnTrack(s)'
  BY <1>1, <1>2, <1>3, <1>4 DEF SendIsOnTrack, TokensForUser, TokensIn, Return
<1> QED
  BY <1>2, <1>3, <1>5, MoveKeepsPushIInv

\* A goroutine that leaves Send leaves nothing to show.
LEMMA LeaveKeepsPushIInv ==
    ASSUME PushIInv, NEW s \in Senders, Move(s, IdleSend)
    PROVE  PushIInv'
<1>1. ~Active(s)'
  BY DEF PushIInv, PushTypeOK, Move, Active
<1> QED
  BY <1>1, IdleSendShape, MoveKeepsPushIInv DEF Move

-----------------------------------------------------------------------------

\* Every step keeps the inductive invariant.
LEMMA PushStepKeepsIInv ==
    ASSUME PushIInv, [PushNext]_pushVars
    PROVE  PushIInv'
<1>1. ASSUME NEW d \in Devices, Unsubscribe(d)
      PROVE  PushIInv'
  <2>1. [subscriptions EXCEPT ![d] = NoUser] \in [Devices -> Users \cup {NoUser}]
    BY DEF PushIInv, PushTypeOK
  <2> QED
    BY <1>1, <2>1, WriteKeepsPushIInv DEF Unsubscribe
<1>2. ASSUME NEW d \in Devices, NEW u \in Users, Subscribe(u, d)
      PROVE  PushIInv'
  <2>1. [subscriptions EXCEPT ![d] = u] \in [Devices -> Users \cup {NoUser}]
    BY DEF PushIInv, PushTypeOK
  <2> QED
    BY <1>2, <2>1, WriteKeepsPushIInv DEF Subscribe
<1>3. ASSUME NEW s \in Senders, SendStep(s)
      PROVE  PushIInv'
  <2>1. CASE ReadTokens(s)
    BY <2>1, ReadTokensKeepsPushIInv
  <2>2. CASE FailTokens(s) \/ Finish(s)
    BY <2>2, LeaveKeepsPushIInv DEF FailTokens, Finish
  <2>3. CASE TryDevice(s)
    BY <2>3, TryDeviceKeepsPushIInv
  <2>4. CASE Return(s)
    BY <2>4, ReturnKeepsPushIInv
  <2> QED
    BY <1>3, <2>1, <2>2, <2>3, <2>4 DEF SendStep
<1>4. ASSUME NEW s \in Senders, HangUp(s)
      PROVE  PushIInv'
  BY <1>4, HangUpKeepsPushIInv
<1>5. ASSUME NEW s \in Senders, NEW u \in Users, NEW b \in BOOLEAN, BeginSend(s, u, b)
      PROVE  PushIInv'
  BY <1>5, BeginSendKeepsPushIInv
<1>6. CASE UNCHANGED pushVars
  BY <1>6 DEF pushVars, PushIInv, PushTypeOK, Active, SendIsOnTrack, TokensForUser, TokensIn
<1> QED
  BY <1>1, <1>2, <1>3, <1>4, <1>5, <1>6 DEF PushNext

\* The inductive invariant of Send and its subscriptions, in every state.
THEOREM PushInvariance == PushSpec => []PushIInv
<1>1. PushInit => PushIInv
  BY IdleSendShape DEF PushInit, PushIInv, PushTypeOK, Active
<1>2. PushIInv /\ [PushNext]_pushVars => PushIInv'
  BY PushStepKeepsIInv
<1> QED
  BY <1>1, <1>2, PTL DEF PushSpec

\* No device shows a push of a student it did not belong to while it was sent.
THEOREM PushesReachTheirDevices == PushSpec => []OnlyTheirDevices
<1>1. PushIInv => OnlyTheirDevices
  BY DEF PushIInv, OnlyTheirDevices, SendIsOnTrack
<1> QED
  BY <1>1, PushInvariance, PTL

\* One bad token, or a subscription that changes, never costs another device
\* its push.
THEOREM BadTokensStopNobody == PushSpec => []OthersAreReached
<1>1. PushIInv => OthersAreReached
  <2> SUFFICES ASSUME PushIInv, NEW s \in Senders,
                      send[s].step = "returned", ~send[s].cancelled
               PROVE  always[s] \ Faulty \subseteq send[s].delivered
    BY DEF OthersAreReached
  <2>1. SendIsOnTrack(s)
    BY IdleSendShape DEF PushIInv, Active
  <2> QED
    BY <2>1 DEF SendIsOnTrack
<1> QED
  BY <1>1, PushInvariance, PTL

=============================================================================

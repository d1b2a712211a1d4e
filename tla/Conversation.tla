---------------------------- MODULE Conversation ----------------------------
(***************************************************************************)
(* What a request's thread promises its two parties, as the README's       *)
(* section on messaging and the contract of POST /threads/{id}/messages    *)
(* tell it: a conversation between the two of them that only grows, shows  *)
(* its last message, tells each of them what the other one has said, and,  *)
(* once the request is agreed upon, is there to stay.                      *)
(*                                                                         *)
(* There are no goroutines here: each step happens at once.                *)
(***************************************************************************)
EXTENDS Sequences, Naturals

CONSTANTS
    Users,
    Threads,
    MessageIds

VARIABLES
    members,    \* members[r]: the two parties of an open thread, or nobody
    log,        \* log[r]: what was said in r, in order
    shown,      \* shown[r]: the id of the message r shows, if any
    told,       \* notices that went out: to whom, and which message of which thread
    standing    \* standing[r]: is the request "open", "agreed" upon or "gone"

conversationVars == <<members, log, shown, told, standing>>

Said(r) == {log[r][i] : i \in DOMAIN log[r]}

LastSaid(r) == log[r][Len(log[r])]

-----------------------------------------------------------------------------

\* A thread may be opened again, between the same two, and then shows nothing
\* until somebody speaks; but not once the request is agreed upon.
Open(r, u, v) ==
    /\ u # v
    /\ standing[r] # "agreed"
    /\ members[r] \in {{}, {u, v}}
    /\ members' = [members EXCEPT ![r] = {u, v}]
    /\ shown' = [shown EXCEPT ![r] = {}]
    /\ UNCHANGED <<log, told, standing>>

\* Every message is said once.
Say(r, u, m) ==
    /\ u \in members[r]
    /\ \A q \in Threads : \A said \in Said(q) : said.id # m
    /\ log' = [log EXCEPT ![r] = Append(@, [id |-> m, sender |-> u])]
    /\ UNCHANGED <<members, shown, told, standing>>

Show(r) ==
    /\ log[r] # << >>
    /\ shown' = [shown EXCEPT ![r] = {LastSaid(r).id}]
    /\ UNCHANGED <<members, log, told, standing>>

Tell(r, u, message) ==
    /\ message \in Said(r)
    /\ u \in members[r] \ {message.sender}
    /\ told' = told \cup {[to |-> u, request |-> r, message |-> message]}
    /\ UNCHANGED <<members, log, shown, standing>>

\* Nothing but the deletion of its book takes an agreement back.
Agree(r) ==
    /\ standing[r] = "open"
    /\ standing' = [standing EXCEPT ![r] = "agreed"]
    /\ UNCHANGED <<members, log, shown, told>>

\* The requests of a deleted book are gone; what was said about them stays.
Forget(requests) ==
    /\ standing' = [r \in Threads |-> IF r \in requests THEN "gone" ELSE standing[r]]
    /\ UNCHANGED <<members, log, shown, told>>

-----------------------------------------------------------------------------

ConversationInit ==
    /\ members = [r \in Threads |-> {}]
    /\ log = [r \in Threads |-> << >>]
    /\ shown = [r \in Threads |-> {}]
    /\ told = {}
    /\ standing = [r \in Threads |-> "open"]

ConversationNext ==
    \/ \E r \in Threads :
         \/ \E u, v \in Users : Open(r, u, v)
         \/ \E u \in Users, m \in MessageIds : Say(r, u, m)
         \/ Show(r)
         \/ \E u \in Users, message \in Said(r) : Tell(r, u, message)
         \/ Agree(r)
    \/ \E requests \in SUBSET Threads : Forget(requests)

ConversationSpec == ConversationInit /\ [][ConversationNext]_conversationVars

=============================================================================

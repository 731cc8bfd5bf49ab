------------------------------ MODULE Messaging ------------------------------
(***************************************************************************)
(* Conversations and their messages (src/modules/messages).  A contract,   *)
(* or a milestone of it, is a topic with one client and one freelancer;    *)
(* its conversation is created by the first message and holds, for either  *)
(* side, a counter of unread messages beside the messages themselves.      *)
(*                                                                         *)
(* Every handler loads the conversation, writes messages, and saves the    *)
(* loaded document at the end: Mongoose then sets the fields the handler   *)
(* changed, to values computed from what it loaded.  Between these steps   *)
(* other requests run.                                                     *)
(***************************************************************************)
EXTENDS Services, FiniteSets

CONSTANTS
    Admins,         \* users with the role admin
    Topics,         \* contracts, and milestones of contracts
    ClientOf,       \* the client of a topic
    FreelancerOf,   \* its freelancer
    Conversations,  \* ids of conversation documents
    Messages        \* ids of message documents

ASSUME PartiesAssumption ==
    /\ ClientOf \in [Topics -> Users]
    /\ FreelancerOf \in [Topics -> Users]
    /\ \A t \in Topics : ClientOf[t] # FreelancerOf[t]

VARIABLES
    topic,          \* the topic of a conversation, None before it exists
    unread,         \* unreadCountClient and unreadCountFreelancer
    message,        \* the message documents
    task,           \* the requests in flight
    disturbed       \* counters two requests worked on at a time, or one left half done

messagingVars == <<topic, unread, message, task, disturbed, errors>>

Sides == {"client", "freelancer"}
OtherSide(side) == IF side = "client" THEN "freelancer" ELSE "client"

Message == [conversation : Conversations, to : Sides, isRead : BOOLEAN]

ASSUME ConversationsAssumption ==
    /\ None \notin Topics \cup Conversations \cup Message
    /\ IsFiniteSet(Messages)

\* A request: what it does next, for whom, with which conversation, as loaded.
Task == [stage : {"idle", "create", "insert", "count", "mark", "clear"},
         user : Users \cup {None},
         topic : Topics \cup {None},
         conversation : Conversations \cup {None},
         side : Sides,
         seen : [Sides -> Nat],
         alone : BOOLEAN]

NoUnread == [side \in Sides |-> 0]
NoTask == [stage |-> "idle", user |-> None, topic |-> None, conversation |-> None,
           side |-> "client", seen |-> NoUnread, alone |-> TRUE]

MessagingInit ==
    /\ topic = [c \in Conversations |-> None]
    /\ unread = [c \in Conversations |-> NoUnread]
    /\ message = [m \in Messages |-> None]
    /\ task = [r \in Slots |-> NoTask]
    /\ disturbed = {}
    /\ errors = 0

-----------------------------------------------------------------------------
Parties(t) == {ClientOf[t], FreelancerOf[t]}
SideOf(t, u) == IF u = ClientOf[t] THEN "client" ELSE "freelancer"

\* mutant: the receiver an admin names need not be part of the conversation
ReceiversUnchecked(t, u) ==
    IF u \in Admins THEN Sides \cup {"neither"}
    ELSE {OtherSide(SideOf(t, u)) : p \in Parties(t) \cap {u}}

\* To whom u may write in createMessage: an admin chooses, a party writes to
\* the other one, nobody else may.
Receivers(t, u) ==
    IF u \in Admins THEN Sides
    ELSE {OtherSide(SideOf(t, u)) : p \in Parties(t) \cap {u}}

IsUnread(m, c, side) ==
    message[m] = [conversation |-> c, to |-> side, isRead |-> FALSE]
UnreadMessages(c, side) == {m \in Messages : IsUnread(m, c, side)}

Working(r, c, side) ==
    /\ task[r].stage \in {"insert", "count", "mark", "clear"}
    /\ task[r].conversation = c
    /\ task[r].side = side

\* A handler has loaded conversation c and will save the counter of side.
LoadConversation(r, c, side, stage) ==
    LET working == {q \in Slots : Working(q, c, side)}
    IN /\ task' = [q \in Slots |->
              IF q = r
              THEN [NoTask EXCEPT !.stage = stage, !.conversation = c, !.side = side,
                                !.seen = unread[c], !.alone = working = {}]
              ELSE [task[q] EXCEPT !.alone = @ /\ q \notin working]]
       /\ disturbed' = IF working = {} THEN disturbed ELSE disturbed \cup {<<c, side>>}

\* Answer a request.
FinishTask(r) == task' = [task EXCEPT ![r] = NoTask]

\* findOrCreateConversation, and the sender and receiver checks after it.
\* Through the HTTP controller the user is undefined, here None: the document
\* the guard attaches has no field sub.
Address(r, t, u, c) ==
    IF Receivers(t, u) = {}
    THEN FinishTask(r) /\ UNCHANGED disturbed
    ELSE \E side \in Receivers(t, u) : LoadConversation(r, c, side, "insert")

CreateMessage(r, u, t) ==
    /\ task[r] = NoTask
    /\ IF \E c \in Conversations : topic[c] = t
       THEN \E c \in Conversations : topic[c] = t /\ Address(r, t, u, c)
       ELSE /\ task' = [task EXCEPT ![r] = [NoTask EXCEPT !.stage = "create", !.user = u, !.topic = t]]
            /\ UNCHANGED disturbed
    /\ UNCHANGED <<topic, unread, message, errors>>

\* The new conversation is there whether or not the sender is then refused.
CreateConversation(r) ==
    /\ task[r].stage = "create"
    /\ \E c \in Conversations :
          /\ topic[c] = None
          /\ topic' = [topic EXCEPT ![c] = task[r].topic]
          /\ Address(r, task[r].topic, task[r].user, c)
    /\ UNCHANGED <<unread, message, errors>>

SendMessage(r, u, c) ==
    /\ task[r] = NoTask
    /\ topic[c] # None
    /\ u \in Parties(topic[c])
    /\ LoadConversation(r, c, OtherSide(SideOf(topic[c], u)), "insert")
    /\ UNCHANGED <<topic, unread, message, errors>>

InsertMessage(r) ==
    /\ task[r].stage = "insert"
    /\ \E m \in Messages :
          /\ message[m] = None
          /\ message' = [message EXCEPT ![m] =
                [conversation |-> task[r].conversation, to |-> task[r].side, isRead |-> FALSE]]
    /\ task' = [task EXCEPT ![r].stage = "count"]
    /\ UNCHANGED <<topic, unread, disturbed, errors>>

\* mutant: save replaces the document by the loaded one
SavedWhole(stored, seen, side, count) == [seen EXCEPT ![side] = count]

\* conversation.save() sets the one counter that was changed.
Saved(stored, seen, side, count) == [stored EXCEPT ![side] = count]

CountMessage(r) ==
    LET q == task[r]
    IN /\ q.stage = "count"
       /\ unread' = [unread EXCEPT ![q.conversation] = Saved(@, q.seen, q.side, q.seen[q.side] + 1)]
       /\ FinishTask(r)
       /\ UNCHANGED <<topic, message, disturbed, errors>>

MarkMessagesAsRead(r, u, c) ==
    /\ task[r] = NoTask
    /\ topic[c] # None
    /\ u \in Parties(topic[c])
    /\ LoadConversation(r, c, SideOf(topic[c], u), "mark")
    /\ UNCHANGED <<topic, unread, message, errors>>

MarkedRead(ms) == [m \in Messages |-> IF m \in ms THEN [message[m] EXCEPT !.isRead = TRUE] ELSE message[m]]

MarkMessages(r) ==
    LET q == task[r]
    IN /\ q.stage = "mark"
       /\ message' = MarkedRead(UnreadMessages(q.conversation, q.side))
       /\ task' = [task EXCEPT ![r].stage = "clear"]
       /\ UNCHANGED <<topic, unread, disturbed, errors>>

\* A counter loaded as 0 is not changed, so save does not write it.  A reader
\* alone with the counter leaves both agreeing, whatever was before.
ClearCounter(r) ==
    LET q == task[r]
    IN /\ q.stage = "clear"
       /\ unread' = IF q.seen[q.side] = 0 THEN unread
                    ELSE [unread EXCEPT ![q.conversation] = Saved(@, q.seen, q.side, 0)]
       /\ disturbed' = IF q.alone THEN disturbed \ {<<q.conversation, q.side>>} ELSE disturbed
       /\ FinishTask(r)
       /\ UNCHANGED <<topic, message, errors>>

\* A database error or the end of the process; updateMany may have marked a part.
FailTask(r) ==
    LET q == task[r]
    IN /\ q.stage # "idle"
       /\ AnError
       /\ \E done \in SUBSET (IF q.stage = "mark" THEN UnreadMessages(q.conversation, q.side) ELSE {}) :
             message' = MarkedRead(done)
       /\ disturbed' = IF q.stage \in {"count", "mark", "clear"}
                       THEN disturbed \cup {<<q.conversation, q.side>>} ELSE disturbed
       /\ FinishTask(r)
       /\ UNCHANGED <<topic, unread>>

MessagingNext ==
    \/ \E r \in Slots, t \in Topics, u \in Users \cup {None} : CreateMessage(r, u, t)
    \/ \E r \in Slots, c \in Conversations, u \in Users :
          SendMessage(r, u, c) \/ MarkMessagesAsRead(r, u, c)
    \/ \E r \in Slots :
          \/ CreateConversation(r) \/ InsertMessage(r) \/ CountMessage(r)
          \/ MarkMessages(r) \/ ClearCounter(r) \/ FailTask(r)

MessagingSpec == MessagingInit /\ [][MessagingNext]_messagingVars

-----------------------------------------------------------------------------
\* Every variable has its type: conversations, counters, messages and requests.
MessagingTypeOK ==
    /\ topic \in [Conversations -> Topics \cup {None}]
    /\ unread \in [Conversations -> [Sides -> Nat]]
    /\ message \in [Messages -> Message \cup {None}]
    /\ task \in [Slots -> Task]
    /\ disturbed \subseteq Conversations \X Sides

\* The counter a party sees is the number of its unread messages, unless two
\* requests on that same counter overlapped or one failed half way since the
\* party last read the conversation undisturbed: sends and reads of the other
\* side never spoil it, and reading mends it (messages.service.ts, sendMessage,
\* createMessage and markMessagesAsRead save only what they changed).
CountersHold ==
    \A c \in Conversations, side \in Sides :
        \/ <<c, side>> \in disturbed
        \/ \E r \in Slots : Working(r, c, side) /\ task[r].stage \in {"count", "clear"}
        \/ unread[c][side] = Cardinality(UnreadMessages(c, side))

-----------------------------------------------------------------------------
\* Expected, and false of the code

\* A topic has one conversation: false, two first messages at one time create
\* two, as the unique indexes that conversation.schema.ts declares repeat the
\* keys of plain indexes declared before them and are refused by the database.
OneConversation ==
    \A c, d \in Conversations : topic[c] = topic[d] /\ topic[c] # None => c = d
=============================================================================

-------------------------- MODULE MarketplaceProofs --------------------------
(***************************************************************************)
(* Proofs about conversations and about a freelancer's profile, for any    *)
(* number of requests in flight: handlers that save what they loaded       *)
(* neither lose a message from a counter nor an item from a list, beyond   *)
(* the cases their properties name.  The last part is about the            *)
(* composition of MCMarketplace: it implements its components, and every   *)
(* invariant proved of one of them holds of the composition.               *)
(***************************************************************************)
EXTENDS MCMarketplace, ContractFormationProofs, DisputesProofs, GatewaysProofs,
        FiniteSetTheorems, SequenceTheorems, TLAPS

USE ServicesAssumption, PartiesAssumption, ConversationsAssumption

(***************************************************************************)
(* Types of conversations, messages and requests.                          *)
(***************************************************************************)
Saving == {"insert", "count", "mark", "clear"}

TasksHold ==
  \A r \in Slots :
    /\ task[r].stage \in Saving => task[r].conversation \in Conversations
    /\ task[r].stage = "create" => task[r].topic \in Topics

MessagesInv == MessagingTypeOK /\ TasksHold

\* The requests change one at a time, or one starts and tells the others.
TasksTyped == task \in [Slots -> Task] /\ TasksHold

LEMMA NoTaskTyped == NoTask \in Task /\ NoTask.stage = "idle" /\ NoUnread \in [Sides -> Nat]
BY DEF NoTask, Task, NoUnread, Sides

LEMMA FinishingTask ==
  ASSUME TasksTyped, NEW r \in Slots, FinishTask(r)
  PROVE  /\ TasksTyped' /\ task'[r] = NoTask
         /\ \A q \in Slots \ {r} : task'[q] = task[q]
BY NoTaskTyped DEF TasksTyped, TasksHold, FinishTask, Saving

\* What a request is that has just loaded a conversation.
Loaded(c, side, stage, seen, alone) ==
  [NoTask EXCEPT !.stage = stage, !.conversation = c, !.side = side, !.seen = seen, !.alone = alone]

LEMMA LoadedTyped ==
  ASSUME NEW c \in Conversations, NEW side \in Sides, NEW stage \in {"insert", "mark"},
         NEW seen \in [Sides -> Nat], NEW alone \in BOOLEAN
  PROVE  LET q == Loaded(c, side, stage, seen, alone)
         IN /\ q \in Task /\ q.stage = stage /\ q.conversation = c /\ q.side = side
            /\ q.seen = seen /\ q.alone = alone
BY NoTaskTyped DEF Loaded, Task

\* The same request, whoever else works on its counter.
SameWork(q) ==
  /\ task'[q].stage = task[q].stage /\ task'[q].conversation = task[q].conversation
  /\ task'[q].side = task[q].side /\ task'[q].seen = task[q].seen

LEMMA Loading ==
  ASSUME MessagesInv, NEW r \in Slots, NEW c \in Conversations, NEW side \in Sides, NEW stage \in {"insert", "mark"},
         LoadConversation(r, c, side, stage), task[r].stage \notin Saving
  PROVE  /\ TasksTyped' /\ disturbed' \subseteq Conversations \X Sides
         /\ task'[r].stage = stage /\ task'[r].conversation = c /\ task'[r].side = side /\ task'[r].seen = unread[c]
         /\ task'[r].alone <=> \A q \in Slots : ~Working(q, c, side)
         /\ \A q \in Slots \ {r} :
              /\ SameWork(q)
              /\ Working(q, c, side) => ~task'[q].alone
              /\ ~Working(q, c, side) => task'[q].alone = task[q].alone
         /\ (\A q \in Slots : ~Working(q, c, side)) => disturbed' = disturbed
         /\ (\E q \in Slots : Working(q, c, side)) => disturbed' = disturbed \cup {<<c, side>>}
<1> DEFINE working == {q \in Slots : Working(q, c, side)}
           free == working = {}
           mine == Loaded(c, side, stage, unread[c], free)
<1>a. task' = [q \in Slots |-> IF q = r THEN mine ELSE [task[q] EXCEPT !.alone = @ /\ q \notin working]]
  BY Zenon DEF LoadConversation, Loaded
<1>b. disturbed' = IF free THEN disturbed ELSE disturbed \cup {<<c, side>>}
  BY Zenon DEF LoadConversation
<1>2. free \in BOOLEAN /\ (free <=> \A q \in Slots : ~Working(q, c, side))
  OBVIOUS
<1> HIDE DEF free
<1>1. /\ task' = [q \in Slots |-> IF q = r THEN mine ELSE [task[q] EXCEPT !.alone = @ /\ q \notin working]]
      /\ disturbed' = IF free THEN disturbed ELSE disturbed \cup {<<c, side>>}
  BY <1>a, <1>b
<1>c. unread[c] \in [Sides -> Nat]
  BY DEF MessagesInv, MessagingTypeOK
<1>3. /\ mine \in Task /\ mine.stage = stage /\ mine.conversation = c /\ mine.side = side
      /\ mine.seen = unread[c] /\ mine.alone = free
  BY <1>2, <1>c, LoadedTyped
<1> HIDE DEF mine
<1>4. task'[r] = mine
  BY <1>1
<1>5. ASSUME NEW q \in Slots \ {r}
      PROVE  /\ SameWork(q) /\ task'[q] \in Task /\ task'[q].topic = task[q].topic
             /\ Working(q, c, side) => ~task'[q].alone
             /\ ~Working(q, c, side) => task'[q].alone = task[q].alone
  <2>1. task[q] \in Task
    BY DEF MessagesInv, MessagingTypeOK
  <2>2. task'[q] = [task[q] EXCEPT !.alone = task[q].alone /\ q \notin working]
    BY <1>1
  <2>3. CASE Working(q, c, side)
    <3>1. task'[q] = [task[q] EXCEPT !.alone = FALSE]
      BY <2>2, <2>3
    <3> QED
      BY <2>1, <2>3, <3>1 DEF SameWork, Task
  <2>4. CASE ~Working(q, c, side)
    <3>1. (task[q].alone /\ q \notin working) = task[q].alone
      BY <2>1, <2>4 DEF Task
    <3>2. task'[q] = [task[q] EXCEPT !.alone = task[q].alone]
      BY <2>2, <3>1
    <3> QED
      BY <2>1, <2>4, <3>2 DEF SameWork, Task
  <2> QED
    BY <2>3, <2>4
<1>6. task' \in [Slots -> Task]
  BY <1>1, <1>3, <1>4, <1>5
<1>7. TasksHold'
  <2>1. ASSUME NEW q \in Slots
        PROVE  /\ task'[q].stage \in Saving => task'[q].conversation \in Conversations
               /\ task'[q].stage = "create" => task'[q].topic \in Topics
    <3>1. CASE q = r
      BY <1>3, <1>4, <3>1
    <3>2. CASE q # r
      BY <1>5, <3>2 DEF SameWork, MessagesInv, TasksHold
    <3> QED
      BY <3>1, <3>2
  <2> QED
    BY <2>1 DEF TasksHold
<1>8. disturbed' \subseteq Conversations \X Sides
  BY <1>1 DEF MessagesInv, MessagingTypeOK
<1>9. task'[r].alone <=> \A q \in Slots : ~Working(q, c, side)
  BY <1>2, <1>3, <1>4
<1> QED
  BY <1>1, <1>2, <1>3, <1>4, <1>5, <1>6, <1>7, <1>8, <1>9 DEF TasksTyped

LEMMA MessagesInitially == MessagingInit => MessagesInv
BY NoTaskTyped DEF MessagingInit, MessagesInv, MessagingTypeOK, TasksHold, Saving

LEMMA ReceiversAreSides ==
  ASSUME NEW t, NEW u PROVE Receivers(t, u) \subseteq Sides
BY DEF Receivers, OtherSide, Sides

\* A message to a side of a conversation is addressed to that side.
LEMMA AddressTypes ==
  ASSUME MessagesInv, NEW r \in Slots, NEW t, NEW u, NEW c \in Conversations, Address(r, t, u, c),
         task[r].stage \notin Saving
  PROVE  TasksTyped' /\ disturbed' \subseteq Conversations \X Sides
<1>0. TasksTyped /\ disturbed \subseteq Conversations \X Sides
  BY DEF MessagesInv, MessagingTypeOK, TasksTyped
<1>1. CASE Receivers(t, u) = {}
  BY <1>0, <1>1, FinishingTask DEF Address
<1>2. CASE Receivers(t, u) # {}
  <2>1. PICK side \in Receivers(t, u) : LoadConversation(r, c, side, "insert")
    BY <1>2 DEF Address
  <2> QED
    BY <2>1, ReceiversAreSides, Loading
<1> QED
  BY <1>1, <1>2

LEMMA MarkingTyped ==
  ASSUME MessagesInv, NEW ms
  PROVE  MarkedRead(ms) \in [Messages -> Message \cup {None}] \/ \E m \in ms : m \in Messages /\ message[m] = None
BY DEF MarkedRead, MessagesInv, MessagingTypeOK, Message

LEMMA UnreadStored ==
  ASSUME NEW c \in Conversations, NEW side \in Sides, NEW m \in UnreadMessages(c, side)
  PROVE  m \in Messages /\ message[m] = [conversation |-> c, to |-> side, isRead |-> FALSE]
         /\ message[m] \in Message /\ message[m] # None
<1> DEFINE stored == [conversation |-> c, to |-> side, isRead |-> FALSE]
<1>1. m \in Messages /\ message[m] = stored
  BY DEF UnreadMessages, IsUnread
<1>2. stored \in Message
  BY DEF Message
<1> QED
  BY <1>1, <1>2

LEMMA MessagesStep == MessagesInv /\ [MessagingNext]_messagingVars => MessagesInv'
<1> SUFFICES ASSUME MessagesInv, [MessagingNext]_messagingVars PROVE MessagesInv'
  OBVIOUS
<1>0. TasksTyped /\ NoTask.stage \notin Saving
  BY NoTaskTyped DEF MessagesInv, MessagingTypeOK, TasksTyped, Saving
<1>a. ASSUME TasksTyped', disturbed' \subseteq Conversations \X Sides, unread' \in [Conversations -> [Sides -> Nat]],
             topic' \in [Conversations -> Topics \cup {None}], message' \in [Messages -> Message \cup {None}]
      PROVE  MessagesInv'
  BY <1>a DEF MessagesInv, MessagingTypeOK, TasksTyped
<1>b. /\ topic \in [Conversations -> Topics \cup {None}] /\ unread \in [Conversations -> [Sides -> Nat]]
      /\ message \in [Messages -> Message \cup {None}] /\ disturbed \subseteq Conversations \X Sides
      /\ task \in [Slots -> Task]
  BY DEF MessagesInv, MessagingTypeOK
<1>c. ASSUME NEW c \in Conversations, NEW side \in Sides PROVE MarkedRead(UnreadMessages(c, side)) \in [Messages -> Message \cup {None}]
  <2> QED
    BY UnreadStored, MarkingTyped
<1>1. ASSUME NEW r \in Slots, NEW t \in Topics, NEW u \in Users \cup {None}, CreateMessage(r, u, t) PROVE MessagesInv'
  <2>1. task[r].stage \notin Saving /\ UNCHANGED <<topic, unread, message>>
    BY <1>0, <1>1 DEF CreateMessage
  <2>2. CASE \E c \in Conversations : topic[c] = t
    <3>1. PICK c \in Conversations : Address(r, t, u, c)
      BY <1>1, <2>2 DEF CreateMessage
    <3> QED
      BY <1>a, <1>b, <2>1, <3>1, AddressTypes
  <2>3. CASE ~\E c \in Conversations : topic[c] = t
    <3> DEFINE q == [NoTask EXCEPT !.stage = "create", !.user = u, !.topic = t]
    <3>1. q \in Task /\ q.stage = "create" /\ q.topic = t
      BY NoTaskTyped DEF Task
    <3>2. task' = [task EXCEPT ![r] = q] /\ UNCHANGED disturbed
      BY <1>1, <2>3 DEF CreateMessage
    <3> HIDE DEF q
    <3>3. TasksTyped'
      BY <1>0, <3>1, <3>2 DEF TasksTyped, TasksHold, Saving
    <3> QED
      BY <1>a, <1>b, <2>1, <3>2, <3>3
  <2> QED
    BY <2>2, <2>3
<1>2. ASSUME NEW r \in Slots, CreateConversation(r) PROVE MessagesInv'
  <2>1. task[r].stage = "create" /\ task[r].topic \in Topics
    BY <1>2 DEF CreateConversation, MessagesInv, TasksHold
  <2>2. PICK c \in Conversations : /\ topic' = [topic EXCEPT ![c] = task[r].topic]
                                   /\ Address(r, task[r].topic, task[r].user, c)
    BY <1>2 DEF CreateConversation
  <2>3. TasksTyped' /\ disturbed' \subseteq Conversations \X Sides
    BY <2>1, <2>2, AddressTypes DEF Saving
  <2> QED
    BY <1>2, <1>a, <1>b, <2>1, <2>2, <2>3 DEF CreateConversation
<1>3. ASSUME NEW r \in Slots, NEW c \in Conversations, NEW u \in Users, SendMessage(r, u, c) \/ MarkMessagesAsRead(r, u, c)
      PROVE  MessagesInv'
  <2>1. /\ \E side \in Sides : LoadConversation(r, c, side, "insert") \/ LoadConversation(r, c, side, "mark")
        /\ task[r].stage \notin Saving /\ UNCHANGED <<topic, unread, message>>
    BY <1>0, <1>3 DEF SendMessage, MarkMessagesAsRead, OtherSide, SideOf, Sides
  <2>2. PICK side \in Sides : LoadConversation(r, c, side, "insert") \/ LoadConversation(r, c, side, "mark")
    BY <2>1
  <2>a. task[r].stage \notin Saving
    BY <2>1
  <2>3. TasksTyped' /\ disturbed' \subseteq Conversations \X Sides
    BY <2>2, <2>a, Loading
  <2> QED
    BY <1>a, <1>b, <2>1, <2>3
<1>4. ASSUME NEW r \in Slots, InsertMessage(r) PROVE MessagesInv'
  <2>1. task[r] \in Task /\ task[r].stage = "insert" /\ task[r].conversation \in Conversations
    BY <1>4 DEF InsertMessage, MessagesInv, MessagingTypeOK, TasksHold, Saving
  <2>2. [task[r] EXCEPT !.stage = "count"] \in Task /\ [task[r] EXCEPT !.stage = "count"].stage = "count"
        /\ [task[r] EXCEPT !.stage = "count"].conversation = task[r].conversation
    BY <2>1 DEF Task
  <2>3. task' = [task EXCEPT ![r] = [task[r] EXCEPT !.stage = "count"]]
    BY <1>4 DEF InsertMessage
  <2>4. TasksTyped'
    BY <1>0, <2>1, <2>2, <2>3 DEF TasksTyped, TasksHold
  <2>5. message' \in [Messages -> Message \cup {None}]
    <3>1. [conversation |-> task[r].conversation, to |-> task[r].side, isRead |-> FALSE] \in Message
      BY <2>1 DEF Message, Task
    <3> QED
      BY <1>4, <1>b, <3>1 DEF InsertMessage
  <2> QED
    BY <1>4, <1>a, <1>b, <2>4, <2>5 DEF InsertMessage
<1>5. ASSUME NEW r \in Slots, CountMessage(r) \/ ClearCounter(r) PROVE MessagesInv'
  <2>1. task[r] \in Task /\ task[r].conversation \in Conversations
    BY <1>5 DEF CountMessage, ClearCounter, MessagesInv, MessagingTypeOK, TasksHold, Saving
  <2>2. unread' \in [Conversations -> [Sides -> Nat]]
    <3>1. task[r].seen \in [Sides -> Nat] /\ task[r].side \in Sides
      BY <2>1 DEF Task
    <3>2. task[r].seen[task[r].side] + 1 \in Nat
      BY <3>1
    <3> QED
      BY <1>5, <1>b, <2>1, <3>1, <3>2 DEF CountMessage, ClearCounter, Saved
  <2>3. TasksTyped' /\ disturbed' \subseteq disturbed /\ UNCHANGED <<topic, message>>
    BY <1>0, <1>5, FinishingTask DEF CountMessage, ClearCounter
  <2> QED
    BY <1>a, <1>b, <2>2, <2>3
<1>6. ASSUME NEW r \in Slots, MarkMessages(r) PROVE MessagesInv'
  <2>1. task[r] \in Task /\ task[r].stage = "mark" /\ task[r].conversation \in Conversations /\ task[r].side \in Sides
    BY <1>6 DEF MarkMessages, MessagesInv, MessagingTypeOK, TasksHold, Saving, Task
  <2>2. [task[r] EXCEPT !.stage = "clear"] \in Task /\ [task[r] EXCEPT !.stage = "clear"].stage = "clear"
        /\ [task[r] EXCEPT !.stage = "clear"].conversation = task[r].conversation
    BY <2>1 DEF Task
  <2>3. task' = [task EXCEPT ![r] = [task[r] EXCEPT !.stage = "clear"]]
    BY <1>6 DEF MarkMessages
  <2>4. TasksTyped'
    BY <1>0, <2>1, <2>2, <2>3 DEF TasksTyped, TasksHold
  <2> QED
    BY <1>6, <1>a, <1>b, <1>c, <2>1, <2>4 DEF MarkMessages
<1>7. ASSUME NEW r \in Slots, FailTask(r) PROVE MessagesInv'
  <2>1. TasksTyped' /\ UNCHANGED <<topic, unread>>
    BY <1>0, <1>7, FinishingTask DEF FailTask
  <2>2. task[r] \in Task /\ (task[r].stage \in {"count", "mark", "clear"} => task[r].conversation \in Conversations)
        /\ task[r].side \in Sides
    BY DEF MessagesInv, MessagingTypeOK, TasksHold, Saving, Task
  <2>3. disturbed' \subseteq Conversations \X Sides
    BY <1>7, <1>b, <2>2 DEF FailTask
  <2>4. PICK done \in SUBSET (IF task[r].stage = "mark" THEN UnreadMessages(task[r].conversation, task[r].side) ELSE {}) :
          message' = MarkedRead(done)
    BY <1>7 DEF FailTask
  <2>5. \A m \in done : message[m] # None
    BY <2>2, <2>4, UnreadStored
  <2> QED
    BY <1>a, <1>b, <2>1, <2>3, <2>4, <2>5, MarkingTyped
<1>8. CASE UNCHANGED messagingVars
  BY <1>8 DEF messagingVars, MessagesInv, MessagingTypeOK, TasksHold
<1> QED
  BY <1>1, <1>2, <1>3, <1>4, <1>5, <1>6, <1>7, <1>8 DEF MessagingNext

\* Conversations, counters, messages and requests keep their types.
THEOREM MessagingTypeCorrect == MessagingSpec => []MessagingTypeOK
BY MessagesInitially, MessagesStep, PTL DEF MessagingSpec, MessagesInv

(***************************************************************************)
(* CountersHold rests on the one request that works on a counter alone: it *)
(* has seen the stored counter, and while it is at work nobody else        *)
(* inserts, marks or counts messages of that side.                         *)
(***************************************************************************)
Agreeing(c, side) == unread[c][side] = Cardinality(UnreadMessages(c, side))

CounterInv(c, side) ==
  /\ \A r \in Slots : Working(r, c, side) /\ task[r].alone =>
       /\ \A q \in Slots : Working(q, c, side) => q = r
       /\ task[r].seen[side] = unread[c][side]
       /\ task[r].stage = "clear" => UnreadMessages(c, side) = {}
  /\ <<c, side>> \notin disturbed =>
       /\ \A r \in Slots : Working(r, c, side) => task[r].alone
       /\ \A r \in Slots : Working(r, c, side) /\ task[r].stage = "count" =>
            Cardinality(UnreadMessages(c, side)) = unread[c][side] + 1
       /\ (\A r \in Slots : Working(r, c, side) => task[r].stage \notin {"count", "clear"}) => Agreeing(c, side)

CountersInv == \A c \in Conversations, side \in Sides : CounterInv(c, side)

\* A step that leaves a counter, its messages and its requests alone.
Apart(c, side) ==
  /\ \A q \in Slots : Working(q, c, side)' => Working(q, c, side)
  /\ \A q \in Slots : Working(q, c, side) => /\ Working(q, c, side)' /\ task'[q].stage = task[q].stage
                                             /\ task'[q].seen = task[q].seen /\ task'[q].alone = task[q].alone
  /\ unread'[c][side] = unread[c][side]
  /\ UnreadMessages(c, side)' = UnreadMessages(c, side)
  /\ <<c, side>> \in disturbed => <<c, side>> \in disturbed'

LEMMA ApartKeeps ==
  ASSUME NEW c \in Conversations, NEW side \in Sides, CounterInv(c, side), Apart(c, side) PROVE CounterInv(c, side)'
<1> DEFINE ms == UnreadMessages(c, side)
<1>1. ASSUME NEW r \in Slots, Working(r, c, side)', task'[r].alone
      PROVE  /\ \A q \in Slots : Working(q, c, side)' => q = r
             /\ task'[r].seen[side] = unread'[c][side]
             /\ task'[r].stage = "clear" => ms' = {}
  BY <1>1 DEF Apart, CounterInv
<1>2. ASSUME <<c, side>> \notin disturbed'
      PROVE  /\ \A r \in Slots : Working(r, c, side)' => task'[r].alone
             /\ \A r \in Slots : Working(r, c, side)' /\ task'[r].stage = "count" => Cardinality(ms') = unread'[c][side] + 1
             /\ (\A r \in Slots : Working(r, c, side)' => task'[r].stage \notin {"count", "clear"}) =>
                  unread'[c][side] = Cardinality(ms')
  <2>1. <<c, side>> \notin disturbed
    BY <1>2 DEF Apart
  <2>2. \A r \in Slots : Working(r, c, side)' => task'[r].alone
    BY <2>1 DEF Apart, CounterInv
  <2>3. \A r \in Slots : Working(r, c, side)' /\ task'[r].stage = "count" => Cardinality(ms') = unread'[c][side] + 1
    BY <2>1 DEF Apart, CounterInv
  <2>4. ASSUME \A r \in Slots : Working(r, c, side)' => task'[r].stage \notin {"count", "clear"}
        PROVE  unread'[c][side] = Cardinality(ms')
    <3>1. \A r \in Slots : Working(r, c, side) => task[r].stage \notin {"count", "clear"}
      BY <2>4 DEF Apart
    <3> QED
      BY <2>1, <3>1 DEF Apart, CounterInv, Agreeing
  <2> QED
    BY <2>2, <2>3, <2>4
<1> QED
  BY <1>1, <1>2 DEF CounterInv, Agreeing

\* The counter is worked on by nobody any more.
LEMMA LeftAlone ==
  ASSUME NEW c \in Conversations, NEW side \in Sides, \A q \in Slots : ~Working(q, c, side)',
         <<c, side>> \notin disturbed' => Agreeing(c, side)'
  PROVE  CounterInv(c, side)'
BY DEF CounterInv

\* A request that starts working on a counter.
LEMMA LoadKeeps ==
  ASSUME MessagesInv, CountersInv, NEW r \in Slots, NEW c \in Conversations, NEW side \in Sides,
         NEW stage \in {"insert", "mark"}, LoadConversation(r, c, side, stage),
         task[r].stage \notin Saving, UNCHANGED <<unread, message>>,
         NEW d \in Conversations, NEW s \in Sides
  PROVE  CounterInv(d, s)'
<1> DEFINE free == \A q \in Slots : ~Working(q, c, side)
<1>0. CounterInv(d, s) /\ UnreadMessages(d, s)' = UnreadMessages(d, s)
  BY DEF CountersInv, UnreadMessages, IsUnread
<1>1. /\ task'[r].stage \in {"insert", "mark"} /\ task'[r].conversation = c /\ task'[r].side = side
      /\ task'[r].seen = unread[c] /\ (task'[r].alone <=> free)
  BY Loading
<1>2. \A q \in Slots \ {r} : /\ SameWork(q)
                             /\ Working(q, c, side) => ~task'[q].alone
                             /\ ~Working(q, c, side) => task'[q].alone = task[q].alone
  BY Loading
<1>3. (free => disturbed' = disturbed) /\ (~free => disturbed' = disturbed \cup {<<c, side>>})
  BY Loading
<1>4. \A x \in Conversations, y \in Sides : ~Working(r, x, y)
  BY DEF Working, Saving
<1>5. \A q \in Slots \ {r} : Working(q, d, s)' <=> Working(q, d, s)
  BY <1>2 DEF SameWork, Working
<1>6. CASE d # c \/ s # side
  <2>1. ~Working(r, d, s)'
    BY <1>1, <1>6 DEF Working
  <2>2. \A q \in Slots : Working(q, d, s) => ~Working(q, c, side)
    BY <1>6 DEF Working
  <2>3. Apart(d, s)
    BY <1>0, <1>2, <1>3, <1>4, <1>5, <2>1, <2>2 DEF Apart, SameWork
  <2> QED
    BY <1>0, <2>3, ApartKeeps
<1>7. CASE d = c /\ s = side
  <2>1. Working(r, c, side)' /\ unread'[c][side] = unread[c][side]
    BY <1>1 DEF Working
  <2>2. CASE free
    <3>1. \A q \in Slots : Working(q, c, side)' => q = r
      BY <1>5, <1>7, <2>2
    <3>2. <<c, side>> \notin disturbed' => Agreeing(c, side)
      BY <1>0, <1>3, <1>7, <2>2 DEF CounterInv
    <3>3. <<c, side>> \notin disturbed' => Agreeing(c, side)'
      BY <1>0, <1>7, <2>1, <3>2 DEF Agreeing
    <3>4. task'[r].alone /\ task'[r].stage \notin {"count", "clear"} /\ task'[r].seen[side] = unread'[c][side]
      BY <1>1, <2>1, <2>2
    <3> HIDE DEF free
    <3> QED
      BY <1>7, <2>1, <3>1, <3>3, <3>4 DEF CounterInv
  <2>3. CASE ~free
    <3>1. \A q \in Slots : Working(q, c, side)' => ~task'[q].alone
      BY <1>1, <1>2, <1>5, <1>7, <2>3
    <3>2. <<c, side>> \in disturbed'
      BY <1>3, <2>3
    <3> QED
      BY <1>7, <3>1, <3>2 DEF CounterInv
  <2> QED
    BY <2>2, <2>3
<1> QED
  BY <1>6, <1>7

\* The counter that request r works on, and what holds of it.
WorksOn(r, c, side) ==
  /\ c = task[r].conversation /\ side = task[r].side
  /\ Working(r, c, side) /\ CounterInv(c, side)
  /\ \A d \in Conversations, s \in Sides : d # c \/ s # side => ~Working(r, d, s)
  /\ \A q \in Slots : Working(q, c, side) /\ task[q].alone => q = r
  /\ <<c, side>> \notin disturbed => task[r].alone /\ \A q \in Slots : Working(q, c, side) => q = r
  /\ unread[c][side] \in Nat /\ IsFiniteSet(UnreadMessages(c, side))

LEMMA WorksAlone ==
  ASSUME MessagesInv, CountersInv, NEW r \in Slots, task[r].stage \in Saving
  PROVE  \E c \in Conversations, side \in Sides : WorksOn(r, c, side)
<1>1. PICK c \in Conversations, side \in Sides : c = task[r].conversation /\ side = task[r].side
  BY DEF MessagesInv, MessagingTypeOK, TasksHold, Task
<1>2. Working(r, c, side) /\ CounterInv(c, side)
  BY <1>1 DEF Working, Saving, CountersInv
<1>3. \A d \in Conversations, s \in Sides : d # c \/ s # side => ~Working(r, d, s)
  BY <1>1 DEF Working
<1>4. \A q \in Slots : Working(q, c, side) /\ task[q].alone => q = r
  BY <1>2 DEF CounterInv
<1>5. <<c, side>> \notin disturbed => task[r].alone /\ \A q \in Slots : Working(q, c, side) => q = r
  BY <1>2 DEF CounterInv
<1>6. unread[c][side] \in Nat
  BY DEF MessagesInv, MessagingTypeOK
<1>7. IsFiniteSet(UnreadMessages(c, side))
  <2>1. UnreadMessages(c, side) \in SUBSET Messages
    BY DEF UnreadMessages
  <2> QED
    BY <2>1, FS_Subset
<1> QED
  BY <1>1, <1>2, <1>3, <1>4, <1>5, <1>6, <1>7 DEF WorksOn

\* The counters that request r does not work on.
LEMMA OthersApart ==
  ASSUME MessagesInv, CountersInv, NEW r \in Slots, NEW d \in Conversations, NEW s \in Sides,
         ~Working(r, d, s), ~Working(r, d, s)', \A q \in Slots \ {r} : task'[q] = task[q],
         unread'[d][s] = unread[d][s], UnreadMessages(d, s)' = UnreadMessages(d, s),
         <<d, s>> \in disturbed => <<d, s>> \in disturbed'
  PROVE  CounterInv(d, s)'
<1>1. \A q \in Slots : Working(q, d, s)' => Working(q, d, s) /\ q # r
  BY DEF Working
<1>2. \A q \in Slots : Working(q, d, s) => q # r /\ Working(q, d, s)'
  BY DEF Working
<1>3. Apart(d, s)
  BY <1>1, <1>2 DEF Apart
<1> QED
  BY <1>3, ApartKeeps DEF CountersInv

LEMMA InsertKeeps ==
  ASSUME MessagesInv, CountersInv, NEW r \in Slots, InsertMessage(r), NEW d \in Conversations, NEW s \in Sides
  PROVE  CounterInv(d, s)'
<1>0. task[r] \in Task /\ task[r].stage = "insert" /\ task[r].stage \in Saving
  BY DEF InsertMessage, MessagesInv, MessagingTypeOK, Saving
<1>a. PICK c \in Conversations, side \in Sides : WorksOn(r, c, side)
  BY <1>0, WorksAlone
<1>1. /\ c = task[r].conversation /\ side = task[r].side
      /\ Working(r, c, side) /\ CounterInv(c, side)
      /\ \A x \in Conversations, y \in Sides : x # c \/ y # side => ~Working(r, x, y)
      /\ \A q \in Slots : Working(q, c, side) /\ task[q].alone => q = r
      /\ <<c, side>> \notin disturbed => task[r].alone /\ \A q \in Slots : Working(q, c, side) => q = r
      /\ unread[c][side] \in Nat /\ IsFiniteSet(UnreadMessages(c, side))
  BY <1>a DEF WorksOn
<1>2. PICK m \in Messages :
        /\ message[m] = None
        /\ message' = [message EXCEPT ![m] = [conversation |-> c, to |-> side, isRead |-> FALSE]]
  BY <1>1 DEF InsertMessage
<1>3. /\ UNCHANGED <<unread, disturbed>> /\ \A q \in Slots \ {r} : task'[q] = task[q]
      /\ task'[r].stage = "count" /\ task'[r].conversation = c /\ task'[r].side = side
      /\ task'[r].seen = task[r].seen /\ task'[r].alone = task[r].alone
  BY <1>0, <1>1 DEF InsertMessage, Task, MessagesInv, MessagingTypeOK
<1>4. [conversation |-> c, to |-> side, isRead |-> FALSE] \in Message
  BY DEF Message
<1>5. UnreadMessages(c, side)' = UnreadMessages(c, side) \cup {m} /\ m \notin UnreadMessages(c, side)
  <2>1. message'[m] = [conversation |-> c, to |-> side, isRead |-> FALSE] /\ \A n \in Messages \ {m} : message'[n] = message[n]
    BY <1>2 DEF MessagesInv, MessagingTypeOK
  <2>2. message[m] # [conversation |-> c, to |-> side, isRead |-> FALSE]
    BY <1>2, <1>4
  <2>3. UnreadMessages(c, side)' = {n \in Messages : message'[n] = [conversation |-> c, to |-> side, isRead |-> FALSE]}
    BY DEF UnreadMessages, IsUnread
  <2>4. UnreadMessages(c, side) = {n \in Messages : message[n] = [conversation |-> c, to |-> side, isRead |-> FALSE]}
    BY DEF UnreadMessages, IsUnread
  <2> QED
    BY <2>1, <2>2, <2>3, <2>4
<1>b. Cardinality(UnreadMessages(c, side) \cup {m}) = Cardinality(UnreadMessages(c, side)) + 1
  BY <1>1, <1>5, FS_AddElement
<1>6. Cardinality(UnreadMessages(c, side)') = Cardinality(UnreadMessages(c, side)) + 1
  BY <1>5, <1>b
<1>7. CASE d # c \/ s # side
  <2>1. UnreadMessages(d, s)' = UnreadMessages(d, s)
    <3>1. [conversation |-> d, to |-> s, isRead |-> FALSE] \in Message
      BY DEF Message
    <3>2. [conversation |-> d, to |-> s, isRead |-> FALSE] # [conversation |-> c, to |-> side, isRead |-> FALSE]
      BY <1>7
    <3> QED
      BY <1>2, <3>1, <3>2 DEF UnreadMessages, IsUnread, MessagesInv, MessagingTypeOK
  <2>2. ~Working(r, d, s) /\ ~Working(r, d, s)'
    BY <1>1, <1>3, <1>7 DEF Working
  <2> QED
    BY <1>3, <2>1, <2>2, OthersApart
<1>8. CASE d = c /\ s = side
  <2>0. Working(r, c, side)' /\ \A q \in Slots : Working(q, c, side)' => Working(q, c, side)
    BY <1>1, <1>3 DEF Working
  <2>1. \A q \in Slots : Working(q, c, side)' /\ task'[q].alone => q = r
    BY <1>1, <1>3, <2>0
  <2>2. task[r].alone => /\ \A q \in Slots : Working(q, c, side) => q = r
                         /\ task[r].seen[side] = unread[c][side]
    BY <1>1 DEF CounterInv
  <2>3. ASSUME NEW q \in Slots, Working(q, c, side)', task'[q].alone
        PROVE  /\ \A x \in Slots : Working(x, c, side)' => x = q
               /\ task'[q].seen[side] = unread'[c][side]
               /\ task'[q].stage # "clear"
    BY <1>3, <2>0, <2>1, <2>2, <2>3
  <2>4. ASSUME <<c, side>> \notin disturbed'
        PROVE  /\ \A q \in Slots : Working(q, c, side)' => q = r /\ task'[q].alone
               /\ Cardinality(UnreadMessages(c, side)') = unread'[c][side] + 1
    <3>1. /\ task[r].alone /\ \A q \in Slots : Working(q, c, side) => q = r
          /\ <<c, side>> \notin disturbed
      BY <1>1, <1>3, <2>4
    <3>2. Agreeing(c, side)
      BY <1>0, <1>1, <3>1 DEF CounterInv
    <3> QED
      BY <1>3, <1>6, <2>0, <3>1, <3>2 DEF Agreeing
  <2>5. task'[r].stage = "count"
    BY <1>3
  <2> QED
    BY <1>8, <2>0, <2>3, <2>4, <2>5 DEF CounterInv
<1> QED
  BY <1>7, <1>8

LEMMA SaveKeeps ==
  ASSUME MessagesInv, CountersInv, NEW r \in Slots, CountMessage(r) \/ ClearCounter(r),
         NEW d \in Conversations, NEW s \in Sides
  PROVE  CounterInv(d, s)'
<1>0. task[r] \in Task /\ task[r].stage \in {"count", "clear"} /\ task[r].stage \in Saving
  BY DEF CountMessage, ClearCounter, MessagesInv, MessagingTypeOK, Saving
<1>a. PICK c \in Conversations, side \in Sides : WorksOn(r, c, side)
  BY <1>0, WorksAlone
<1>1. /\ c = task[r].conversation /\ side = task[r].side
      /\ Working(r, c, side) /\ CounterInv(c, side)
      /\ \A x \in Conversations, y \in Sides : x # c \/ y # side => ~Working(r, x, y)
      /\ \A q \in Slots : Working(q, c, side) /\ task[q].alone => q = r
      /\ <<c, side>> \notin disturbed => task[r].alone /\ \A q \in Slots : Working(q, c, side) => q = r
      /\ unread[c][side] \in Nat /\ IsFiniteSet(UnreadMessages(c, side))
  BY <1>a DEF WorksOn
<1>2. /\ UNCHANGED message /\ task'[r] = NoTask /\ \A q \in Slots \ {r} : task'[q] = task[q]
      /\ \A x \in Conversations, y \in Sides : ~Working(r, x, y)'
  <2>1. FinishTask(r) /\ UNCHANGED message
    BY DEF CountMessage, ClearCounter
  <2> QED
    BY <2>1, FinishingTask, NoTaskTyped DEF Working, MessagesInv, MessagingTypeOK, TasksTyped
<1>3. \A x \in Conversations, y \in Sides : UnreadMessages(x, y)' = UnreadMessages(x, y)
  BY <1>2 DEF UnreadMessages, IsUnread
<1>4. \A x \in Conversations, y \in Sides : x # c \/ y # side =>
        /\ unread'[x][y] = unread[x][y]
        /\ <<x, y>> \in disturbed => <<x, y>> \in disturbed'
  BY <1>1 DEF CountMessage, ClearCounter, Saved, MessagesInv, MessagingTypeOK
<1>5. CASE d # c \/ s # side
  BY <1>1, <1>2, <1>3, <1>4, <1>5, OthersApart
<1>6. CASE d = c /\ s = side
  <2>1. \A q \in Slots : Working(q, c, side)' => Working(q, c, side) /\ q # r /\ task'[q].alone = task[q].alone
    BY <1>2 DEF Working
  <2>2. \A q \in Slots : Working(q, c, side)' => ~task'[q].alone
    BY <1>1, <2>1
  <2>3. task[r].alone => /\ \A q \in Slots : Working(q, c, side) => q = r
                         /\ task[r].seen[side] = unread[c][side]
                         /\ task[r].stage = "clear" => UnreadMessages(c, side) = {}
    BY <1>1 DEF CounterInv
  <2>4. ASSUME <<c, side>> \notin disturbed'
        PROVE  (\A q \in Slots : ~Working(q, c, side)') /\ Agreeing(c, side)'
    <3>1. CASE CountMessage(r)
      <4>1. task[r].alone /\ task[r].stage = "count" /\ <<c, side>> \notin disturbed
        BY <1>1, <2>4, <3>1 DEF CountMessage
      <4>2. unread'[c][side] = task[r].seen[side] + 1
        BY <1>1, <3>1 DEF CountMessage, Saved, MessagesInv, MessagingTypeOK
      <4>3. Cardinality(UnreadMessages(c, side)) = unread[c][side] + 1
        BY <1>1, <4>1 DEF CounterInv
      <4> QED
        BY <1>3, <2>1, <2>3, <4>1, <4>2, <4>3 DEF Agreeing
    <3>2. CASE ClearCounter(r)
      <4>1. task[r].alone /\ task[r].stage = "clear"
        BY <1>1, <2>4, <3>2 DEF ClearCounter
      <4>2. unread'[c][side] = 0
        BY <1>1, <2>3, <3>2, <4>1 DEF ClearCounter, Saved, MessagesInv, MessagingTypeOK
      <4> QED
        BY <1>3, <2>1, <2>3, <4>1, <4>2, FS_EmptySet DEF Agreeing
    <3> QED
      BY <3>1, <3>2
  <2> QED
    BY <1>6, <2>2, <2>4 DEF CounterInv
<1> QED
  BY <1>5, <1>6

\* Marking messages of one side leaves the unread ones of the other sides alone.
LEMMA MarkingApart ==
  ASSUME NEW c \in Conversations, NEW side \in Sides, NEW ms \in SUBSET UnreadMessages(c, side),
         message' = MarkedRead(ms), NEW d \in Conversations, NEW s \in Sides
  PROVE  /\ d # c \/ s # side => UnreadMessages(d, s)' = UnreadMessages(d, s)
         /\ ms = UnreadMessages(c, side) => UnreadMessages(c, side)' = {}
<1>1. \A n \in Messages : message'[n] = IF n \in ms THEN [message[n] EXCEPT !.isRead = TRUE] ELSE message[n]
  BY DEF MarkedRead
<1>2. \A n \in ms : /\ n \in Messages /\ message[n] = [conversation |-> c, to |-> side, isRead |-> FALSE]
                    /\ message'[n].isRead = TRUE
  <2> SUFFICES ASSUME NEW n \in ms
               PROVE  /\ n \in Messages /\ message[n] = [conversation |-> c, to |-> side, isRead |-> FALSE]
                      /\ message'[n].isRead = TRUE
    OBVIOUS
  <2>1. n \in Messages /\ message[n] = [conversation |-> c, to |-> side, isRead |-> FALSE]
    BY DEF UnreadMessages, IsUnread
  <2>2. message'[n] = [[conversation |-> c, to |-> side, isRead |-> FALSE] EXCEPT !.isRead = TRUE]
    BY <1>1, <2>1
  <2> QED
    BY <2>1, <2>2
<1>3. ASSUME d # c \/ s # side PROVE UnreadMessages(d, s)' = UnreadMessages(d, s)
  <2> DEFINE stored == [conversation |-> d, to |-> s, isRead |-> FALSE]
  <2>1. \A n \in ms : message[n] # stored /\ message'[n] # stored
    BY <1>2, <1>3
  <2>2. \A n \in Messages : message'[n] = stored <=> message[n] = stored
    BY <1>1, <2>1
  <2> QED
    BY <2>2 DEF UnreadMessages, IsUnread
<1>4. ASSUME ms = UnreadMessages(c, side) PROVE UnreadMessages(c, side)' = {}
  <2>1. ASSUME NEW n \in Messages, message'[n] = [conversation |-> c, to |-> side, isRead |-> FALSE] PROVE FALSE
    <3>1. n \notin ms
      BY <1>2, <2>1
    <3>2. message[n] = [conversation |-> c, to |-> side, isRead |-> FALSE]
      BY <1>1, <2>1, <3>1
    <3> QED
      BY <1>4, <3>1, <3>2 DEF UnreadMessages, IsUnread
  <2> QED
    BY <2>1 DEF UnreadMessages, IsUnread
<1> QED
  BY <1>3, <1>4

LEMMA MarkKeeps ==
  ASSUME MessagesInv, CountersInv, NEW r \in Slots, MarkMessages(r), NEW d \in Conversations, NEW s \in Sides
  PROVE  CounterInv(d, s)'
<1>0. task[r] \in Task /\ task[r].stage = "mark" /\ task[r].stage \in Saving
  BY DEF MarkMessages, MessagesInv, MessagingTypeOK, Saving
<1>a. PICK c \in Conversations, side \in Sides : WorksOn(r, c, side)
  BY <1>0, WorksAlone
<1>1. /\ c = task[r].conversation /\ side = task[r].side
      /\ Working(r, c, side) /\ CounterInv(c, side)
      /\ \A x \in Conversations, y \in Sides : x # c \/ y # side => ~Working(r, x, y)
      /\ \A q \in Slots : Working(q, c, side) /\ task[q].alone => q = r
      /\ <<c, side>> \notin disturbed => task[r].alone /\ \A q \in Slots : Working(q, c, side) => q = r
  BY <1>a DEF WorksOn
<1>2. message' = MarkedRead(UnreadMessages(c, side))
  BY <1>1 DEF MarkMessages
<1>3. /\ UNCHANGED <<unread, disturbed>> /\ \A q \in Slots \ {r} : task'[q] = task[q]
      /\ task'[r].stage = "clear" /\ task'[r].conversation = c /\ task'[r].side = side
      /\ task'[r].seen = task[r].seen /\ task'[r].alone = task[r].alone
  BY <1>0, <1>1 DEF MarkMessages, Task, MessagesInv, MessagingTypeOK
<1>4. CASE d # c \/ s # side
  <2>1. UnreadMessages(d, s)' = UnreadMessages(d, s)
    BY <1>2, <1>4, MarkingApart
  <2>2. ~Working(r, d, s) /\ ~Working(r, d, s)'
    BY <1>1, <1>3, <1>4 DEF Working
  <2> QED
    BY <1>3, <2>1, <2>2, OthersApart
<1>5. CASE d = c /\ s = side
  <2>0. Working(r, c, side)' /\ \A q \in Slots : Working(q, c, side)' => Working(q, c, side)
    BY <1>1, <1>3 DEF Working
  <2>1. UnreadMessages(c, side)' = {}
    BY <1>2, MarkingApart
  <2>2. task[r].alone => /\ \A q \in Slots : Working(q, c, side) => q = r
                         /\ task[r].seen[side] = unread[c][side]
    BY <1>1 DEF CounterInv
  <2>3. ASSUME NEW q \in Slots, Working(q, c, side)', task'[q].alone
        PROVE  /\ \A x \in Slots : Working(x, c, side)' => x = q
               /\ task'[q].seen[side] = unread'[c][side]
    <3>1. q = r
      BY <1>1, <1>3, <2>0, <2>3
    <3> QED
      BY <1>3, <2>0, <2>2, <2>3, <3>1
  <2>4. ASSUME <<c, side>> \notin disturbed'
        PROVE  \A q \in Slots : Working(q, c, side)' => q = r /\ task'[q].alone
    BY <1>1, <1>3, <2>0, <2>4
  <2>5. task'[r].stage = "clear"
    BY <1>3
  <2> QED
    BY <1>5, <2>0, <2>1, <2>3, <2>4, <2>5 DEF CounterInv
<1> QED
  BY <1>4, <1>5

LEMMA FailKeeps ==
  ASSUME MessagesInv, CountersInv, NEW r \in Slots, FailTask(r), NEW d \in Conversations, NEW s \in Sides
  PROVE  CounterInv(d, s)'
<1>0. /\ task[r] \in Task /\ task[r].stage # "idle" /\ UNCHANGED unread
      /\ \A q \in Slots \ {r} : task'[q] = task[q]
      /\ \A x \in Conversations, y \in Sides : ~Working(r, x, y)'
      /\ disturbed \subseteq disturbed'
  BY FinishingTask, NoTaskTyped DEF FailTask, Working, MessagesInv, MessagingTypeOK, TasksTyped
<1>m. message \in [Messages -> Message \cup {None}]
  BY DEF MessagesInv, MessagingTypeOK
<1>1. ASSUME task[r].stage # "mark" PROVE UNCHANGED message
  <2>1. message' = MarkedRead({})
    BY <1>1 DEF FailTask
  <2> QED
    BY <1>m, <2>1 DEF MarkedRead
<1>2. CASE task[r].stage \notin Saving
  <2>1. \A x \in Conversations, y \in Sides : ~Working(r, x, y) /\ UnreadMessages(x, y)' = UnreadMessages(x, y)
    BY <1>1, <1>2 DEF Working, Saving, UnreadMessages, IsUnread
  <2> QED
    BY <1>0, <2>1, OthersApart
<1>3. CASE task[r].stage \in Saving
  <2>a. PICK c \in Conversations, side \in Sides : WorksOn(r, c, side)
    BY <1>3, WorksAlone
  <2>1. /\ c = task[r].conversation /\ side = task[r].side
        /\ Working(r, c, side) /\ CounterInv(c, side)
        /\ \A x \in Conversations, y \in Sides : x # c \/ y # side => ~Working(r, x, y)
        /\ \A q \in Slots : Working(q, c, side) /\ task[q].alone => q = r
        /\ <<c, side>> \notin disturbed => task[r].alone /\ \A q \in Slots : Working(q, c, side) => q = r
    BY <2>a DEF WorksOn
  <2>2. PICK ms \in SUBSET UnreadMessages(c, side) : message' = MarkedRead(ms)
    BY <2>1 DEF FailTask
  <2>3. CASE d # c \/ s # side
    <3>1. UnreadMessages(d, s)' = UnreadMessages(d, s)
      BY <2>2, <2>3, MarkingApart
    <3> QED
      BY <1>0, <2>1, <2>3, <3>1, OthersApart
  <2>4. CASE d = c /\ s = side
    <3>1. \A q \in Slots : Working(q, c, side)' => Working(q, c, side) /\ q # r /\ task'[q].alone = task[q].alone
      BY <1>0 DEF Working
    <3>2. \A q \in Slots : Working(q, c, side)' => ~task'[q].alone
      BY <2>1, <3>1
    <3>3. ASSUME <<c, side>> \notin disturbed'
          PROVE  (\A q \in Slots : ~Working(q, c, side)') /\ Agreeing(c, side)'
      <4>1. task[r].stage = "insert" /\ <<c, side>> \notin disturbed
        BY <1>0, <1>3, <2>1, <3>3 DEF FailTask, Saving
      <4>2. \A q \in Slots : Working(q, c, side) => q = r
        BY <2>1, <4>1
      <4>3. Agreeing(c, side)
        BY <2>1, <4>1, <4>2 DEF CounterInv
      <4>4. UnreadMessages(c, side)' = UnreadMessages(c, side)
        BY <1>1, <4>1 DEF UnreadMessages, IsUnread
      <4> QED
        BY <1>0, <3>1, <4>2, <4>3, <4>4 DEF Agreeing
    <3> QED
      BY <2>4, <3>2, <3>3 DEF CounterInv
  <2> QED
    BY <2>3, <2>4
<1> QED
  BY <1>2, <1>3

\* The first message of a topic, and later ones through createMessage.
LEMMA AddressKeeps ==
  ASSUME MessagesInv, CountersInv, NEW r \in Slots, NEW t, NEW u, NEW c \in Conversations, Address(r, t, u, c),
         task[r].stage \notin Saving, UNCHANGED <<unread, message>>, NEW d \in Conversations, NEW s \in Sides
  PROVE  CounterInv(d, s)'
<1>1. CASE Receivers(t, u) = {}
  <2>1. \A q \in Slots \ {r} : task'[q] = task[q]
    BY <1>1, FinishingTask DEF Address, MessagesInv, MessagingTypeOK, TasksTyped
  <2>2. task'[r] = NoTask
    BY <1>1, FinishingTask DEF Address, MessagesInv, MessagingTypeOK, TasksTyped
  <2>3. ~Working(r, d, s) /\ ~Working(r, d, s)'
    BY <2>2, NoTaskTyped DEF Working, Saving
  <2>4. UNCHANGED disturbed /\ UnreadMessages(d, s)' = UnreadMessages(d, s)
    BY <1>1 DEF Address, UnreadMessages, IsUnread
  <2> QED
    BY <2>1, <2>3, <2>4, OthersApart
<1>2. CASE Receivers(t, u) # {}
  <2>1. PICK side \in Receivers(t, u) : LoadConversation(r, c, side, "insert")
    BY <1>2 DEF Address
  <2>2. side \in Sides
    BY ReceiversAreSides
  <2> QED
    BY <2>1, <2>2, LoadKeeps
<1> QED
  BY <1>1, <1>2

LEMMA CountersStep == MessagesInv /\ CountersInv /\ [MessagingNext]_messagingVars => CountersInv'
<1> SUFFICES ASSUME MessagesInv, CountersInv, [MessagingNext]_messagingVars, NEW d \in Conversations, NEW s \in Sides
             PROVE  CounterInv(d, s)'
  BY DEF CountersInv
<1>0. NoTask.stage \notin Saving /\ TasksTyped
  BY NoTaskTyped DEF Saving, MessagesInv, MessagingTypeOK, TasksTyped
<1>1. ASSUME NEW r \in Slots, NEW t \in Topics, NEW u \in Users \cup {None}, CreateMessage(r, u, t)
      PROVE  CounterInv(d, s)'
  <2>1. task[r].stage \notin Saving /\ UNCHANGED <<unread, message>>
    BY <1>0, <1>1 DEF CreateMessage
  <2>2. CASE \E c \in Conversations : topic[c] = t
    <3>1. PICK c \in Conversations : Address(r, t, u, c)
      BY <1>1, <2>2 DEF CreateMessage
    <3> QED
      BY <2>1, <3>1, AddressKeeps
  <2>3. CASE ~\E c \in Conversations : topic[c] = t
    <3>1. /\ task' = [task EXCEPT ![r] = [NoTask EXCEPT !.stage = "create", !.user = u, !.topic = t]]
          /\ UNCHANGED disturbed
      BY <1>1, <2>3 DEF CreateMessage
    <3>2. [NoTask EXCEPT !.stage = "create", !.user = u, !.topic = t].stage = "create"
      BY NoTaskTyped DEF Task
    <3>3. ~Working(r, d, s) /\ ~Working(r, d, s)' /\ \A q \in Slots \ {r} : task'[q] = task[q]
      BY <1>0, <2>1, <3>1, <3>2 DEF Working, Saving, TasksTyped
    <3>4. UnreadMessages(d, s)' = UnreadMessages(d, s)
      BY <2>1 DEF UnreadMessages, IsUnread
    <3> QED
      BY <2>1, <3>1, <3>3, <3>4, OthersApart
  <2> QED
    BY <2>2, <2>3
<1>2. ASSUME NEW r \in Slots, CreateConversation(r) PROVE CounterInv(d, s)'
  <2>1. task[r].stage \notin Saving /\ UNCHANGED <<unread, message>>
    BY <1>2 DEF CreateConversation, Saving
  <2>2. PICK c \in Conversations : Address(r, task[r].topic, task[r].user, c)
    BY <1>2 DEF CreateConversation
  <2> QED
    BY <2>1, <2>2, AddressKeeps
<1>3. ASSUME NEW r \in Slots, NEW c \in Conversations, NEW u \in Users, SendMessage(r, u, c) \/ MarkMessagesAsRead(r, u, c)
      PROVE  CounterInv(d, s)'
  <2>1. task[r].stage \notin Saving /\ UNCHANGED <<unread, message>>
    BY <1>0, <1>3 DEF SendMessage, MarkMessagesAsRead
  <2>2. PICK side \in Sides : LoadConversation(r, c, side, "insert") \/ LoadConversation(r, c, side, "mark")
    BY <1>3 DEF SendMessage, MarkMessagesAsRead, OtherSide, SideOf, Sides
  <2> QED
    BY <2>1, <2>2, LoadKeeps
<1>4. ASSUME NEW r \in Slots, InsertMessage(r) PROVE CounterInv(d, s)'
  BY <1>4, InsertKeeps
<1>5. ASSUME NEW r \in Slots, CountMessage(r) \/ ClearCounter(r) PROVE CounterInv(d, s)'
  BY <1>5, SaveKeeps
<1>6. ASSUME NEW r \in Slots, MarkMessages(r) PROVE CounterInv(d, s)'
  BY <1>6, MarkKeeps
<1>7. ASSUME NEW r \in Slots, FailTask(r) PROVE CounterInv(d, s)'
  BY <1>7, FailKeeps
<1>8. CASE UNCHANGED messagingVars
  <2>1. Apart(d, s)
    BY <1>8 DEF messagingVars, Apart, Working, UnreadMessages, IsUnread
  <2> QED
    BY <2>1, ApartKeeps DEF CountersInv
<1> QED
  BY <1>1, <1>2, <1>3, <1>4, <1>5, <1>6, <1>7, <1>8 DEF MessagingNext

LEMMA CountersInitially == MessagingInit => CountersInv
<1> SUFFICES ASSUME MessagingInit, NEW c \in Conversations, NEW side \in Sides PROVE CounterInv(c, side)
  BY DEF CountersInv
<1>1. \A r \in Slots : ~Working(r, c, side)
  BY NoTaskTyped DEF MessagingInit, Working
<1>2. UnreadMessages(c, side) = {}
  <2>1. [conversation |-> c, to |-> side, isRead |-> FALSE] \in Message
    BY DEF Message
  <2>2. \A m \in Messages : message[m] # [conversation |-> c, to |-> side, isRead |-> FALSE]
    BY <2>1 DEF MessagingInit
  <2> QED
    BY <2>2 DEF UnreadMessages, IsUnread
<1>3. unread[c][side] = 0
  BY DEF MessagingInit, NoUnread
<1> QED
  BY <1>1, <1>2, <1>3, FS_EmptySet DEF CounterInv, Agreeing

\* The invariant says what CountersHold says.
LEMMA CountersSuffice == CountersInv => CountersHold
<1> SUFFICES ASSUME CountersInv, NEW c \in Conversations, NEW side \in Sides
             PROVE  \/ <<c, side>> \in disturbed
                    \/ \E r \in Slots : Working(r, c, side) /\ task[r].stage \in {"count", "clear"}
                    \/ unread[c][side] = Cardinality(UnreadMessages(c, side))
  BY Zenon DEF CountersHold
<1> QED
  BY DEF CountersInv, CounterInv, Agreeing

\* However sends and reads of both sides interleave and fail, a counter nobody
\* disturbed is the number of unread messages, for any number of requests.
THEOREM CountersStayTrue == MessagingSpec => []CountersHold
BY CountersSuffice, MessagesInitially, MessagesStep, CountersInitially, CountersStep, PTL DEF MessagingSpec

-----------------------------------------------------------------------------
(***************************************************************************)
(* Types of the profile and of the edits in flight.  A removal and a       *)
(* change keep the list they loaded, which has an element at their index.  *)
(***************************************************************************)
Edit == [stage : {"idle", "add", "update", "change", "remove"},
         item : Items \cup {None}, index : Nat, loaded : Profile]

Indexed(q) ==
  /\ q.stage \in {"change", "remove"} => q.index \in DOMAIN q.loaded.list
  /\ q.stage = "add" => q.item \in Items
  /\ q.stage # "add" => q.item = None

EditsIndexed == \A r \in Slots : Indexed(edit[r])

LEMMA NewProfileTyped == NewProfile \in Profile /\ NoEdit \in Edit /\ Indexed(NoEdit)
<1>1. <<>> \in Seq(Item)
  BY EmptySeq
<1> QED
  BY <1>1 DEF NewProfile, NoEdit, Profile, Edit, Indexed

\* Without the element at k, a list has the elements before it, then those after.
LEMMA RemoveAtProperties ==
  ASSUME NEW S, NEW list \in Seq(S), NEW k \in DOMAIN list
  PROVE  /\ Lists!RemoveAt(list, k) \in Seq(S)
         /\ Len(Lists!RemoveAt(list, k)) = Len(list) - 1
         /\ \A j \in 1 .. Len(list) - 1 :
               Lists!RemoveAt(list, k)[j] = IF j < k THEN list[j] ELSE list[j + 1]
<1> DEFINE before == SubSeq(list, 1, k - 1)
           after == SubSeq(list, k + 1, Len(list))
<1>1. /\ Len(list) \in Nat /\ k \in 1 .. Len(list)
      /\ \A i \in 1 .. Len(list) : list[i] \in S
  BY LenProperties, ElementOfSeq
<1>2. /\ before \in Seq(S) /\ Len(before) = k - 1
      /\ \A i \in 1 .. k - 1 : before[i] = list[i]
  BY <1>1, SubSeqProperties
<1>3. /\ after \in Seq(S) /\ Len(after) = Len(list) - k
      /\ \A i \in 1 .. Len(list) - k : after[i] = list[k + i]
  <2>1. /\ k + 1 \in Int /\ Len(list) \in Int
        /\ \A i \in k + 1 .. Len(list) : list[i] \in S
    BY <1>1
  <2>2. /\ after \in Seq(S)
        /\ Len(after) = IF k + 1 <= Len(list) THEN Len(list) - (k + 1) + 1 ELSE 0
        /\ \A i \in 1 .. Len(list) - (k + 1) + 1 : after[i] = list[k + 1 + i - 1]
    BY <2>1, SubSeqProperties
  <2> HIDE DEF after
  <2> QED
    BY <1>1, <2>2
<1>4. Lists!RemoveAt(list, k) = before \o after
  BY DEF Lists!RemoveAt
<1> HIDE DEF before, after
<1>5. /\ before \o after \in Seq(S)
      /\ Len(before \o after) = Len(before) + Len(after)
      /\ \A i \in 1 .. Len(before) + Len(after) :
            (before \o after)[i] =
               IF i <= Len(before) THEN before[i] ELSE after[i - Len(before)]
  <2>1. before \in Seq(S) /\ after \in Seq(S)
    BY <1>2, <1>3
  <2> QED
    BY <2>1, ConcatProperties
<1>6. \A j \in 1 .. Len(list) - 1 :
         (before \o after)[j] = IF j < k THEN list[j] ELSE list[j + 1]
  <2>1. \A i \in 1 .. Len(list) - 1 :
           (before \o after)[i] = IF i <= k - 1 THEN before[i] ELSE after[i - (k - 1)]
    <3>1. Len(before) + Len(after) = Len(list) - 1
      BY <1>1, <1>2, <1>3
    <3> QED
      BY <1>2, <1>5, <3>1, Zenon
  <2> TAKE j \in 1 .. Len(list) - 1
  <2>2. CASE j < k
    BY <1>1, <1>2, <2>1, <2>2
  <2>3. CASE ~(j < k)
    <3>1. ~(j <= k - 1) /\ j - (k - 1) \in 1 .. Len(list) - k /\ k + (j - (k - 1)) = j + 1
      BY <1>1, <2>3
    <3> QED
      BY <1>3, <2>1, <2>3, <3>1, Zenon
  <2> QED
    BY <2>2, <2>3
<1>7. Len(before \o after) = Len(list) - 1
  BY <1>1, <1>2, <1>3, <1>5
<1> QED
  BY <1>4, <1>5, <1>6, <1>7

\* The text of one item is set and the others are left.
LEMMA TextProperties ==
  ASSUME NEW list \in Seq(Item), NEW k \in DOMAIN list, NEW i \in Items
  PROVE  /\ [list EXCEPT ![k].text = i] \in Seq(Item)
         /\ i = list[k].text => [list EXCEPT ![k].text = i] = list
<1> DEFINE e == [list[k] EXCEPT !.text = i]
<1>1. k \in 1 .. Len(list) /\ list \in [1 .. Len(list) -> Item]
  BY LenProperties
<1>2. e \in Item /\ (i = list[k].text => e = list[k])
  BY <1>1 DEF Item
<1>3. [list EXCEPT ![k].text = i] = [list EXCEPT ![k] = e]
  OBVIOUS
<1>4. [list EXCEPT ![k] = e] \in Seq(Item)
  <2> HIDE DEF e
  <2> QED
    BY <1>1, <1>2, ExceptSeq
<1>5. e = list[k] => [list EXCEPT ![k] = e] = list
  <2> HIDE DEF e
  <2> QED
    BY <1>1
<1> QED
  BY <1>2, <1>3, <1>4, <1>5

ProfileInv == ProfileTypeOK /\ EditsIndexed

\* The edits change one at a time: one starts, or one ends.
EditsTyped == edit \in [Slots -> Edit] /\ EditsIndexed

LEMMA EndingEdit ==
  ASSUME EditsTyped, NEW r \in Slots, AnswerEdit(r)
  PROVE  EditsTyped'
<1> USE DEF EditsTyped, EditsIndexed
<1>1. edit' = [edit EXCEPT ![r] = NoEdit]
  BY DEF AnswerEdit
<1>2. edit' \in [Slots -> Edit]
  BY <1>1, NewProfileTyped
<1>3. ASSUME NEW s \in Slots PROVE Indexed(edit'[s])
  BY <1>1, NewProfileTyped
<1> QED
  BY <1>2, <1>3

LEMMA StartingEdit ==
  ASSUME EditsTyped, profile \in Profile, NEW r \in Slots,
         NEW stage \in {"add", "update", "change", "remove"},
         NEW item \in Items \cup {None}, NEW index \in Nat,
         stage \in {"change", "remove"} => index \in DOMAIN profile.list,
         stage = "add" <=> item \in Items,
         LoadProfile(r, stage, item, index)
  PROVE  EditsTyped'
<1> USE DEF EditsTyped, EditsIndexed
<1> DEFINE q == [stage |-> stage, item |-> item, index |-> index, loaded |-> profile]
<1>1. edit' = [edit EXCEPT ![r] = q]
  BY DEF LoadProfile
<1>2. q \in Edit /\ Indexed(q)
  BY ItemAssumption DEF Edit, Indexed
<1> HIDE DEF q
<1>3. edit' \in [Slots -> Edit]
  BY <1>1, <1>2
<1>4. ASSUME NEW s \in Slots PROVE Indexed(edit'[s])
  BY <1>1, <1>2
<1> QED
  BY <1>3, <1>4

LEMMA ProfileInitTyped == ProfileInit => ProfileInv
<1> SUFFICES ASSUME ProfileInit PROVE ProfileInv
  OBVIOUS
<1>1. ProfileTypeOK
  <2>1. profile \in Profile /\ edit \in [Slots -> Edit]
    BY NewProfileTyped DEF ProfileInit
  <2>2. credited \in 0 .. MaxCredits /\ edits \in 0 .. MaxEdits
    BY LimitAssumption DEF ProfileInit
  <2>3. added \subseteq Items /\ removed \subseteq Items
    BY Zenon DEF ProfileInit
  <2> QED
    BY <2>1, <2>2, <2>3 DEF ProfileTypeOK, Edit
<1>2. EditsIndexed
  BY NewProfileTyped DEF ProfileInit, EditsIndexed
<1> QED
  BY <1>1, <1>2 DEF ProfileInv

\* The rest of the type, apart from that of the edits.
RestTyped ==
  /\ profile \in Profile
  /\ added \subseteq Items /\ removed \subseteq Items
  /\ credited \in 0 .. MaxCredits /\ edits \in 0 .. MaxEdits

LEMMA ProfileParts == ProfileInv <=> EditsTyped /\ RestTyped
BY DEF ProfileInv, ProfileTypeOK, EditsTyped, RestTyped, Edit

LEMMA ListPlaces ==
  ASSUME NEW list \in Seq(Item)
  PROVE  /\ Len(list) \in Nat
         /\ DOMAIN list = 1 .. Len(list)
         /\ \A k \in DOMAIN list : list[k] \in Item /\ list[k].id \in Items /\ list[k].text \in Items
<1>1. Len(list) \in Nat /\ DOMAIN list = 1 .. Len(list)
  BY LenProperties
<1>2. ASSUME NEW k \in DOMAIN list PROVE list[k] \in Item
  BY ElementOfSeq, <1>1
<1>3. \A i \in Item : i.id \in Items /\ i.text \in Items
  BY DEF Item
<1> QED
  BY <1>1, <1>2, <1>3

\* What the saves make of a stored profile.
LEMMA ListSet ==
  ASSUME NEW p \in Profile, NEW list \in Seq(Item)
  PROVE  /\ [p EXCEPT !.list = list, !.version = @ + 1] \in Profile
         /\ [p EXCEPT !.list = list] \in Profile
         /\ [p EXCEPT !.balance = @ + 1] \in Profile
<1>1. p.balance \in Nat /\ p.version \in Nat
      /\ p = [list |-> p.list, balance |-> p.balance, version |-> p.version]
  BY DEF Profile
<1>2. p.version + 1 \in Nat /\ p.balance + 1 \in Nat
  BY <1>1
<1> QED
  BY <1>1, <1>2 DEF Profile

LEMMA ProfileKeeps == ProfileInv /\ [ProfileNext]_profileVars => ProfileInv'
<1> SUFFICES ASSUME EditsTyped, RestTyped, [ProfileNext]_profileVars
             PROVE  EditsTyped' /\ RestTyped'
  BY ProfileParts DEF ProfileInv, ProfileTypeOK, EditsTyped, RestTyped, Edit
<1>1. ASSUME NEW r \in Slots, NEW i \in Items, StartAdding(r, i) PROVE EditsTyped' /\ RestTyped'
  <2>1. RestTyped'
    BY <1>1 DEF StartAdding, RestTyped
  <2> QED
    BY <1>1, <2>1, StartingEdit DEF StartAdding, RestTyped
<1>2. ASSUME NEW r \in Slots, StartUpdating(r) PROVE EditsTyped' /\ RestTyped'
  <2>1. RestTyped'
    BY <1>2 DEF StartUpdating, RestTyped
  <2> QED
    BY <1>2, <2>1, StartingEdit, ItemAssumption DEF StartUpdating, RestTyped
<1>3. ASSUME NEW r \in Slots, NEW k \in DOMAIN profile.list, NEW stage \in {"change", "remove"},
             StartChanging(r, k, stage)
      PROVE  EditsTyped' /\ RestTyped'
  <2>1. RestTyped'
    BY <1>3 DEF StartChanging, RestTyped
  <2>2. k \in Nat
    BY ListPlaces DEF RestTyped, Profile
  <2> QED
    BY <1>3, <2>1, <2>2, StartingEdit, ItemAssumption DEF StartChanging, RestTyped
<1>4. ASSUME NEW r \in Slots, SaveAdded(r) PROVE EditsTyped' /\ RestTyped'
  <2>1. edit[r].item \in Items /\ edit[r].loaded \in Profile
    BY <1>4 DEF SaveAdded, EditsTyped, EditsIndexed, Indexed, Edit
  <2>2. NewItem(edit[r].item) \in Item
    BY <2>1 DEF NewItem, Item
  <2>3. profile' \in Profile
    <3>1. Append(profile.list, NewItem(edit[r].item)) \in Seq(Item)
      BY <2>2, AppendProperties DEF RestTyped, Profile
    <3>2. profile' = [profile EXCEPT !.list = Append(profile.list, NewItem(edit[r].item)),
                                     !.version = @ + 1]
      BY <1>4 DEF SaveAdded
    <3> QED
      BY <3>1, <3>2, ListSet, Zenon DEF RestTyped
  <2> QED
    BY <1>4, <2>1, <2>3, EndingEdit DEF SaveAdded, RestTyped
<1>5. ASSUME NEW r \in Slots, SaveUpdated(r) PROVE EditsTyped' /\ RestTyped'
  <2>1. profile' \in Profile
    <3>1. profile' = [profile EXCEPT !.version = @ + 1] \/ profile' = profile
      BY <1>5 DEF SaveUpdated
    <3> QED
      BY <3>1 DEF RestTyped, Profile
  <2>2. edits' \in 0 .. MaxEdits
    BY <1>5, LimitAssumption DEF SaveUpdated, RestTyped
  <2> QED
    BY <1>5, <2>1, <2>2, EndingEdit DEF SaveUpdated, RestTyped
<1>6. ASSUME NEW r \in Slots, SaveChanged(r) PROVE EditsTyped' /\ RestTyped'
  <2> DEFINE q == edit[r]
  <2>1. q.loaded.list \in Seq(Item) /\ q.index \in DOMAIN q.loaded.list
    BY <1>6 DEF SaveChanged, EditsTyped, EditsIndexed, Indexed, Edit, Profile
  <2>2. q.loaded.list[q.index].id \in Items
    BY <2>1, ListPlaces
  <2>3. profile' \in Profile
    <3>1. CASE Savable(q) /\ q.index \in DOMAIN profile.list
      <4>1. profile' = [profile EXCEPT !.list =
                          [profile.list EXCEPT ![q.index].text = q.loaded.list[q.index].id]]
        BY <1>6, <3>1 DEF SaveChanged
      <4>2. [profile.list EXCEPT ![q.index].text = q.loaded.list[q.index].id] \in Seq(Item)
        BY <2>2, <3>1, TextProperties DEF RestTyped, Profile
      <4> QED
        BY <4>1, <4>2 DEF RestTyped, Profile
    <3>2. CASE ~(Savable(q) /\ q.index \in DOMAIN profile.list)
      BY <1>6, <3>2 DEF SaveChanged, RestTyped
    <3> QED
      BY <3>1, <3>2
  <2>4. edits' \in 0 .. MaxEdits
    BY <1>6, LimitAssumption DEF SaveChanged, RestTyped
  <2> QED
    BY <1>6, <2>3, <2>4, EndingEdit DEF SaveChanged, RestTyped
<1>7. ASSUME NEW r \in Slots, SaveRemoved(r) PROVE EditsTyped' /\ RestTyped'
  <2> DEFINE q == edit[r]
  <2>1. q.loaded.list \in Seq(Item) /\ q.index \in DOMAIN q.loaded.list
    BY <1>7 DEF SaveRemoved, EditsTyped, EditsIndexed, Indexed, Edit, Profile
  <2>2. profile' \in Profile /\ removed' \subseteq Items
    <3>1. CASE Savable(q)
      <4>1. /\ profile' = [profile EXCEPT !.list = Lists!RemoveAt(q.loaded.list, q.index),
                                          !.version = @ + 1]
            /\ removed' = removed \cup {q.loaded.list[q.index].id}
        BY <1>7, <3>1 DEF SaveRemoved
      <4>2. Lists!RemoveAt(q.loaded.list, q.index) \in Seq(Item)
        BY <2>1, RemoveAtProperties
      <4>3. q.loaded.list[q.index].id \in Items
        BY <2>1, ListPlaces
      <4>4. profile' \in Profile
        BY <4>1, <4>2, ListSet, Zenon DEF RestTyped
      <4> QED
        BY <4>1, <4>3, <4>4 DEF RestTyped
    <3>2. CASE ~Savable(q)
      BY <1>7, <3>2 DEF SaveRemoved, RestTyped
    <3> QED
      BY <3>1, <3>2
  <2> QED
    BY <1>7, <2>2, EndingEdit DEF SaveRemoved, RestTyped
<1>8. ASSUME NEW r \in Slots, FailEdit(r) PROVE EditsTyped' /\ RestTyped'
  BY <1>8, EndingEdit DEF FailEdit, RestTyped
<1>9. CASE Credit
  <2>1. profile' \in Profile
    BY <1>9, EmptySeq, ListSet, Zenon DEF Credit, RestTyped
  <2>2. credited' \in 0 .. MaxCredits
    BY <1>9, LimitAssumption DEF Credit, RestTyped
  <2>3. RestTyped'
    BY <1>9, <2>1, <2>2 DEF Credit, RestTyped
  <2> QED
    BY <1>9, <2>3 DEF Credit, EditsTyped, EditsIndexed
<1>10. CASE UNCHANGED profileVars
  BY <1>10 DEF profileVars, EditsTyped, EditsIndexed, RestTyped
<1> QED
  BY <1>1, <1>2, <1>3, <1>4, <1>5, <1>6, <1>7, <1>8, <1>9, <1>10 DEF ProfileNext

\* The stored profile and the edits in flight have their types
\* (users.service.ts, the edits of freelancerData).
THEOREM ProfileTypeCorrect == ProfileSpec => []ProfileTypeOK
<1>1. ProfileSpec => []ProfileInv
  BY ProfileInitTyped, ProfileKeeps, PTL DEF ProfileSpec
<1>2. ProfileInv => ProfileTypeOK
  BY DEF ProfileInv
<1> QED
  BY <1>1, <1>2, PTL

-----------------------------------------------------------------------------
(***************************************************************************)
(* The list of freelancerData holds what was added and not removed, once.  *)
(* A removal or a change in flight that can still be saved has the list as *)
(* it is.                                                                  *)
(***************************************************************************)
Ids(list) == {list[k].id : k \in DOMAIN list}
OwnTexts(list) == \A k \in DOMAIN list : list[k].text = list[k].id

ListKept(list, held) == Ids(list) = held /\ Lists!IsInjective(list) /\ OwnTexts(list)

\* An item is new until its edit is answered.
ItemsNew ==
  /\ removed \subseteq added
  /\ \A r \in Slots : edit[r].item # None => edit[r].item \notin added
  /\ \A r, s \in Slots : edit[r].item # None /\ edit[r].item = edit[s].item => r = s

\* What an edit loaded, beside the profile p that is stored.
LoadedHolds(q, p) ==
  /\ q.loaded.version <= p.version
  /\ q.stage \in {"change", "remove"} =>
        (q.loaded.version = p.version => q.loaded.list = p.list)

AccountsHold ==
  /\ ListKept(profile.list, added \ removed) /\ profile.balance = credited
  /\ ItemsNew
  /\ \A r \in Slots : LoadedHolds(edit[r], profile)

\* The ids of a kept list tell its places apart.
LEMMA IdsDistinct ==
  ASSUME NEW list \in Seq(Item), NEW held, ListKept(list, held),
         NEW a \in DOMAIN list, NEW b \in DOMAIN list, list[a].id = list[b].id
  PROVE  a = b
<1>1. list[a] \in Item /\ list[b] \in Item
  BY ListPlaces
<1>2. list[a].text = list[b].text
  BY DEF ListKept, OwnTexts
<1>3. list[a] = list[b]
  BY <1>1, <1>2 DEF Item
<1> QED
  BY <1>3 DEF ListKept, Lists!IsInjective

LEMMA EmptyKept == ListKept(<<>>, {})
BY DEF ListKept, Ids, OwnTexts, Lists!IsInjective

LEMMA KeptAppended ==
  ASSUME NEW list \in Seq(Item), NEW held, ListKept(list, held), NEW i \in Items, i \notin held
  PROVE  ListKept(Append(list, NewItem(i)), held \cup {i})
<1> DEFINE new == Append(list, NewItem(i))
           n == Len(list) + 1
<1>1. NewItem(i) \in Item /\ NewItem(i).id = i /\ NewItem(i).text = i
  BY DEF NewItem, Item
<1>2. Len(list) \in Nat /\ DOMAIN list = 1 .. Len(list)
  BY ListPlaces
<1>3. /\ new \in Seq(Item) /\ Len(new) = n /\ new[n] = NewItem(i)
      /\ \A k \in DOMAIN list : new[k] = list[k]
  BY <1>1, <1>2, AppendProperties
<1> HIDE DEF new
<1>4. DOMAIN new = DOMAIN list \cup {n} /\ n \notin DOMAIN list
  BY <1>2, <1>3, ListPlaces
<1> HIDE DEF n
<1>5. Ids(list) = held /\ OwnTexts(list)
  BY DEF ListKept
<1>6. Ids(new) = held \cup {i}
  BY <1>1, <1>3, <1>4, <1>5 DEF Ids
<1>7. OwnTexts(new)
  BY <1>1, <1>3, <1>4, <1>5 DEF OwnTexts
<1>8. Lists!IsInjective(new)
  <2> SUFFICES ASSUME NEW a \in DOMAIN new, NEW b \in DOMAIN new, new[a] = new[b] PROVE a = b
    BY DEF Lists!IsInjective
  <2>1. \A k \in DOMAIN list : new[k].id \in held /\ new[k].id # i
    BY <1>3, <1>5 DEF Ids
  <2>2. a = n <=> b = n
    BY <1>1, <1>3, <1>4, <2>1
  <2>3. CASE a # n /\ b # n
    <3>1. a \in DOMAIN list /\ b \in DOMAIN list
      BY <1>4, <2>3
    <3> QED
      BY <1>3, <3>1 DEF ListKept, Lists!IsInjective
  <2> QED
    BY <2>2, <2>3
<1> QED
  BY <1>6, <1>7, <1>8 DEF ListKept, new

LEMMA KeptRemoved ==
  ASSUME NEW list \in Seq(Item), NEW held, ListKept(list, held), NEW k \in DOMAIN list
  PROVE  /\ list[k].id \in held
         /\ ListKept(Lists!RemoveAt(list, k), held \ {list[k].id})
<1> DEFINE new == Lists!RemoveAt(list, k)
           From(j) == IF j < k THEN j ELSE j + 1
<1>1. Len(list) \in Nat /\ DOMAIN list = 1 .. Len(list)
  BY ListPlaces
<1>2. /\ new \in Seq(Item) /\ Len(new) = Len(list) - 1
      /\ \A j \in 1 .. Len(list) - 1 : new[j] = IF j < k THEN list[j] ELSE list[j + 1]
  BY RemoveAtProperties
<1> HIDE DEF new
<1>3. DOMAIN new = 1 .. Len(list) - 1
  BY <1>2, ListPlaces
<1>4. \A j \in DOMAIN new : From(j) \in DOMAIN list /\ From(j) # k /\ new[j] = list[From(j)]
  BY <1>1, <1>2, <1>3
<1>5. \A l \in DOMAIN list : l # k => \E j \in DOMAIN new : From(j) = l
  <2> SUFFICES ASSUME NEW l \in DOMAIN list, l # k PROVE \E j \in DOMAIN new : From(j) = l
    OBVIOUS
  <2>1. CASE l < k
    <3>1. l \in DOMAIN new /\ From(l) = l
      BY <1>1, <1>3, <2>1
    <3> QED
      BY <3>1
  <2>2. CASE l > k
    <3>1. l - 1 \in DOMAIN new /\ From(l - 1) = l
      BY <1>1, <1>3, <2>2
    <3> QED
      BY <3>1
  <2> QED
    BY <1>1, <2>1, <2>2
<1>6. \A a, b \in DOMAIN new : From(a) = From(b) => a = b
  BY <1>1, <1>3
<1> HIDE DEF From
<1>7. Ids(list) = held /\ OwnTexts(list)
  BY DEF ListKept
<1>8. \A l \in DOMAIN list : list[l].id = list[k].id => l = k
  BY IdsDistinct
<1>9. Ids(new) = held \ {list[k].id}
  BY <1>4, <1>5, <1>7, <1>8 DEF Ids
<1>10. OwnTexts(new)
  BY <1>4, <1>7 DEF OwnTexts
<1>11. Lists!IsInjective(new)
  <2> SUFFICES ASSUME NEW a \in DOMAIN new, NEW b \in DOMAIN new, new[a] = new[b] PROVE a = b
    BY DEF Lists!IsInjective
  <2>1. From(a) = From(b)
    BY <1>4 DEF ListKept, Lists!IsInjective
  <2> QED
    BY <1>6, <2>1
<1>12. list[k].id \in held
  BY <1>7 DEF Ids
<1> QED
  BY <1>9, <1>10, <1>11, <1>12 DEF ListKept, new

\* How a save or a credit may move the stored profile.
Advances(p, n) ==
  \/ n.version = p.version + 1
  \/ n.version = p.version /\ n.list = p.list

LEMMA LoadedAdvances ==
  ASSUME NEW p \in Profile, NEW n \in Profile, Advances(p, n),
         NEW q \in Edit, LoadedHolds(q, p)
  PROVE  LoadedHolds(q, n)
<1>1. p.version \in Nat /\ n.version \in Nat /\ q.loaded.version \in Nat
  BY DEF Profile, Edit
<1>2. q.loaded.version <= n.version
  BY <1>1 DEF Advances, LoadedHolds
<1>3. ASSUME q.stage \in {"change", "remove"}, q.loaded.version = n.version
      PROVE  q.loaded.list = n.list
  BY <1>1, <1>3 DEF Advances, LoadedHolds
<1> QED
  BY <1>2, <1>3, Zenon DEF LoadedHolds

LEMMA NoEditLoaded == ASSUME NEW p \in Profile PROVE LoadedHolds(NoEdit, p)
BY DEF NoEdit, NewProfile, LoadedHolds, Profile

LEMMA LoadedAnswered ==
  ASSUME ProfileInv, profile' \in Profile, Advances(profile, profile'),
         \A s \in Slots : LoadedHolds(edit[s], profile),
         NEW r \in Slots, AnswerEdit(r)
  PROVE  \A s \in Slots : LoadedHolds(edit'[s], profile')
<1> SUFFICES ASSUME NEW s \in Slots PROVE LoadedHolds(edit'[s], profile')
  OBVIOUS
<1>1. profile \in Profile /\ edit \in [Slots -> Edit]
  BY DEF ProfileInv, ProfileTypeOK, Edit
<1>2. edit'[s] = IF s = r THEN NoEdit ELSE edit[s]
  BY <1>1 DEF AnswerEdit
<1> QED
  BY <1>1, <1>2, NoEditLoaded, LoadedAdvances

\* An answered edit holds no item, and nothing else in flight changes.
LEMMA ItemsAnswered ==
  ASSUME ProfileInv, ItemsNew, NEW r \in Slots, AnswerEdit(r),
         removed' \subseteq added',
         added' = added \/ (added' = added \cup {edit[r].item} /\ edit[r].item # None)
  PROVE  ItemsNew'
<1>1. \A s \in Slots : edit'[s] = IF s = r THEN NoEdit ELSE edit[s]
  BY DEF AnswerEdit, ProfileInv, ProfileTypeOK
<1>2. NoEdit.item = None
  BY DEF NoEdit
<1>3. ASSUME NEW s \in Slots, edit'[s].item # None PROVE s # r /\ edit'[s] = edit[s]
  BY <1>1, <1>2, <1>3
<1>4. ASSUME NEW s \in Slots, edit'[s].item # None PROVE edit'[s].item \notin added'
  BY <1>3, <1>4 DEF ItemsNew
<1>5. ASSUME NEW s \in Slots, NEW t \in Slots,
             edit'[s].item # None, edit'[s].item = edit'[t].item
      PROVE  s = t
  BY <1>3, <1>5 DEF ItemsNew
<1> QED
  BY <1>4, <1>5 DEF ItemsNew

\* An edit that starts holds what is stored, and an item of its own or none.
LEMMA StartAccounted ==
  ASSUME ProfileInv, AccountsHold, NEW r \in Slots,
         NEW stage \in {"add", "update", "change", "remove"},
         NEW item \in Items \cup {None}, NEW index \in Nat,
         stage \in {"change", "remove"} => index \in DOMAIN profile.list,
         item # None => item \notin added /\ ~BeingAdded(item),
         LoadProfile(r, stage, item, index),
         UNCHANGED <<profile, added, removed, credited, edits>>
  PROVE  AccountsHold'
<1> DEFINE q == [stage |-> stage, item |-> item, index |-> index, loaded |-> profile]
<1>1. \A s \in Slots : edit'[s] = IF s = r THEN q ELSE edit[s]
  BY DEF LoadProfile, ProfileInv, ProfileTypeOK
<1>2. profile \in Profile
  BY DEF ProfileInv, ProfileTypeOK
<1>4. LoadedHolds(q, profile)
  BY <1>2 DEF LoadedHolds, Profile
<1>5. q.item = item
  OBVIOUS
<1> HIDE DEF q
<1>6. ItemsNew'
  <2>1. \A s \in Slots : item # None => edit[s].item # item
    BY DEF BeingAdded
  <2>2. ASSUME NEW s \in Slots, edit'[s].item # None PROVE edit'[s].item \notin added
    BY <1>1, <1>5, <2>2 DEF AccountsHold, ItemsNew
  <2>3. ASSUME NEW s \in Slots, NEW t \in Slots,
               edit'[s].item # None, edit'[s].item = edit'[t].item
        PROVE  s = t
    BY <1>1, <1>5, <2>1, <2>3 DEF AccountsHold, ItemsNew
  <2> QED
    BY <2>2, <2>3 DEF AccountsHold, ItemsNew
<1>7. \A s \in Slots : LoadedHolds(edit'[s], profile)
  BY <1>1, <1>4 DEF AccountsHold
<1> QED
  BY <1>6, <1>7 DEF AccountsHold

\* A save that answers an edit: what is left to show of it.
LEMMA Answering ==
  ASSUME ProfileInv, ProfileInv', AccountsHold, NEW r \in Slots, AnswerEdit(r),
         Advances(profile, profile'),
         ListKept(profile'.list, added' \ removed'), profile'.balance = credited',
         removed' \subseteq added',
         added' = added \/ (added' = added \cup {edit[r].item} /\ edit[r].item # None)
  PROVE  AccountsHold'
<1>1. profile' \in Profile
  BY DEF ProfileInv, ProfileTypeOK
<1>2. \A s \in Slots : LoadedHolds(edit'[s], profile')
  BY <1>1, LoadedAnswered DEF AccountsHold
<1>3. ItemsNew'
  BY ItemsAnswered, Zenon DEF AccountsHold
<1> QED
  BY <1>2, <1>3 DEF AccountsHold

LEMMA AddedAccounted ==
  ASSUME ProfileInv, ProfileInv', AccountsHold, NEW r \in Slots, SaveAdded(r)
  PROVE  AccountsHold'
<1> DEFINE i == edit[r].item
<1>1. /\ i \in Items /\ i # None /\ i \notin added
      /\ profile \in Profile /\ profile.list \in Seq(Item)
  BY ItemAssumption
  DEF SaveAdded, ProfileInv, ProfileTypeOK, EditsIndexed, Indexed, AccountsHold, ItemsNew, Profile
<1>2. /\ AnswerEdit(r) /\ added' = added \cup {i} /\ removed' = removed /\ credited' = credited
      /\ removed \subseteq added /\ profile.balance = credited
  BY DEF SaveAdded, AccountsHold, ItemsNew
<1>3. added' \ removed' = (added \ removed) \cup {i}
  BY <1>1, <1>2
<1>4. profile' = [profile EXCEPT !.list = Append(profile.list, NewItem(i)), !.version = @ + 1]
  BY DEF SaveAdded
<1>5. /\ profile'.list = Append(profile.list, NewItem(i))
      /\ profile'.version = profile.version + 1
      /\ profile'.balance = profile.balance
  BY <1>1, <1>4 DEF Profile
<1>6. ListKept(profile'.list, added' \ removed')
  BY <1>1, <1>3, <1>5, KeptAppended DEF AccountsHold
<1>7. Advances(profile, profile') /\ profile'.balance = credited'
  BY <1>2, <1>5 DEF Advances
<1> QED
  BY <1>1, <1>2, <1>6, <1>7, Answering

LEMMA UpdatedAccounted ==
  ASSUME ProfileInv, ProfileInv', AccountsHold, NEW r \in Slots, SaveUpdated(r)
  PROVE  AccountsHold'
<1>1. profile \in Profile
  BY DEF ProfileInv, ProfileTypeOK
<1>2. /\ AnswerEdit(r) /\ added' = added /\ removed' = removed /\ credited' = credited
      /\ removed \subseteq added /\ profile.balance = credited
      /\ ListKept(profile.list, added \ removed)
  BY DEF SaveUpdated, AccountsHold, ItemsNew
<1>3. profile' = [profile EXCEPT !.version = @ + 1] \/ profile' = profile
  BY DEF SaveUpdated
<1>4. /\ profile'.list = profile.list /\ profile'.balance = profile.balance
      /\ profile'.version = profile.version + 1 \/ profile'.version = profile.version
  BY <1>1, <1>3 DEF Profile
<1> QED
  BY <1>2, <1>4, Answering DEF Advances

\* The text that is written is the one that the element has.
LEMMA ChangedAccounted ==
  ASSUME ProfileInv, ProfileInv', AccountsHold, NEW r \in Slots, SaveChanged(r)
  PROVE  AccountsHold'
<1> DEFINE q == edit[r]
<1>1. profile \in Profile /\ profile.list \in Seq(Item)
  BY DEF ProfileInv, ProfileTypeOK, Profile
<1>2. /\ AnswerEdit(r) /\ added' = added /\ removed' = removed /\ credited' = credited
      /\ removed \subseteq added /\ profile.balance = credited
      /\ ListKept(profile.list, added \ removed)
  BY DEF SaveChanged, AccountsHold, ItemsNew
<1>3. profile' = profile
  <2>1. CASE Savable(q) /\ q.index \in DOMAIN profile.list
    <3>1. q.loaded.list = profile.list
      BY <2>1 DEF SaveChanged, AccountsHold, LoadedHolds, Savable
    <3>2. q.loaded.list[q.index].id = profile.list[q.index].text
      BY <1>2, <2>1, <3>1 DEF ListKept, OwnTexts
    <3>3. profile.list[q.index].text \in Items
      BY <1>1, <2>1, ListPlaces
    <3>4. [profile.list EXCEPT ![q.index].text = q.loaded.list[q.index].id] = profile.list
      BY <1>1, <2>1, <3>2, <3>3, TextProperties
    <3>5. profile' = [profile EXCEPT !.list =
                        [profile.list EXCEPT ![q.index].text = q.loaded.list[q.index].id]]
      BY <2>1 DEF SaveChanged
    <3> QED
      BY <1>1, <3>4, <3>5 DEF Profile
  <2>2. CASE ~(Savable(q) /\ q.index \in DOMAIN profile.list)
    BY <2>2 DEF SaveChanged
  <2> QED
    BY <2>1, <2>2
<1>4. Advances(profile, profile')
  BY <1>3 DEF Advances
<1> QED
  BY <1>2, <1>3, <1>4, Answering

LEMMA RemovedAccounted ==
  ASSUME ProfileInv, ProfileInv', AccountsHold, NEW r \in Slots, SaveRemoved(r)
  PROVE  AccountsHold'
<1> DEFINE q == edit[r]
           i == q.loaded.list[q.index].id
<1>1. /\ profile \in Profile /\ profile.list \in Seq(Item)
      /\ q.index \in DOMAIN q.loaded.list
  BY DEF SaveRemoved, ProfileInv, ProfileTypeOK, EditsIndexed, Indexed, Profile
<1>2. /\ AnswerEdit(r) /\ added' = added /\ credited' = credited
      /\ removed \subseteq added /\ profile.balance = credited
      /\ ListKept(profile.list, added \ removed)
  BY DEF SaveRemoved, AccountsHold, ItemsNew
<1>3. CASE Savable(q)
  <2>1. q.loaded.list = profile.list
    BY <1>3 DEF SaveRemoved, AccountsHold, LoadedHolds, Savable
  <2>2. /\ profile' = [profile EXCEPT !.list = Lists!RemoveAt(profile.list, q.index),
                                      !.version = @ + 1]
        /\ removed' = removed \cup {i}
    BY <1>3, <2>1 DEF SaveRemoved
  <2>3. /\ profile'.list = Lists!RemoveAt(profile.list, q.index)
        /\ profile'.version = profile.version + 1
        /\ profile'.balance = profile.balance
    BY <1>1, <2>2 DEF Profile
  <2>4. i \in added \ removed /\ ListKept(profile'.list, (added \ removed) \ {i})
    <3>1. q.index \in DOMAIN profile.list /\ i = profile.list[q.index].id
      BY <1>1, <2>1
    <3>2. /\ i \in added \ removed
          /\ ListKept(Lists!RemoveAt(profile.list, q.index), (added \ removed) \ {i})
      BY <1>1, <1>2, <3>1, KeptRemoved, Zenon
    <3> QED
      BY <2>3, <3>2
  <2>5. (added \ removed) \ {i} = added' \ removed' /\ removed' \subseteq added'
    BY <1>2, <2>2, <2>4
  <2>6. Advances(profile, profile')
    BY <2>3 DEF Advances
  <2> QED
    BY <1>2, <2>3, <2>4, <2>5, <2>6, Answering
<1>4. CASE ~Savable(q)
  <2>1. profile' = profile /\ removed' = removed
    BY <1>4 DEF SaveRemoved
  <2> QED
    BY <1>2, <2>1, Answering DEF Advances
<1> QED
  BY <1>3, <1>4

LEMMA CreditAccounted ==
  ASSUME ProfileInv, ProfileInv', AccountsHold, Credit
  PROVE  AccountsHold'
<1>1. profile \in Profile /\ profile' \in Profile /\ edit \in [Slots -> Edit]
  BY DEF ProfileInv, ProfileTypeOK, Edit
<1>2. /\ profile'.list = profile.list /\ profile'.version = profile.version
      /\ profile'.balance = profile.balance + 1
      /\ edit' = edit /\ added' = added /\ removed' = removed /\ credited' = credited + 1
  BY <1>1 DEF Credit, Profile
<1>3. Advances(profile, profile')
  BY <1>2 DEF Advances
<1>4. \A s \in Slots : LoadedHolds(edit'[s], profile')
  BY <1>1, <1>2, <1>3, LoadedAdvances DEF AccountsHold
<1>5. ItemsNew'
  BY <1>2 DEF AccountsHold, ItemsNew
<1> QED
  BY <1>2, <1>3, <1>4, <1>5 DEF AccountsHold

LEMMA AccountedInit == ProfileInit => AccountsHold
<1> SUFFICES ASSUME ProfileInit PROVE AccountsHold
  OBVIOUS
<1>1. profile = NewProfile /\ NewProfile \in Profile /\ added \ removed = {} /\ credited = 0
  BY NewProfileTyped DEF ProfileInit
<1>2. ListKept(profile.list, added \ removed) /\ profile.balance = credited
  BY <1>1, EmptyKept DEF NewProfile
<1>3. \A r \in Slots : edit[r] = NoEdit
  BY DEF ProfileInit
<1>4. ItemsNew
  BY <1>3 DEF ProfileInit, ItemsNew, NoEdit
<1>5. \A r \in Slots : LoadedHolds(edit[r], profile)
  BY <1>1, <1>3, NoEditLoaded
<1> QED
  BY <1>2, <1>4, <1>5 DEF AccountsHold

LEMMA AccountedStep ==
  ProfileInv /\ ProfileInv' /\ AccountsHold /\ [ProfileNext]_profileVars => AccountsHold'
<1> SUFFICES ASSUME ProfileInv, ProfileInv', AccountsHold, [ProfileNext]_profileVars
             PROVE  AccountsHold'
  OBVIOUS
<1>1. ASSUME NEW r \in Slots, NEW i \in Items, StartAdding(r, i) PROVE AccountsHold'
  BY <1>1, StartAccounted DEF StartAdding
<1>2. ASSUME NEW r \in Slots, StartUpdating(r) PROVE AccountsHold'
  BY <1>2, StartAccounted DEF StartUpdating
<1>3. ASSUME NEW r \in Slots, NEW k \in DOMAIN profile.list, NEW stage \in {"change", "remove"},
             StartChanging(r, k, stage)
      PROVE  AccountsHold'
  <2>1. k \in Nat
    BY ListPlaces DEF ProfileInv, ProfileTypeOK, Profile
  <2> QED
    BY <1>3, <2>1, StartAccounted DEF StartChanging
<1>4. ASSUME NEW r \in Slots, FailEdit(r) PROVE AccountsHold'
  <2>1. profile' = profile /\ added' = added /\ removed' = removed /\ credited' = credited
        /\ AnswerEdit(r)
    BY <1>4 DEF FailEdit
  <2>2. Advances(profile, profile')
    BY <2>1 DEF Advances
  <2>3. ListKept(profile.list, added \ removed) /\ profile.balance = credited
        /\ removed \subseteq added
    BY DEF AccountsHold, ItemsNew
  <2> QED
    BY <2>1, <2>2, <2>3, Answering
<1>5. CASE UNCHANGED profileVars
  BY <1>5 DEF profileVars, AccountsHold, ItemsNew
<1> QED
  BY <1>1, <1>2, <1>3, <1>4, <1>5, AddedAccounted, UpdatedAccounted, ChangedAccounted,
     RemovedAccounted, CreditAccounted DEF ProfileNext

\* Concurrent edits of freelancerData lose no item, revive none, mix no
\* two texts and leave the balance to the credits, for any number of edits in
\* flight (users.service.ts, saves conditional on Mongoose's __v).
THEOREM ItemsAreAccounted == ProfileSpec => []ItemsAccounted
<1>1. ProfileSpec => []ProfileInv
  BY ProfileInitTyped, ProfileKeeps, PTL DEF ProfileSpec
<1>2. ProfileSpec => []AccountsHold
  BY <1>1, AccountedInit, AccountedStep, PTL DEF ProfileSpec
<1>3. AccountsHold => ItemsAccounted
  BY Zenon DEF AccountsHold, ListKept, Ids, OwnTexts, ItemsAccounted
<1> QED
  BY <1>2, <1>3, PTL

-----------------------------------------------------------------------------
(***************************************************************************)
(* The composition.  MCMarketplace runs the components side by side and    *)
(* its run checks their properties on what each does there; here the steps *)
(* of the composition are mapped to steps of its components, one by one.   *)
(* A step of one component leaves the documents of the others alone; only  *)
(* the count of errors is shared, so a component that counts errors sees   *)
(* its own steps only in the behaviours that follow it, and in the others  *)
(* its documents stay as they were.                                        *)
(***************************************************************************)
LEMMA FormationMaps == FormationStep => Next /\ NotFormation
BY DEF FormationStep, Next, Begin, Step

LEMMA DisputesMap == DisputeStep => followed = "disputes" /\ DisputesNext /\ NotDisputes
<1> SUFFICES ASSUME DisputeStep PROVE followed = "disputes" /\ DisputesNext /\ NotDisputes
  OBVIOUS
<1> QED
  BY DEF DisputeStep, DisputesNext

LEMMA MessagesMap == MessageStep => followed = "messages" /\ MessagingNext /\ NotMessaging
BY DEF MessageStep, MessagingNext

LEMMA GatewayMaps == GatewayStep => GatewayNext /\ NotGateway
BY DEF GatewayStep, GatewayNext

LEMMA NotificationsMap ==
  NotificationStep => followed = "notifications" /\ NotificationsNext /\ NotNotifications
BY MarketplaceAssumption DEF NotificationStep, NotificationsNext

LEMMA ProfileMaps == ProfileStep => ProfileNext /\ NotProfile
BY DEF ProfileStep, ProfileNext

\* What a step of the composition is for each of the components.
LEMMA EveryStepMaps ==
  ASSUME [MarketplaceNext]_marketplaceVars
  PROVE  /\ followed' = followed
         /\ [Next]_vars /\ [GatewayNext]_gatewayVars /\ [ProfileNext]_profileVars
         /\ followed = "disputes" => [DisputesNext]_disputeVars
         /\ followed # "disputes" => UNCHANGED disputeDocs
         /\ followed = "messages" => [MessagingNext]_messagingVars
         /\ followed # "messages" => UNCHANGED messageDocs
         /\ followed = "notifications" => [NotificationsNext]_notificationVars
         /\ followed # "notifications" => UNCHANGED noticeDocs
<1>1. CASE FormationStep
  <2>1. Next /\ NotFormation /\ followed = "formation"
    BY <1>1, FormationMaps DEF FormationStep
  <2> QED
    BY <2>1 DEF NotFormation
<1>2. CASE DisputeStep
  <2>1. followed = "disputes" /\ DisputesNext /\ NotDisputes
    BY <1>2, DisputesMap
  <2> QED
    BY <2>1 DEF NotDisputes, formationVars
<1>3. CASE MessageStep
  <2>1. followed = "messages" /\ MessagingNext /\ NotMessaging
    BY <1>3, MessagesMap
  <2> QED
    BY <2>1 DEF NotMessaging, formationVars
<1>4. CASE GatewayStep
  <2>1. GatewayNext /\ NotGateway /\ followed = "gateway"
    BY <1>4, GatewayMaps DEF GatewayStep
  <2> QED
    BY <2>1 DEF NotGateway, formationVars
<1>5. CASE NotificationStep
  <2>1. followed = "notifications" /\ NotificationsNext /\ NotNotifications
    BY <1>5, NotificationsMap
  <2> QED
    BY <2>1 DEF NotNotifications, formationVars
<1>6. CASE ProfileStep
  <2>1. ProfileNext /\ NotProfile /\ followed = "profile"
    BY <1>6, ProfileMaps DEF ProfileStep
  <2> QED
    BY <2>1 DEF NotProfile, formationVars
<1>7. CASE UNCHANGED marketplaceVars
  BY <1>7
  DEF marketplaceVars, formationVars, disputeDocs, messageDocs, noticeDocs, disputeVars, messagingVars,
      notificationVars
<1> QED
  BY <1>1, <1>2, <1>3, <1>4, <1>5, <1>6, <1>7 DEF MarketplaceNext

LEMMA StartMaps ==
  MarketplaceInit => /\ Init /\ DisputesInit /\ MessagingInit /\ GatewayInit /\ NotificationsInit /\ ProfileInit
BY DEF MarketplaceInit

\* The composition implements every component it runs: the formation of
\* contracts, the messages gateway and the profile in all behaviours, and
\* disputes, conversations and notifications in those that follow them.
THEOREM MarketplaceComposes ==
  MarketplaceSpec =>
    /\ Spec /\ GatewaySpec /\ ProfileSpec
    /\ followed = "disputes" => DisputesSpec
    /\ followed = "messages" => MessagingSpec
    /\ followed = "notifications" => NotificationsSpec
<1>1. MarketplaceSpec => Spec /\ GatewaySpec /\ ProfileSpec
  <2>1. [MarketplaceNext]_marketplaceVars =>
          [Next]_vars /\ [GatewayNext]_gatewayVars /\ [ProfileNext]_profileVars
    BY EveryStepMaps
  <2> QED
    BY <2>1, StartMaps, PTL DEF MarketplaceSpec, Spec, GatewaySpec, ProfileSpec
<1>2. MarketplaceSpec => (followed = "disputes" => DisputesSpec)
  <2>1. followed = "disputes" /\ [MarketplaceNext]_marketplaceVars =>
          [DisputesNext]_disputeVars /\ (followed = "disputes")'
    BY EveryStepMaps
  <2> QED
    BY <2>1, StartMaps, PTL DEF MarketplaceSpec, DisputesSpec
<1>3. MarketplaceSpec => (followed = "messages" => MessagingSpec)
  <2>1. followed = "messages" /\ [MarketplaceNext]_marketplaceVars =>
          [MessagingNext]_messagingVars /\ (followed = "messages")'
    BY EveryStepMaps
  <2> QED
    BY <2>1, StartMaps, PTL DEF MarketplaceSpec, MessagingSpec
<1>4. MarketplaceSpec => (followed = "notifications" => NotificationsSpec)
  <2>1. followed = "notifications" /\ [MarketplaceNext]_marketplaceVars =>
          [NotificationsNext]_notificationVars /\ (followed = "notifications")'
    BY EveryStepMaps
  <2> QED
    BY <2>1, StartMaps, PTL DEF MarketplaceSpec, NotificationsSpec
<1> QED
  BY <1>1, <1>2, <1>3, <1>4

(***************************************************************************)
(* Where the documents of a component stay as they were, whatever errors   *)
(* the others count, its invariant stays.                                  *)
(***************************************************************************)
LEMMA DisputesRest == DisputesInv /\ UNCHANGED disputeDocs => DisputesInv'
<1> SUFFICES ASSUME DisputesInv, UNCHANGED disputeDocs PROVE DisputesInv'
  OBVIOUS
<1>1. UNCHANGED <<status, dispute, action, abandoned>>
  BY DEF disputeDocs
<1>2. DisputesTypeOK' /\ Grounded' /\ RisingIsContested'
  BY <1>1 DEF DisputesInv, DisputesTypeOK, Grounded, GroundedAction, RisingIsContested, Exists
<1>3. DisputedIsContested'
  BY <1>1 DEF DisputesInv, DisputedIsContested, Contested, Restoring, Exists
<1> QED
  BY <1>2, <1>3 DEF DisputesInv

LEMMA MessagesRest ==
  MessagesInv /\ CountersInv /\ UNCHANGED messageDocs => MessagesInv' /\ CountersInv'
<1> SUFFICES ASSUME MessagesInv, CountersInv, UNCHANGED messageDocs PROVE MessagesInv' /\ CountersInv'
  OBVIOUS
<1>1. UNCHANGED <<topic, unread, message, task, disturbed>>
  BY DEF messageDocs
<1>2. MessagesInv'
  BY <1>1 DEF MessagesInv, MessagingTypeOK, TasksHold
<1>3. ASSUME NEW c \in Conversations, NEW side \in Sides PROVE CounterInv(c, side)'
  <2>1. Apart(c, side)
    BY <1>1 DEF Apart, Working, UnreadMessages, IsUnread
  <2> QED
    BY <2>1, ApartKeeps DEF CountersInv
<1> QED
  BY <1>2, <1>3 DEF CountersInv

LEMMA NoticesRest ==
  EntriesInv /\ NoneMissing /\ UNCHANGED noticeDocs => EntriesInv' /\ NoneMissing'
<1> SUFFICES ASSUME EntriesInv, NoneMissing, UNCHANGED noticeDocs PROVE EntriesInv' /\ NoneMissing'
  OBVIOUS
<1>1. UNCHANGED <<socket, connectedClients, notice, shown>>
  BY DEF noticeDocs
<1>2. EntriesInv'
  BY <1>1 DEF EntriesInv, NotificationsTypeOK, EntriesAreConnected
<1>3. NoneMissing'
  BY <1>1 DEF NoneMissing, Missing
<1> QED
  BY <1>2, <1>3

\* No component counts more errors than the bound.
LEMMA ErrorsStep == ErrorsOK /\ [MarketplaceNext]_marketplaceVars => ErrorsOK'
<1> SUFFICES ASSUME ErrorsOK, [MarketplaceNext]_marketplaceVars PROVE UNCHANGED errors \/ AnError
  BY DEF ErrorsOK, AnError
<1>1. CASE FormationStep
  BY <1>1, FormationMaps DEF NotFormation
<1>2. CASE DisputeStep
  BY <1>2, DisputesMap
  DEF DisputesNext, CreateDispute, LeaveContract, ResolveDispute, EscalateDispute, CloseDispute, InsertDispute,
      ContestContract, WriteResolved, WriteClosed, RestoreContract, WriteEscalated, WriteLeft, FailDispute,
      UpdateDisputeStatus, SetContract
<1>3. CASE MessageStep
  BY <1>3, MessagesMap
  DEF MessagingNext, CreateMessage, SendMessage, MarkMessagesAsRead, CreateConversation, InsertMessage,
      CountMessage, MarkMessages, ClearCounter, FailTask
<1>4. CASE GatewayStep
  BY <1>4, GatewayMaps DEF NotGateway
<1>5. CASE NotificationStep
  BY <1>5, NotificationsMap
  DEF NotificationsNext, HandleConnection, RefuseConnection, CountUnread, ListUnread, Greet, FailConnecting,
      HandleDisconnect, CreateNotice, SendNotificationToUser, MarkAsRead, RemoveNotice, MarkAllAsRead,
      CleanupStaleConnections, RestartNotifications
<1>6. CASE ProfileStep
  BY <1>6, ProfileMaps DEF NotProfile
<1>7. CASE UNCHANGED marketplaceVars
  BY <1>7 DEF marketplaceVars
<1> QED
  BY <1>1, <1>2, <1>3, <1>4, <1>5, <1>6, <1>7 DEF MarketplaceNext

\* The invariants of the components that count errors, together.
ServicesInv ==
  /\ ErrorsOK
  /\ DisputesInv
  /\ MessagesInv /\ CountersInv
  /\ EntriesInv /\ NoneMissing

LEMMA ServicesInitially == MarketplaceInit => ServicesInv
<1> SUFFICES ASSUME MarketplaceInit PROVE ServicesInv
  OBVIOUS
<1>1. ErrorsOK
  BY StartMaps DEF DisputesInit, ErrorsOK
<1>2. NoneMissing
  BY StartMaps DEF NotificationsInit, NoneMissing, Missing
<1> QED
  BY <1>1, <1>2, StartMaps, DisputesInitially, MessagesInitially, CountersInitially, EntriesInitially
  DEF ServicesInv

LEMMA ServicesStep == ServicesInv /\ [MarketplaceNext]_marketplaceVars => ServicesInv'
<1> SUFFICES ASSUME ServicesInv, [MarketplaceNext]_marketplaceVars PROVE ServicesInv'
  OBVIOUS
<1> USE DEF ServicesInv
<1>1. ErrorsOK'
  BY ErrorsStep
<1>2. DisputesInv'
  BY EveryStepMaps, DisputesStep, DisputesRest
<1>3. MessagesInv'
  BY EveryStepMaps, MessagesStep, MessagesRest
<1>4. CountersInv'
  BY EveryStepMaps, CountersStep, MessagesRest
<1>5. EntriesInv'
  BY EveryStepMaps, EntriesStep, NoticesRest
<1>6. NoneMissing'
  BY <1>5, EveryStepMaps, MissingStep, NoticesRest
<1> QED
  BY <1>1, <1>2, <1>3, <1>4, <1>5, <1>6

LEMMA ServicesInvariant == MarketplaceSpec => []ServicesInv
BY ServicesInitially, ServicesStep, PTL DEF MarketplaceSpec

\* Beside each other, disputes, conversations, sockets, notices and a profile
\* keep the types of their variables and the shared count of errors its bound.
THEOREM ServicesKeepTypes == MarketplaceSpec => []ServicesTypeOK
<1>1. ServicesInv /\ GatewayTypeOK /\ ProfileTypeOK => ServicesTypeOK
  BY DEF ServicesInv, DisputesInv, MessagesInv, EntriesInv, ServicesTypeOK
<1> QED
  BY <1>1, ServicesInvariant, MarketplaceComposes, GatewayTypeCorrect, ProfileTypeCorrect, PTL

\* The invariants of the single components that the composition is checked for.
MarketplaceOK ==
  /\ TypeOK /\ OneCreator /\ ContractedJobIsClaimed /\ DeletedIsNotContracted
  /\ DisputedIsContested /\ CountersHold /\ EntriesAreConnected /\ NothingMissed
  /\ OnlineIsConnected /\ ItemsAccounted

\* What is proved of each component alone holds in the composition: no request,
\* socket or edit of one component takes away what another one keeps.
THEOREM MarketplaceKeepsComponents == MarketplaceSpec => []MarketplaceOK /\ ContractIsForSelected
<1>1. ServicesInv => DisputedIsContested /\ CountersHold /\ EntriesAreConnected /\ NothingMissed
  BY NoneMissingSuffices, CountersSuffice DEF ServicesInv, DisputesInv, EntriesInv
<1> QED
  BY <1>1, ServicesInvariant, MarketplaceComposes, TypeCorrect, OneCreatorAtATime,
     ContractedJobsStayClaimed, DeletedNeverContracted, ContractsAreForSelected,
     OnlineUsersAreConnected, ItemsAreAccounted, PTL
  DEF MarketplaceOK
=============================================================================

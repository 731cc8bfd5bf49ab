---------------------------- MODULE Notifications ----------------------------
(***************************************************************************)
(* Stored notifications and the sockets they are pushed to                 *)
(* (src/modules/notifications).  A user has at most one socket, the entry  *)
(* of connectedClients: a new socket disconnects the one before it.  A     *)
(* socket is shown what is unread when it connects; later notices are      *)
(* stored and, by a login, also pushed to the entry of their user.         *)
(***************************************************************************)
EXTENDS Services

CONSTANT Notices     \* ids of notification documents

VARIABLES
    socket,             \* [stage, user] of every socket
    connectedClients,   \* the socket of each user, None without one
    notice,             \* the notification documents
    shown               \* the notices emitted to each socket

notificationVars == <<socket, connectedClients, notice, shown, errors>>

\* While it is connecting, a socket waits for the count and then for the list; the
\* database has answered the last of these when it is "greeting".
Live == {"counting", "listing", "greeting", "open"}

\* A notice is pushed after it was stored when the request that stored it goes on
\* to do so: the push is "due", then "done".
Notice == [user : Users, isRead : BOOLEAN, push : {"none", "due", "done"}]

NotificationsInit ==
    /\ socket = [s \in Sockets |-> [stage |-> "unused", user |-> None]]
    /\ connectedClients = [u \in Users |-> None]
    /\ notice = [n \in Notices |-> None]
    /\ shown = [s \in Sockets |-> {}]
    /\ errors = 0

-----------------------------------------------------------------------------
(* Sockets *)

IsLive(s) == s # None /\ socket[s].stage \in Live

\* handleDisconnect deletes the entry by the user, whichever socket it holds.
Disconnected(s) == [connectedClients EXCEPT ![socket[s].user] = None]
CloseSocket(s) ==
    /\ socket' = [socket EXCEPT ![s].stage = "closed"]
    /\ connectedClients' = Disconnected(s)

\* mutant: the new socket is entered before the old one is disconnected
EnterThenReplace(s, u) ==
    [connectedClients EXCEPT ![u] = IF IsLive(connectedClients[u]) THEN None ELSE s]

\* The disconnection of the old socket runs handleDisconnect before set.
EnterSocket(s, u) == [connectedClients EXCEPT ![u] = s]

\* handleConnection, up to the first await; verify is synchronous.
HandleConnection(s, u) ==
    /\ socket[s].stage = "unused"
    /\ socket' = [t \in Sockets |->
          IF t = s THEN [stage |-> "counting", user |-> u]
          ELSE [socket[t] EXCEPT !.stage = IF t = connectedClients[u] THEN "closed" ELSE @]]
    /\ connectedClients' = EnterSocket(s, u)
    /\ UNCHANGED <<notice, shown, errors>>

\* Without a token, or with one that names no user.
RefuseConnection(s) ==
    /\ socket[s].stage = "unused"
    /\ socket' = [socket EXCEPT ![s].stage = "closed"]
    /\ UNCHANGED <<connectedClients, notice, shown, errors>>

UnreadNotices(u) == {n \in Notices : notice[n] # None /\ notice[n].user = u /\ ~notice[n].isRead}

CountUnread(s) ==
    /\ socket[s].stage = "counting"
    /\ socket' = [socket EXCEPT ![s].stage = IF UnreadNotices(socket[s].user) = {} THEN "greeting" ELSE "listing"]
    /\ UNCHANGED <<connectedClients, notice, shown, errors>>

ListUnread(s) ==
    /\ socket[s].stage = "listing"
    /\ shown' = [shown EXCEPT ![s] = @ \cup UnreadNotices(socket[s].user)]
    /\ socket' = [socket EXCEPT ![s].stage = "greeting"]
    /\ UNCHANGED <<connectedClients, notice, errors>>

\* handleConnection resumes, sends what it has read and ends.
Greet(s) ==
    /\ socket[s].stage = "greeting"
    /\ socket' = [socket EXCEPT ![s].stage = "open"]
    /\ UNCHANGED <<connectedClients, notice, shown, errors>>

\* An error of the database disconnects the socket that is connecting.
FailConnecting(s) ==
    /\ socket[s].stage \in {"counting", "listing"}
    /\ AnError
    /\ CloseSocket(s)
    /\ UNCHANGED <<notice, shown>>

HandleDisconnect(s) ==
    /\ socket[s].stage \in Live
    /\ CloseSocket(s)
    /\ UNCHANGED <<notice, shown, errors>>

\* The interval of startConnectionHealthMonitoring, and testConnectionToUser.
CleanupStaleConnections ==
    /\ connectedClients' = [u \in Users |->
          IF IsLive(connectedClients[u]) THEN connectedClients[u] ELSE None]
    /\ UNCHANGED <<socket, notice, shown, errors>>

-----------------------------------------------------------------------------
(* Notices *)

\* create, by the notify operations; a login and the test route go on to push.
CreateNotice(n, u, push) ==
    /\ notice[n] = None
    /\ notice' = [notice EXCEPT ![n] = [user |-> u, isRead |-> FALSE, push |-> push]]
    /\ UNCHANGED <<socket, connectedClients, shown, errors>>

\* mutant: a socket that is still connecting is not pushed to
IfOpen(s) == IF s # None /\ socket[s].stage = "open" THEN {s} ELSE {}

Reachable(s) == IF IsLive(s) THEN {s} ELSE {}

\* sendNotificationToUser: an entry without a live socket is removed.
SendNotificationToUser(n) ==
    /\ notice[n] # None
    /\ notice[n].push = "due"
    /\ LET u == notice[n].user
       IN /\ shown' = [s \in Sockets |->
                IF s \in Reachable(connectedClients[u]) THEN shown[s] \cup {n} ELSE shown[s]]
          /\ connectedClients' = [connectedClients EXCEPT ![u] = IF IsLive(@) THEN @ ELSE None]
    /\ notice' = [notice EXCEPT ![n].push = "done"]
    /\ UNCHANGED <<socket, errors>>

MarkAsRead(n) ==
    /\ notice[n] # None
    /\ notice' = [notice EXCEPT ![n].isRead = TRUE]
    /\ UNCHANGED <<socket, connectedClients, shown, errors>>

MarkAllAsRead(u) ==
    /\ notice' = [n \in Notices |->
          IF n \in UnreadNotices(u) THEN [notice[n] EXCEPT !.isRead = TRUE] ELSE notice[n]]
    /\ UNCHANGED <<socket, connectedClients, shown, errors>>

\* A push that is due goes on with the document it holds: a removed notice
\* that is still to be pushed is left out.
RemoveNotice(n) ==
    /\ notice[n] # None
    /\ notice[n].push # "due"
    /\ notice' = [notice EXCEPT ![n] = None]
    /\ shown' = [s \in Sockets |-> shown[s] \ {n}]
    /\ UNCHANGED <<socket, connectedClients, errors>>

\* The process ends: sockets close, the map is gone, pushes are not made.
RestartNotifications ==
    /\ AnError
    /\ socket' = [s \in Sockets |->
          IF IsLive(s) THEN [socket[s] EXCEPT !.stage = "closed"] ELSE socket[s]]
    /\ connectedClients' = [u \in Users |-> None]
    /\ notice' = [n \in Notices |->
          IF notice[n] # None /\ notice[n].push = "due" THEN [notice[n] EXCEPT !.push = "none"] ELSE notice[n]]
    /\ UNCHANGED shown

NotificationsNext ==
    \/ \E s \in Sockets :
          \/ \E u \in Users : HandleConnection(s, u)
          \/ RefuseConnection(s) \/ CountUnread(s) \/ ListUnread(s) \/ Greet(s)
          \/ FailConnecting(s) \/ HandleDisconnect(s)
    \/ \E n \in Notices :
          \/ \E u \in Users, push \in {"none", "due"} : CreateNotice(n, u, push)
          \/ SendNotificationToUser(n) \/ MarkAsRead(n) \/ RemoveNotice(n)
    \/ \E u \in Users : MarkAllAsRead(u)
    \/ CleanupStaleConnections
    \/ RestartNotifications

NotificationsSpec == NotificationsInit /\ [][NotificationsNext]_notificationVars

-----------------------------------------------------------------------------
\* Every variable has its type: sockets, their map, notices and what was shown.
NotificationsTypeOK ==
    /\ socket \in [Sockets -> [stage : Live \cup {"unused", "closed"}, user : Users \cup {None}]]
    /\ connectedClients \in [Users -> Sockets \cup {None}]
    /\ notice \in [Notices -> Notice \cup {None}]
    /\ shown \in [Sockets -> SUBSET Notices]

\* The entry of a user is the one socket of that user which is connected, and
\* a connected socket is an entry: replacing, closing, failing and restarting in
\* any order neither loses the entry of a live socket nor keeps a dead one
\* (notifications.gateway.ts, where handleDisconnect deletes by the user id).
EntriesAreConnected ==
    \A u \in Users, s \in Sockets :
        connectedClients[u] = s <=> socket[s].user = u /\ socket[s].stage \in Live

\* Once its push was made, an unread notice of a login has been shown on the socket the
\* user has: what is stored before the socket counts is listed, what is stored
\* after is pushed, and none falls between (notifications.gateway.ts,
\* handleConnection and sendNotificationToUser).
NothingMissed ==
    \A n \in Notices :
        notice[n] # None => \/ notice[n].isRead
                            \/ notice[n].push # "done"
                            \/ LET s == connectedClients[notice[n].user]
                               IN s = None \/ socket[s].stage # "open" \/ n \in shown[s]

-----------------------------------------------------------------------------
\* Expected, and false of the code

\* Every unread notice was shown: false for the notices that are only stored,
\* of payments, contracts and milestones, while their user is connected.
EverythingShown ==
    \A n \in Notices :
        notice[n] # None => \/ notice[n].isRead
                            \/ LET s == connectedClients[notice[n].user]
                               IN s = None \/ socket[s].stage # "open" \/ n \in shown[s]
=============================================================================

--------------------------- MODULE GatewaysProofs ---------------------------
(***************************************************************************)
(* Proofs about the sockets of both gateways, for any number of users,     *)
(* sockets and notices: the maps by which the server finds the sockets of  *)
(* a user agree with the sockets, and no pushed notice is missed.          *)
(***************************************************************************)
EXTENDS MessagesGateway, Notifications, TLAPS

(***************************************************************************)
(* The messages gateway.  OnlineIsConnected is inductive with the types.   *)
(***************************************************************************)
GatewayInv == GatewayTypeOK /\ OnlineIsConnected

LEMMA GatewayInitially == GatewayInit => GatewayInv
BY DEF GatewayInit, GatewayInv, GatewayTypeOK, OnlineIsConnected, ClientStages

LEMMA GatewayKeeps == GatewayInv /\ [GatewayNext]_gatewayVars => GatewayInv'
<1> SUFFICES ASSUME GatewayInv, [GatewayNext]_gatewayVars PROVE GatewayInv'
  OBVIOUS
<1> USE DEF GatewayInv, GatewayTypeOK, OnlineIsConnected, ClientStages
<1>1. ASSUME NEW s \in Sockets, HandleMessagesConnection(s) PROVE GatewayInv'
  BY <1>1 DEF HandleMessagesConnection
<1>2. ASSUME NEW s \in Sockets, NEW u \in Users, Verified(s, u) PROVE GatewayInv'
  BY <1>2 DEF Verified
<1>3. ASSUME NEW s \in Sockets, NotVerified(s) PROVE GatewayInv'
  BY <1>3 DEF NotVerified
<1>4. ASSUME NEW s \in Sockets, HandleMessagesDisconnect(s) PROVE GatewayInv'
  BY <1>4 DEF HandleMessagesDisconnect, WithoutSocket
<1>5. CASE RestartGateway
  BY <1>5 DEF RestartGateway
<1>6. CASE UNCHANGED gatewayVars
  BY <1>6 DEF gatewayVars
<1> QED
  BY <1>1, <1>2, <1>3, <1>4, <1>5, <1>6 DEF GatewayNext

LEMMA GatewayInvariant == GatewaySpec => []GatewayInv
BY GatewayInitially, GatewayKeeps, PTL DEF GatewaySpec

\* The variables of the messages gateway keep their types.
THEOREM GatewayTypeCorrect == GatewaySpec => []GatewayTypeOK
BY GatewayInvariant, PTL DEF GatewayInv

\* In the order in which sockets connect, are verified, leave and lose the
\* server, a user is online with exactly the sockets verified for it that did
\* not close after that.
THEOREM OnlineUsersAreConnected == GatewaySpec => []OnlineIsConnected
BY GatewayInvariant, PTL DEF GatewayInv

(***************************************************************************)
(* The notifications gateway.                                              *)
(***************************************************************************)
EntriesInv == NotificationsTypeOK /\ EntriesAreConnected

LEMMA EntriesInitially == NotificationsInit => EntriesInv
BY ServicesAssumption
   DEF NotificationsInit, EntriesInv, NotificationsTypeOK, EntriesAreConnected, Live

\* Closing a connected socket removes the entry it is.
LEMMA Closing ==
  ASSUME EntriesInv, NEW s \in Sockets, socket[s].stage \in Live, CloseSocket(s), UNCHANGED <<notice, shown>>
  PROVE  EntriesInv'
<1> USE DEF EntriesInv, NotificationsTypeOK, CloseSocket, Disconnected
<1>1. socket[s].user \in Users \cup {None} /\ s # None
  BY ServicesAssumption
<1>2. NotificationsTypeOK'
  BY DEF Live
<1>3. ASSUME NEW u \in Users, NEW t \in Sockets
      PROVE  connectedClients'[u] = t <=> socket'[t].user = u /\ socket'[t].stage \in Live
  <2>1. connectedClients[u] = t <=> socket[t].user = u /\ socket[t].stage \in Live
    BY DEF EntriesAreConnected
  <2>2. connectedClients[u] = s <=> socket[s].user = u
    BY DEF EntriesAreConnected
  <2>3. connectedClients'[u] = IF socket[s].user = u THEN None ELSE connectedClients[u]
    OBVIOUS
  <2>4. /\ socket'[t].user = socket[t].user
        /\ t # s => socket'[t] = socket[t]
        /\ socket'[s].stage = "closed"
    OBVIOUS
  <2>5. t # None
    BY ServicesAssumption
  <2> QED
    BY <2>1, <2>2, <2>3, <2>4, <2>5 DEF Live
<1> QED
  BY <1>2, <1>3 DEF EntriesAreConnected

\* The socket that is replaced is the only one its user has.
LEMMA Replacing ==
  ASSUME EntriesInv, NEW s \in Sockets, NEW u \in Users, HandleConnection(s, u)
  PROVE  EntriesInv'
<1> USE DEF EntriesInv, NotificationsTypeOK, Live
<1>1. NotificationsTypeOK'
  BY ServicesAssumption DEF HandleConnection, EnterSocket
<1>2. EntriesAreConnected'
  BY ServicesAssumption DEF HandleConnection, EnterSocket, EntriesAreConnected
<1> QED
  BY <1>1, <1>2

\* A stage that goes on leaves the socket connected.
LEMMA Advancing ==
  ASSUME EntriesInv, NEW s \in Sockets, NEW stage \in Live, socket[s].stage \in Live,
         socket' = [socket EXCEPT ![s].stage = stage], UNCHANGED connectedClients
  PROVE  EntriesAreConnected' /\ socket' \in [Sockets -> [stage : Live \cup {"unused", "closed"}, user : Users \cup {None}]]
BY DEF EntriesInv, NotificationsTypeOK, EntriesAreConnected, Live

LEMMA EntriesStep == EntriesInv /\ [NotificationsNext]_notificationVars => EntriesInv'
<1> SUFFICES ASSUME EntriesInv, [NotificationsNext]_notificationVars PROVE EntriesInv'
  OBVIOUS
<1> USE DEF EntriesInv, NotificationsTypeOK
<1>1. ASSUME NEW s \in Sockets, NEW u \in Users, HandleConnection(s, u) PROVE EntriesInv'
  BY <1>1, Replacing
<1>2. ASSUME NEW s \in Sockets, RefuseConnection(s) PROVE EntriesInv'
  BY <1>2 DEF RefuseConnection, EntriesAreConnected, Live
<1>3. ASSUME NEW s \in Sockets, CountUnread(s) PROVE EntriesInv'
  <2>1. PICK stage \in {"greeting", "listing"} : socket' = [socket EXCEPT ![s].stage = stage]
    BY <1>3 DEF CountUnread
  <2> QED
    BY <1>3, <2>1, Advancing DEF CountUnread, Live
<1>4. ASSUME NEW s \in Sockets, ListUnread(s) PROVE EntriesInv'
  <2>1. shown' \in [Sockets -> SUBSET Notices]
    BY <1>4 DEF ListUnread, UnreadNotices
  <2> QED
    BY <1>4, <2>1, Advancing DEF ListUnread, Live
<1>5. ASSUME NEW s \in Sockets, Greet(s) PROVE EntriesInv'
  BY <1>5, Advancing DEF Greet, Live
<1>6. ASSUME NEW s \in Sockets, FailConnecting(s) PROVE EntriesInv'
  BY <1>6, Closing DEF FailConnecting, Live
<1>7. ASSUME NEW s \in Sockets, HandleDisconnect(s) PROVE EntriesInv'
  BY <1>7, Closing DEF HandleDisconnect
<1>8. CASE CleanupStaleConnections
  BY <1>8, ServicesAssumption DEF CleanupStaleConnections, IsLive, EntriesAreConnected
<1>9. ASSUME NEW n \in Notices, NEW u \in Users, NEW push \in {"none", "due"}, CreateNotice(n, u, push)
      PROVE EntriesInv'
  BY <1>9 DEF CreateNotice, EntriesAreConnected, Notice
<1>10. ASSUME NEW n \in Notices, SendNotificationToUser(n) PROVE EntriesInv'
  <2>1. notice[n].user \in Users
    BY <1>10, ServicesAssumption DEF SendNotificationToUser, Notice
  <2>2. connectedClients' = connectedClients
    BY <1>10, <2>1, ServicesAssumption DEF SendNotificationToUser, IsLive, EntriesAreConnected
  <2>3. /\ notice' \in [Notices -> Notice \cup {None}]
        /\ shown' \in [Sockets -> SUBSET Notices]
    BY <1>10 DEF SendNotificationToUser, Notice
  <2>4. socket' = socket
    BY <1>10 DEF SendNotificationToUser
  <2> QED
    BY <2>2, <2>3, <2>4 DEF EntriesAreConnected
<1>11. ASSUME NEW n \in Notices, MarkAsRead(n) PROVE EntriesInv'
  <2>1. notice[n] \in Notice
    BY <1>11 DEF MarkAsRead
  <2>2. notice' \in [Notices -> Notice \cup {None}]
    BY <1>11, <2>1 DEF MarkAsRead, Notice
  <2> QED
    BY <1>11, <2>2 DEF MarkAsRead, EntriesAreConnected
<1>12. ASSUME NEW u \in Users, MarkAllAsRead(u) PROVE EntriesInv'
  <2>1. ASSUME NEW n \in Notices PROVE notice'[n] \in Notice \cup {None}
    BY <1>12 DEF MarkAllAsRead, UnreadNotices, Notice
  <2>2. notice' \in [Notices -> Notice \cup {None}]
    BY <1>12, <2>1 DEF MarkAllAsRead
  <2> QED
    BY <1>12, <2>2 DEF MarkAllAsRead, EntriesAreConnected
<1>13. ASSUME NEW n \in Notices, RemoveNotice(n) PROVE EntriesInv'
  BY <1>13 DEF RemoveNotice, EntriesAreConnected
<1>14. CASE RestartNotifications
  BY <1>14, ServicesAssumption DEF RestartNotifications, IsLive, EntriesAreConnected, Notice, Live
<1>15. CASE UNCHANGED notificationVars
  BY <1>15 DEF notificationVars, EntriesAreConnected
<1> QED
  BY <1>1, <1>2, <1>3, <1>4, <1>5, <1>6, <1>7, <1>8, <1>9, <1>10, <1>11, <1>12, <1>13, <1>14, <1>15
     DEF NotificationsNext

LEMMA EntriesInvariant == NotificationsSpec => []EntriesInv
BY EntriesInitially, EntriesStep, PTL DEF NotificationsSpec

\* The variables of the notifications gateway keep their types.
THEOREM NotificationsTypeCorrect == NotificationsSpec => []NotificationsTypeOK
BY EntriesInvariant, PTL DEF EntriesInv

\* However sockets replace each other, fail, close and are cleaned up, the
\* entry of a user is its connected socket.
THEOREM EntriesStayConnected == NotificationsSpec => []EntriesAreConnected
BY EntriesInvariant, PTL DEF EntriesInv

(***************************************************************************)
(* What a socket was shown.  A socket that has read the unread notices, or *)
(* their count of none, is already up to date while it is greeting.        *)
(***************************************************************************)
Informed == {"greeting", "open"}

Missing(n, s) ==
    /\ notice[n] # None
    /\ ~notice[n].isRead
    /\ notice[n].push = "done"
    /\ connectedClients[notice[n].user] = s
    /\ socket[s].stage \in Informed
    /\ n \notin shown[s]

NoneMissing == \A n \in Notices, s \in Sockets : ~Missing(n, s)

LEMMA NoneMissingSuffices == EntriesInv /\ NoneMissing => NothingMissed
BY ServicesAssumption
   DEF EntriesInv, NotificationsTypeOK, NoneMissing, Missing, NothingMissed, Informed, Notice

LEMMA MissingStep ==
  EntriesInv /\ EntriesInv' /\ NoneMissing /\ [NotificationsNext]_notificationVars => NoneMissing'
<1> SUFFICES ASSUME EntriesInv, EntriesInv', NoneMissing, [NotificationsNext]_notificationVars,
                    NEW n \in Notices, NEW s \in Sockets, Missing(n, s)'
             PROVE  FALSE
  BY DEF NoneMissing
<1> USE DEF EntriesInv, NotificationsTypeOK
<1>0. ~Missing(n, s)
  BY DEF NoneMissing
<1>a. /\ notice'[n] \in Notice /\ notice'[n] # None
      /\ ~notice'[n].isRead /\ notice'[n].push = "done" /\ notice'[n].user \in Users
      /\ connectedClients'[notice'[n].user] = s
      /\ socket'[s].stage \in Informed
      /\ n \notin shown'[s]
  BY DEF Missing, Notice
<1>1. ASSUME NEW t \in Sockets, NEW u \in Users, HandleConnection(t, u) PROVE FALSE
  BY <1>0, <1>1, <1>a, ServicesAssumption DEF HandleConnection, EnterSocket, Missing, Informed
<1>2. ASSUME NEW t \in Sockets, RefuseConnection(t) PROVE FALSE
  BY <1>0, <1>2, <1>a DEF RefuseConnection, Missing, Informed
<1>3. ASSUME NEW t \in Sockets, CountUnread(t) PROVE FALSE
  <2>1. t = s /\ socket[s].stage = "counting" /\ UnreadNotices(socket[s].user) = {}
    BY <1>0, <1>3, <1>a DEF CountUnread, Missing, Informed
  <2>2. socket[s].user = notice[n].user
    BY <1>3, <1>a, ServicesAssumption DEF CountUnread, EntriesAreConnected
  <2>3. QED
    <3>1. notice[n] = notice'[n]
      BY <1>3 DEF CountUnread
    <3>2. n \in UnreadNotices(socket[s].user)
      BY <1>a, <2>2, <3>1, ServicesAssumption DEF UnreadNotices, Notice
    <3> QED
      BY <2>1, <3>2
<1>4. ASSUME NEW t \in Sockets, ListUnread(t) PROVE FALSE
  <2>1. t = s
    BY <1>0, <1>4, <1>a DEF ListUnread, Missing, Informed
  <2>2. socket[s].user = notice[n].user
    BY <1>4, <1>a, ServicesAssumption DEF ListUnread, EntriesAreConnected
  <2>3. QED
    <3>1. notice[n] = notice'[n]
      BY <1>4 DEF ListUnread
    <3>2. n \in UnreadNotices(socket[s].user)
      BY <1>a, <2>2, <3>1, ServicesAssumption DEF UnreadNotices, Notice
    <3>3. UnreadNotices(socket[s].user) \subseteq shown'[s]
      BY <1>4, <2>1 DEF ListUnread
    <3> QED
      BY <1>a, <3>2, <3>3
<1>5. ASSUME NEW t \in Sockets, Greet(t) PROVE FALSE
  BY <1>0, <1>5, <1>a DEF Greet, Missing, Informed
<1>6. ASSUME NEW t \in Sockets, CloseSocket(t), UNCHANGED <<notice, shown>> PROVE FALSE
  BY <1>0, <1>6, <1>a, ServicesAssumption DEF CloseSocket, Disconnected, Missing, Informed
<1>8. CASE CleanupStaleConnections
  BY <1>0, <1>8, <1>a, ServicesAssumption DEF CleanupStaleConnections, Missing
<1>9. ASSUME NEW m \in Notices, NEW u \in Users, NEW push \in {"none", "due"}, CreateNotice(m, u, push)
      PROVE FALSE
  BY <1>0, <1>9, <1>a DEF CreateNotice, Missing
<1>10. ASSUME NEW m \in Notices, SendNotificationToUser(m) PROVE FALSE
  <2>1. CASE m = n
    <3>1. notice'[n].user = notice[n].user
      BY <1>10, <2>1, ServicesAssumption DEF SendNotificationToUser, Notice
    <3>2. IsLive(s)
      BY <1>10, <1>a, ServicesAssumption DEF SendNotificationToUser, IsLive, Informed, Live
    <3>3. connectedClients[notice[n].user] = s
      BY <1>10, <1>a, <2>1, <3>1, ServicesAssumption DEF SendNotificationToUser
    <3> QED
      BY <1>10, <1>a, <2>1, <3>2, <3>3 DEF SendNotificationToUser, Reachable
  <2>2. CASE m # n
    <3>1. notice'[n] = notice[n] /\ socket' = socket /\ n \notin shown[s]
      BY <1>10, <1>a, <2>2 DEF SendNotificationToUser
    <3>2. connectedClients[notice[n].user] = s
      BY <1>10, <1>a, <3>1, ServicesAssumption DEF SendNotificationToUser
    <3> QED
      BY <1>0, <1>a, <3>1, <3>2, ServicesAssumption DEF Missing, Notice
  <2> QED
    BY <2>1, <2>2
<1>11. ASSUME NEW m \in Notices, MarkAsRead(m) PROVE FALSE
  BY <1>0, <1>11, <1>a DEF MarkAsRead, Missing, Notice
<1>12. ASSUME NEW u \in Users, MarkAllAsRead(u) PROVE FALSE
  BY <1>0, <1>12, <1>a DEF MarkAllAsRead, Missing, Notice
<1>13. ASSUME NEW m \in Notices, RemoveNotice(m) PROVE FALSE
  BY <1>0, <1>13, <1>a, ServicesAssumption DEF RemoveNotice, Missing
<1>14. CASE RestartNotifications
  BY <1>14, <1>a, ServicesAssumption DEF RestartNotifications
<1>15. CASE UNCHANGED notificationVars
  BY <1>0, <1>15, <1>a, ServicesAssumption DEF notificationVars, Missing, Notice
<1> QED
  BY <1>1, <1>2, <1>3, <1>4, <1>5, <1>6, <1>8, <1>9, <1>10, <1>11, <1>12, <1>13, <1>14, <1>15
     DEF NotificationsNext, FailConnecting, HandleDisconnect

\* However logins, connections and readings interleave, what was pushed while
\* its user's socket connected has been shown on it.
THEOREM NoNoticeIsMissed == NotificationsSpec => []NothingMissed
<1>1. NotificationsInit => NoneMissing
  BY DEF NotificationsInit, NoneMissing, Missing
<1> QED
  BY <1>1, EntriesInvariant, MissingStep, NoneMissingSuffices, PTL DEF NotificationsSpec
=============================================================================

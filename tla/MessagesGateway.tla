--------------------------- MODULE MessagesGateway ---------------------------
(***************************************************************************)
(* The sockets of the messages gateway (src/modules/messages/              *)
(* messages.gateway.ts) and userSocketMap, the set of sockets by which     *)
(* isUserOnline answers.  A connection is registered after the token was   *)
(* verified, which is awaited: the socket may be gone by then.             *)
(***************************************************************************)
EXTENDS Services

VARIABLES
    client,         \* what the gateway knows of a socket: its stage and its client.data.userId
    userSocketMap

gatewayVars == <<client, userSocketMap>>

\* A socket is unused, "verifying" its token, "open", "left" while its token
\* was still being verified, "leaked" when it was registered after that, or "closed".
ClientStages == {"unused", "verifying", "open", "left", "leaked", "closed"}

GatewayInit ==
    /\ client = [s \in Sockets |-> [stage |-> "unused", user |-> {}]]
    /\ userSocketMap = [u \in Users |-> {}]

\* handleConnection: a socket without a token is disconnected at once.
HandleMessagesConnection(s) ==
    /\ client[s].stage = "unused"
    /\ \E stage \in {"verifying", "closed"} : client' = [client EXCEPT ![s].stage = stage]
    /\ UNCHANGED userSocketMap

\* ... and after verifyAsync, whether or not the socket is still there.
Verified(s, u) ==
    /\ client[s].stage \in {"verifying", "left"}
    /\ client' = [client EXCEPT ![s] =
          [stage |-> IF client[s].stage = "left" THEN "leaked" ELSE "open", user |-> {u}]]
    /\ userSocketMap' = [userSocketMap EXCEPT ![u] = @ \cup {s}]

NotVerified(s) ==
    /\ client[s].stage \in {"verifying", "left"}
    /\ client' = [client EXCEPT ![s].stage = "closed"]
    /\ UNCHANGED userSocketMap

\* mutant: the entry of the user goes with any socket
WithoutUser(s) == [u \in Users |-> IF u \in client[s].user THEN {} ELSE userSocketMap[u]]

WithoutSocket(s) ==
    [u \in Users |-> IF u \in client[s].user THEN userSocketMap[u] \ {s} ELSE userSocketMap[u]]

\* handleDisconnect, which knows the user only when the socket was registered.
HandleMessagesDisconnect(s) ==
    /\ client[s].stage \in {"verifying", "open"}
    /\ client' = [client EXCEPT ![s].stage = IF @ = "verifying" THEN "left" ELSE "closed"]
    /\ userSocketMap' = WithoutSocket(s)

\* The process ends: sockets close, the map is gone.
RestartGateway ==
    /\ client' = [s \in Sockets |->
          IF client[s].stage = "unused" THEN client[s] ELSE [stage |-> "closed", user |-> {}]]
    /\ userSocketMap' = [u \in Users |-> {}]

GatewayNext ==
    \/ \E s \in Sockets : HandleMessagesConnection(s) \/ NotVerified(s) \/ HandleMessagesDisconnect(s)
    \/ \E s \in Sockets, u \in Users : Verified(s, u)
    \/ RestartGateway

GatewaySpec == GatewayInit /\ [][GatewayNext]_gatewayVars

GatewayTypeOK ==
    /\ client \in [Sockets -> [stage : ClientStages, user : SUBSET Users]]
    /\ userSocketMap \in [Users -> SUBSET Sockets]

\* A user counts as online with exactly the open sockets that user verified,
\* and those that left while their token was verified: closing one window never
\* makes the others' user offline, and a socket is never counted for two users
\* (messages.gateway.ts, handleConnection and handleDisconnect).
OnlineIsConnected ==
    \A u \in Users :
        userSocketMap[u] = {s \in Sockets : u \in client[s].user /\ client[s].stage \in {"open", "leaked"}}

-----------------------------------------------------------------------------
\* Expected, and false of the code

\* Only connected sockets count: false for a socket that disconnects while its
\* token is verified, which stays in the map until the process ends.
OnlyOpenCounts == \A u \in Users : \A s \in userSocketMap[u] : client[s].stage = "open"
=============================================================================

---------------------------- MODULE MCMarketplace ----------------------------
(***************************************************************************)
(* A small instance of what surrounds the money: the formation of a        *)
(* contract, disputes, conversations, notifications and a freelancer's     *)
(* profile, in one process.  They share no document and no step of one     *)
(* depends on another, so all of them interleaved satisfy what each does   *)
(* alone: a behaviour follows one of them, and TLC need not multiply their *)
(* states.                                                                 *)
(***************************************************************************)
EXTENDS MCContractFormation, Disputes, Messaging, MessagesGateway, Notifications, FreelancerProfile

CONSTANTS ann, bob, t1

ASSUME MarketplaceAssumption == {ann, bob} \subseteq Users

AnnIsClient == t1 :> ann
BobIsFreelancer == t1 :> bob

\* The component a behaviour follows.
VARIABLE followed

formationVars == vars
disputeDocs == <<status, dispute, action, abandoned>>
messageDocs == <<topic, unread, message, task, disturbed>>
noticeDocs == <<socket, connectedClients, notice, shown>>
marketplaceVars ==
    <<followed, formationVars, disputeDocs, messageDocs, gatewayVars, noticeDocs, profileVars, errors>>

MarketplaceInit ==
    /\ followed \in {"formation", "disputes", "messages", "gateway", "notifications", "profile"}
    /\ Init /\ DisputesInit /\ MessagingInit /\ GatewayInit /\ NotificationsInit /\ ProfileInit
    /\ followed = "disputes" \/ \A k \in Contracts : status[k] = "active"

\* What a step of one component leaves alone.
NotFormation ==
    UNCHANGED <<followed, disputeDocs, messageDocs, gatewayVars, noticeDocs, profileVars, errors>>
NotDisputes == UNCHANGED <<followed, formationVars, messageDocs, gatewayVars, noticeDocs, profileVars>>
NotMessaging == UNCHANGED <<followed, formationVars, disputeDocs, gatewayVars, noticeDocs, profileVars>>
NotGateway ==
    UNCHANGED <<followed, formationVars, disputeDocs, messageDocs, noticeDocs, profileVars, errors>>
NotNotifications ==
    UNCHANGED <<followed, formationVars, disputeDocs, messageDocs, gatewayVars, profileVars>>
NotProfile ==
    UNCHANGED <<followed, formationVars, disputeDocs, messageDocs, gatewayVars, noticeDocs, errors>>

FormationStep ==
    /\ followed = "formation"
    /\ \/ ExpireJob /\ NotFormation
       \/ AdvanceJob /\ NotFormation
       \/ \E r \in Requests :
             \/ UpdateJobStart(r) /\ NotFormation
             \/ CloseJobStart(r) /\ NotFormation
             \/ ReopenJobStart(r) /\ NotFormation
             \/ RemoveJobStart(r) /\ NotFormation
             \/ WriteJob(r) /\ NotFormation
             \/ RemoveJob(r) /\ NotFormation
             \/ Insert(r) /\ NotFormation
             \/ CountUp(r) /\ NotFormation
             \/ CheckContract(r) /\ NotFormation
             \/ Remove(r) /\ NotFormation
             \/ CountDown(r) /\ NotFormation
             \/ Accept(r) /\ NotFormation
             \/ RejectOthers(r) /\ NotFormation
             \/ SelectJob(r) /\ NotFormation
             \/ Reject(r) /\ NotFormation
             \/ Claim(r) /\ NotFormation
             \/ CheckProposal(r) /\ NotFormation
             \/ Validate(r) /\ NotFormation
             \/ Save(r) /\ NotFormation
             \/ Milestones(r) /\ NotFormation
             \/ Replace(r) /\ NotFormation
             \/ Cleanup(r) /\ NotFormation
             \/ Error(r) /\ NotFormation
             \/ Crash(r) /\ NotFormation
       \/ \E r \in Requests, p \in Proposals :
             \/ SubmitStart(r, p) /\ NotFormation
             \/ RemoveStart(r, p) /\ NotFormation
             \/ AcceptStart(r, p) /\ NotFormation
             \/ RejectStart(r, p) /\ NotFormation
             \/ CreateStart(r, p) /\ NotFormation

DisputeStep ==
    /\ followed = "disputes"
    /\ \/ \E r \in Slots, k \in Contracts :
             \/ CreateDispute(r, k) /\ NotDisputes
             \/ LeaveContract(r, k, "completed") /\ NotDisputes
             \/ LeaveContract(r, k, "cancelled") /\ NotDisputes
       \/ \E r \in Slots, d \in DisputeIds :
             \/ ResolveDispute(r, d) /\ NotDisputes
             \/ EscalateDispute(r, d) /\ NotDisputes
             \/ CloseDispute(r, d, TRUE) /\ NotDisputes
             \/ CloseDispute(r, d, FALSE) /\ NotDisputes
       \/ \E r \in Slots :
             \/ InsertDispute(r) /\ NotDisputes
             \/ ContestContract(r) /\ NotDisputes
             \/ WriteResolved(r) /\ NotDisputes
             \/ WriteClosed(r) /\ NotDisputes
             \/ RestoreContract(r) /\ NotDisputes
             \/ WriteEscalated(r) /\ NotDisputes
             \/ WriteLeft(r) /\ NotDisputes
             \/ FailDispute(r) /\ NotDisputes
       \/ \E d \in DisputeIds, to \in DisputeStatus, admin \in BOOLEAN : UpdateDisputeStatus(d, to, admin) /\ NotDisputes
       \/ \E k \in Contracts, to \in {"active", "cancelled"} : SetContract(k, to) /\ NotDisputes

MessageStep ==
    /\ followed = "messages"
    /\ \/ \E r \in Slots, t \in Topics, u \in Users \cup {None} : CreateMessage(r, u, t) /\ NotMessaging
       \/ \E r \in Slots, c \in Conversations, u \in Users :
             \/ SendMessage(r, u, c) /\ NotMessaging
             \/ MarkMessagesAsRead(r, u, c) /\ NotMessaging
       \/ \E r \in Slots :
             \/ CreateConversation(r) /\ NotMessaging
             \/ InsertMessage(r) /\ NotMessaging
             \/ CountMessage(r) /\ NotMessaging
             \/ MarkMessages(r) /\ NotMessaging
             \/ ClearCounter(r) /\ NotMessaging
             \/ FailTask(r) /\ NotMessaging

GatewayStep ==
    /\ followed = "gateway"
    /\ \/ \E s \in Sockets :
             \/ HandleMessagesConnection(s) /\ NotGateway
             \/ NotVerified(s) /\ NotGateway
             \/ HandleMessagesDisconnect(s) /\ NotGateway
       \/ \E s \in Sockets, u \in Users : Verified(s, u) /\ NotGateway
       \/ RestartGateway /\ NotGateway

NotificationStep ==
    /\ followed = "notifications"
    /\ \/ \E s \in Sockets :
             \/ RefuseConnection(s) /\ NotNotifications
             \/ CountUnread(s) /\ NotNotifications
             \/ ListUnread(s) /\ NotNotifications
             \/ Greet(s) /\ NotNotifications
             \/ FailConnecting(s) /\ NotNotifications
             \/ HandleDisconnect(s) /\ NotNotifications
       \/ \E s \in Sockets, u \in {ann, bob} : HandleConnection(s, u) /\ NotNotifications
       \/ \E n \in Notices :
             \/ SendNotificationToUser(n) /\ NotNotifications
             \/ MarkAsRead(n) /\ NotNotifications
             \/ RemoveNotice(n) /\ NotNotifications
       \/ \E n \in Notices, push \in {"none", "due"} : CreateNotice(n, bob, push) /\ NotNotifications
       \/ \E u \in {ann, bob} : MarkAllAsRead(u) /\ NotNotifications
       \/ CleanupStaleConnections /\ NotNotifications
       \/ RestartNotifications /\ NotNotifications

ProfileStep ==
    /\ followed = "profile"
    /\ \/ \E r \in Slots, i \in Items : StartAdding(r, i) /\ NotProfile
       \/ \E r \in Slots, k \in DOMAIN profile.list, stage \in {"change", "remove"} : StartChanging(r, k, stage) /\ NotProfile
       \/ \E r \in Slots :
             \/ StartUpdating(r) /\ NotProfile
             \/ SaveAdded(r) /\ NotProfile
             \/ SaveUpdated(r) /\ NotProfile
             \/ SaveChanged(r) /\ NotProfile
             \/ SaveRemoved(r) /\ NotProfile
             \/ FailEdit(r) /\ NotProfile
       \/ Credit /\ NotProfile

MarketplaceNext ==
    FormationStep \/ DisputeStep \/ MessageStep \/ GatewayStep \/ NotificationStep \/ ProfileStep

MarketplaceSpec == MarketplaceInit /\ [][MarketplaceNext]_marketplaceVars

\* The variables of the services have their types (those of the formation of a
\* contract are in TypeOK): disputes, messages, sockets, notices and a profile.
ServicesTypeOK ==
    /\ ErrorsOK
    /\ DisputesTypeOK /\ MessagingTypeOK /\ GatewayTypeOK /\ NotificationsTypeOK /\ ProfileTypeOK
=============================================================================

------------------------------ MODULE Accounts ------------------------------
(***************************************************************************)
(* Accounts, the one-time codes mailed to their owners, the sessions they  *)
(* hold and the in-memory cache of profiles, under concurrent requests.    *)
(* A request occupies a slot of the server from the first database call    *)
(* after which another request may interleave to its answer.  Requests of  *)
(* signed-in users come in through the routes of module Routes.            *)
(*                                                                         *)
(* account   the users collection, one entry per document id               *)
(* code      the otp_verifications collection                              *)
(* session   the unexpired tokens each user holds (nothing is stored)      *)
(* cache     the entries user_<id> of the cache manager                    *)
(* request   the requests in flight                                        *)
(* The last four variables record history for the properties.              *)
(***************************************************************************)
EXTENDS Routes

CONSTANTS
  Ids,          \* document ids of accounts, the ones not yet registered too
  EmailOf,      \* the address each account is registered with
  RoleOf,       \* its role, chosen at registration and never changed
  Founders,     \* the sets of accounts a behaviour may start with
  MaxCodes,     \* bound: one-time codes ever inserted
  MaxAttempts,  \* AUTH_CONSTANTS.MAX_OTP_ATTEMPTS and the schema's default
  Profiles,     \* the contents of a profile, the avatar included
  Slots,        \* bound: requests in flight
  Mailed,       \* bound: the addresses codes are asked for and presented with
  Calls,        \* bound: the handlers each account's requests are answered by
  Watched,      \* bound: the accounts requests are about, and whose tokens expire
  Nothing       \* no profile, no user

ASSUME AccountsAssumption ==
  /\ EmailOf \in [Ids -> STRING] /\ RoleOf \in [Ids -> Roles]
  /\ Founders \subseteq SUBSET Ids /\ Nothing \notin Ids
  /\ MaxCodes \in Nat /\ MaxAttempts \in Nat
  /\ Profiles # {} /\ Ids # {}

VARIABLES account, code, session, cache, request,
          ledger,   \* of each code: guesses compared, times applied, disturbed
          proved,   \* <<address, purpose>>: a right code was presented for it
          vouched,  \* the accounts an admin verified
          excused   \* the accounts written past their cache entry

vars == <<account, code, session, cache, request, ledger, proved, vouched, excused>>

Codes == 1..MaxCodes
Purposes == {"email_verification", "password_reset", "login"}
Emails == {EmailOf[u] : u \in Ids}

Account == [state : {"fresh", "present", "gone"}, verified : BOOLEAN, active : BOOLEAN,
            profile : Profiles, password : {"chosen", "reset"}]

Code == [state : {"unsent", "live", "gone"}, email : Emails, purpose : Purposes,
         attempts : 0..MaxAttempts, used : BOOLEAN, expired : BOOLEAN]

View == [verified : BOOLEAN, active : BOOLEAN, profile : Profiles]

Stages == {"idle", "delete", "insert", "count", "apply", "use", "run", "put", "clear"}

\* The handlers with an effect on what is modelled.
FreelancerEdits == {"users.updateFreelancerProfile", "users.addFreelancerSkills",
  "users.removeFreelancerSkill", "users.addPortfolioItem", "users.updatePortfolioItem",
  "users.deletePortfolioItem", "users.addEducationRecord", "users.updateEducationRecord",
  "users.deleteEducationRecord", "users.addCertification", "users.updateCertification",
  "users.deleteCertification"}
OwnHandlers == {"auth.changePassword", "users.getCurrentUser", "users.updateCurrentUser",
  "users.uploadAvatar", "users.deleteAvatar", "users.deactivateAccount",
  "users.reactivateAccount", "users.deleteAccount", "users.updateClientProfile"}
    \union FreelancerEdits
TargetHandlers == {"users.getUserById", "users.updateUserStatus", "admin.suspendUser",
  "admin.activateUser", "admin.verifyUser"}
Handlers == OwnHandlers \union TargetHandlers

Request == [stage : Stages, op : Handlers \union {"none", "auth.verifyEmail", "auth.resetPassword"},
            by : Ids \union {Nothing}, for : Ids \union {Nothing},
            email : Emails, purpose : Purposes, code : Codes \union {0},
            attempts : 0..MaxAttempts, used : BOOLEAN, view : View \union {Nothing}]

ASSUME BoundsAssumption ==
  Calls \in [Ids -> SUBSET Handlers] /\ Mailed \subseteq Emails /\ Watched \subseteq Ids

\* The routes that answer for each handler.
Doors == [h \in Handlers |->
  {AllRoutes[j] : j \in {Answering[i] : i \in {k \in Requests : AllRoutes[Answering[k]].handler = h}}}]

Blank == [stage |-> "idle", op |-> "none", by |-> Nothing, for |-> Nothing,
          email |-> CHOOSE e \in Emails : TRUE, purpose |-> "login", code |-> 0,
          attempts |-> 0, used |-> FALSE, view |-> Nothing]

-----------------------------------------------------------------------------
Present(u) == account[u].state = "present"

Taken(email) == \E u \in Ids : Present(u) /\ EmailOf[u] = email

Free(s) == request[s].stage = "idle"
At(s, stage) == request[s].stage = stage
Running(s, op) == request[s].stage = "run" /\ request[s].op = op

Goto(s, stage) == request' = [request EXCEPT ![s].stage = stage]
Done(s) == request' = [request EXCEPT ![s] = Blank]

ViewOfDocument(a) == a                                            \* mutant
ViewOf(a) == [verified |-> a.verified, active |-> a.active, profile |-> a.profile]

\* The profile as mapToUserResponseDto sends it, without the balances, which
\* payments and withdrawals write without deleting the entry.
CurrentView(u) == IF Present(u) THEN ViewOf(account[u]) ELSE Nothing

Filling(u) == \E s \in Slots : At(s, "put") /\ request[s].for = u
Clearing(u) == \E s \in Slots : At(s, "clear") /\ request[s].for = u
Holds(s, c) == request[s].stage \in {"count", "apply", "use"} /\ request[s].code = c

Init ==
  /\ \E p \in Profiles, founders \in Founders :
       /\ account = [u \in Ids |->
            [state |-> IF u \in founders THEN "present" ELSE "fresh", verified |-> u \in founders,
             active |-> TRUE, profile |-> p, password |-> "chosen"]]
       /\ vouched = founders
  /\ code = [c \in Codes |->
       [state |-> "unsent", email |-> Blank.email, purpose |-> "login",
        attempts |-> 0, used |-> FALSE, expired |-> FALSE]]
  /\ session = [u \in Ids |-> {}]
  /\ cache = [u \in Ids |-> Nothing]
  /\ request = [s \in Slots |-> Blank]
  /\ ledger = [c \in Codes |-> [guesses |-> 0, uses |-> 0, disturbed |-> FALSE]]
  /\ proved = {}
  /\ excused = {}

history == <<ledger, proved, vouched, excused>>

-----------------------------------------------------------------------------
(* Sending a code: the old codes of the address and purpose are deleted,    *)
(* then a new one is inserted and mailed.                                   *)

\* At most one live code of an address and purpose, unless two sends overlap.
MatchesAnyPurpose(c, email, purpose) ==                           \* mutant
  code[c].state = "live" /\ code[c].email = email
MatchesCode(c, email, purpose) ==
  code[c].state = "live" /\ code[c].email = email /\ code[c].purpose = purpose

StartSending(s, email, purpose) ==
  request' = [request EXCEPT ![s] =
    [Blank EXCEPT !.stage = "delete", !.email = email, !.purpose = purpose]]

DeleteCodes(s) ==
  /\ At(s, "delete")
  /\ code' = [c \in Codes |->
       IF MatchesCode(c, request[s].email, request[s].purpose)
       THEN [code[c] EXCEPT !.state = "gone"] ELSE code[c]]
  /\ Goto(s, "insert")
  /\ UNCHANGED <<account, session, cache, history>>

InsertCode(s) ==
  /\ At(s, "insert")
  /\ \E c \in Codes :
       /\ code[c].state = "unsent" /\ \A d \in 1..(c - 1) : code[d].state # "unsent"
       /\ code' = [code EXCEPT ![c] =
            [state |-> "live", email |-> request[s].email, purpose |-> request[s].purpose,
             attempts |-> 0, used |-> FALSE, expired |-> FALSE]]
  /\ Done(s)
  /\ UNCHANGED <<account, session, cache, history>>

\* expiresAt passes; the TTL index removes the document some time later.
ExpireCode(c) ==
  /\ code[c].state = "live"
  /\ code' = [code EXCEPT ![c] = IF @.expired THEN [@ EXCEPT !.state = "gone"]
                                 ELSE [@ EXCEPT !.expired = TRUE]]
  /\ UNCHANGED <<account, session, cache, request, history>>

\* The lookup of the address and the insert are one step: the unique index on
\* the address refuses the second of two registrations that passed the lookup.
Register(s, u) ==
  /\ Free(s)
  /\ account[u].state = "fresh" /\ ~Taken(EmailOf[u])
  /\ account' = [account EXCEPT ![u].state = "present"]
  /\ StartSending(s, EmailOf[u], "email_verification")
  /\ UNCHANGED <<code, session, cache, history>>

\* With the right password an unverified account is mailed a new code.
LoginUnverified(s, u) ==
  /\ Free(s)
  /\ Present(u) /\ ~account[u].verified
  /\ StartSending(s, EmailOf[u], "email_verification")
  /\ UNCHANGED <<account, code, session, cache, history>>

\* deletedAt, which only the admin's deleteUser sets, is not looked at; it and
\* lastLoginAt are left out of the model.
Login(u) ==
  /\ Present(u) /\ account[u].verified /\ account[u].active
  /\ session' = [session EXCEPT ![u] = {"access", "refresh"}]
  /\ UNCHANGED <<account, code, cache, request, history>>

\* sendVerification and resendVerification, the same checks in both.
SendVerification(s, email) ==
  /\ Free(s)
  /\ \E u \in Ids : Present(u) /\ EmailOf[u] = email /\ ~account[u].verified
  /\ StartSending(s, email, "email_verification")
  /\ UNCHANGED <<account, code, session, cache, history>>

ForgotPassword(s, email) ==
  /\ Free(s)
  /\ Taken(email)
  /\ StartSending(s, email, "password_reset")
  /\ UNCHANGED <<account, code, session, cache, history>>

\* Only for a verification code does resendOtp ask whether the account exists.
ResendOtp(s, email, purpose) ==
  /\ Free(s)
  /\ purpose = "email_verification" =>
       \E u \in Ids : Present(u) /\ EmailOf[u] = email /\ ~account[u].verified
  /\ StartSending(s, email, purpose)
  /\ UNCHANGED <<account, code, session, cache, history>>

-----------------------------------------------------------------------------
(* Presenting a code: validateOtp reads the document, saves the attempt it  *)
(* counted in memory, then compares; the caller changes the account and     *)
(* marks the code used last.                                                *)

GuessableOnceMore(c) == code[c].attempts <= MaxAttempts           \* mutant
Guessable(c) == code[c].attempts < MaxAttempts

Disturb(cs) == ledger' = [c \in Codes |->
  IF c \in cs THEN [ledger[c] EXCEPT !.disturbed = TRUE] ELSE ledger[c]]

PresentCode(s, email, op) ==
  LET purpose == IF op = "auth.verifyEmail" THEN "email_verification" ELSE "password_reset" IN
  /\ Free(s)
  /\ \E c \in Codes :
       /\ MatchesCode(c, email, purpose) /\ Guessable(c)
       /\ request' = [request EXCEPT ![s] =
            [Blank EXCEPT !.stage = "count", !.op = op, !.email = email, !.purpose = purpose,
                          !.code = c, !.attempts = code[c].attempts, !.used = code[c].used]]
       /\ Disturb({d \in {c} : \E t \in Slots : Holds(t, d)})
  /\ UNCHANGED <<account, code, session, cache, proved, vouched, excused>>

\* The save throws when the document is gone.  Expiry and use are checked after
\* the attempt was counted, use on the document as it was read.
CountAttempt(s, right) ==
  LET c == request[s].code
      compared == code[c].state = "live" /\ ~code[c].expired /\ ~request[s].used IN
  /\ At(s, "count")
  /\ code' = IF code[c].state = "live"
             THEN [code EXCEPT ![c].attempts = request[s].attempts + 1] ELSE code
  /\ ledger' = IF compared /\ ~ledger[c].disturbed
               THEN [ledger EXCEPT ![c].guesses = @ + 1] ELSE ledger
  /\ IF compared /\ right
     THEN /\ Goto(s, "apply")
          /\ proved' = proved \union {<<code[c].email, code[c].purpose>>}
     ELSE Done(s) /\ UNCHANGED proved
  /\ UNCHANGED <<account, session, cache, vouched, excused>>

\* Verification does not clear the cached profile.
VerifyEmail(u) ==
  /\ account' = [account EXCEPT ![u].verified = TRUE]
  /\ excused' = excused \union {u}

ResetPassword(u) ==
  /\ account' = [account EXCEPT ![u].password = "reset"]
  /\ UNCHANGED excused

ApplyCode(s) ==
  LET c == request[s].code IN
  /\ At(s, "apply")
  /\ \/ \E u \in Ids :
          /\ Present(u) /\ EmailOf[u] = request[s].email
          /\ IF request[s].op = "auth.verifyEmail" THEN VerifyEmail(u) ELSE ResetPassword(u)
          /\ request' = [request EXCEPT ![s].stage = "use", ![s].for = u]
          /\ ledger' = IF ledger[c].disturbed THEN ledger
                       ELSE [ledger EXCEPT ![c].uses = @ + 1]
     \/ /\ ~Taken(request[s].email)
        /\ Done(s)
        /\ UNCHANGED <<account, excused, ledger>>
  /\ UNCHANGED <<code, session, cache, proved, vouched>>

\* A code deleted meanwhile fails the save, and no tokens are handed out.
UseCode(s) ==
  LET c == request[s].code
      live == code[c].state = "live" IN
  /\ At(s, "use")
  /\ code' = IF live THEN [code EXCEPT ![c].used = TRUE] ELSE code
  /\ session' = IF live /\ request[s].op = "auth.verifyEmail"
                THEN [session EXCEPT ![request[s].for] = {"access", "refresh"}] ELSE session
  /\ Done(s)
  /\ UNCHANGED <<account, cache, history>>

\* A refresh token of an active account buys two new tokens; the old ones stay
\* valid, and logout revokes none.
RefreshToken(u) ==
  /\ "refresh" \in session[u] /\ Present(u) /\ account[u].active
  /\ session' = [session EXCEPT ![u] = {"access", "refresh"}]
  /\ UNCHANGED <<account, code, cache, request, history>>

\* An access token lives seven or thirty days, a refresh token thirty.
ExpireToken(u) ==
  /\ session[u] # {}
  /\ session' = [session EXCEPT ![u] = IF "access" \in @ THEN {"refresh"} ELSE {}]
  /\ UNCHANGED <<account, code, cache, request, history>>

-----------------------------------------------------------------------------
(* Requests of signed-in users.                                             *)

Caller(u) == [token |-> "access" \in session[u] /\ Present(u), active |-> account[u].active,
              verified |-> account[u].verified, role |-> RoleOf[u]]

\* The guards run before the handler; between them other requests may step.
Enter(s, u, handler, target) ==
  /\ Free(s)
  /\ handler \in OwnHandlers => target = u
  /\ \E route \in Doors[handler] : Admits(route, Caller(u))
  /\ request' = [request EXCEPT ![s] =
       [Blank EXCEPT !.stage = "run", !.op = handler, !.by = u, !.for = target]]
  /\ UNCHANGED <<account, code, session, cache, history>>

\* The current password is asked for again.
ChangePassword(s) ==
  LET u == request[s].for IN
  /\ Running(s, "auth.changePassword")
  /\ account' = IF Present(u) THEN [account EXCEPT ![u].password = "chosen"] ELSE account
  /\ Done(s)
  /\ UNCHANGED <<code, session, cache, history>>

\* Users read their own profile, admins every profile; a cached one is answered
\* before the check that the account is active.
ReadProfile(s) ==
  LET u == request[s].for
      admin == RoleOf[request[s].by] = "admin"
      allowed == \/ request[s].op = "users.getCurrentUser"
                 \/ Present(request[s].by) /\ (admin \/ request[s].by = u)
      shown == \/ request[s].op = "users.getCurrentUser"
               \/ account[u].active \/ admin IN
  /\ Running(s, "users.getCurrentUser") \/ Running(s, "users.getUserById")
  /\ IF allowed /\ cache[u] = Nothing /\ Present(u) /\ shown
     THEN request' = [request EXCEPT ![s].stage = "put", ![s].view = CurrentView(u)]
     ELSE Done(s)
  /\ UNCHANGED <<account, code, session, cache, history>>

PutProfile(s) ==
  /\ At(s, "put")
  /\ cache' = [cache EXCEPT ![request[s].for] = request[s].view]
  /\ Done(s)
  /\ UNCHANGED <<account, code, session, history>>

SaveThenAnswer(s, u, new) ==                                      \* mutant
  /\ account' = [account EXCEPT ![u] = new]
  /\ Done(s)
  /\ excused' = IF Filling(u) THEN excused \union {u} ELSE excused
  /\ UNCHANGED <<code, session, cache, ledger, proved, vouched>>

\* A save whose handler deletes the cache entry in a later step.
SaveThenClear(s, u, new) ==
  /\ account' = [account EXCEPT ![u] = new]
  /\ Goto(s, "clear")
  /\ excused' = IF Filling(u) THEN excused \union {u} ELSE excused
  /\ UNCHANGED <<code, session, cache, ledger, proved, vouched>>

\* A save whose handler leaves the cache entry alone.
SaveOnly(s, u, new) ==
  /\ account' = [account EXCEPT ![u] = new]
  /\ Done(s)
  /\ excused' = excused \union {u}
  /\ UNCHANGED <<code, session, cache, ledger, proved>>

Refuse(s) == Done(s) /\ UNCHANGED <<account, code, session, cache, history>>

UpdateCurrentUser(s) ==
  LET u == request[s].for IN
  /\ Running(s, "users.updateCurrentUser")
  /\ IF Present(u)
     THEN \E p \in Profiles : SaveThenClear(s, u, [account[u] EXCEPT !.profile = p])
     ELSE Refuse(s)

UpdateUserStatus(s, isActive) ==
  LET u == request[s].for IN
  /\ Running(s, "users.updateUserStatus")
  /\ IF /\ Present(request[s].by) /\ RoleOf[request[s].by] = "admin"
        /\ Present(u)
        /\ ~(u = request[s].by /\ ~isActive)
     THEN SaveThenClear(s, u, [account[u] EXCEPT !.active = isActive])
     ELSE Refuse(s)

\* What the lists of a freelancer hold is the subject of module FreelancerProfile;
\* a request that names a missing item, or adds nothing new, is refused.
EditProfile(s) ==
  LET u == request[s].for
      op == request[s].op
      allowed == Present(u) /\ RoleOf[u] = (IF op \in FreelancerEdits THEN "freelancer" ELSE "client") IN
  /\ At(s, "run") /\ op \in FreelancerEdits \union {"users.updateClientProfile"}
  /\ \/ allowed /\ \E p \in Profiles : SaveThenClear(s, u, [account[u] EXCEPT !.profile = p])
     \/ (~allowed \/ op \notin {"users.updateFreelancerProfile", "users.updateClientProfile"})
        /\ Refuse(s)

DeactivateAccount(s) ==
  LET u == request[s].for IN
  /\ Running(s, "users.deactivateAccount")
  /\ IF Present(u) /\ account[u].active
     THEN SaveThenClear(s, u, [account[u] EXCEPT !.active = FALSE])
     ELSE Refuse(s)

ReactivateAccount(s) ==
  LET u == request[s].for IN
  /\ Running(s, "users.reactivateAccount")
  /\ IF Present(u) /\ ~account[u].active
     THEN SaveThenClear(s, u, [account[u] EXCEPT !.active = TRUE])
     ELSE Refuse(s)

DeleteAccount(s) ==
  LET u == request[s].for IN
  /\ Running(s, "users.deleteAccount")
  /\ IF Present(u)
     THEN SaveThenClear(s, u, [account[u] EXCEPT !.state = "gone"])
     ELSE Refuse(s)

ClearProfile(s) ==
  LET u == request[s].for IN
  /\ At(s, "clear")
  /\ cache' = [cache EXCEPT ![u] = Nothing]
  /\ Done(s)
  /\ excused' = IF Filling(u) THEN excused ELSE excused \ {u}
  /\ UNCHANGED <<account, code, session, ledger, proved, vouched>>

SetAvatar(s) ==
  LET u == request[s].for IN
  /\ Running(s, "users.uploadAvatar") \/ Running(s, "users.deleteAvatar")
  /\ IF Present(u)
     THEN /\ \E p \in Profiles : SaveOnly(s, u, [account[u] EXCEPT !.profile = p])
          /\ UNCHANGED vouched
     ELSE Refuse(s)

\* The suspension's end and reason are not in the schema, so they are not stored.
SuspendUser(s) ==
  LET u == request[s].for IN
  /\ Running(s, "admin.suspendUser")
  /\ IF Present(u)
     THEN SaveOnly(s, u, [account[u] EXCEPT !.active = FALSE]) /\ UNCHANGED vouched
     ELSE Refuse(s)

ActivateUser(s) ==
  LET u == request[s].for IN
  /\ Running(s, "admin.activateUser")
  /\ IF Present(u)
     THEN SaveOnly(s, u, [account[u] EXCEPT !.active = TRUE]) /\ UNCHANGED vouched
     ELSE Refuse(s)

VerifyUser(s) ==
  LET u == request[s].for IN
  /\ Running(s, "admin.verifyUser")
  /\ IF Present(u)
     THEN SaveOnly(s, u, [account[u] EXCEPT !.verified = TRUE]) /\ vouched' = vouched \union {u}
     ELSE Refuse(s)

-----------------------------------------------------------------------------
(* The environment.                                                         *)

\* A cache entry outlives its time to live.
EvictProfile(u) ==
  /\ cache[u] # Nothing
  /\ cache' = [cache EXCEPT ![u] = Nothing]
  /\ excused' = IF Filling(u) THEN excused ELSE excused \ {u}
  /\ UNCHANGED <<account, code, session, request, ledger, proved, vouched>>

\* A request ends in an error at a database call or at the mail server.
Fail(s) ==
  /\ ~Free(s)
  /\ Done(s)
  /\ Disturb({c \in Codes : Holds(s, c)})
  /\ excused' = IF At(s, "clear") THEN excused \union {request[s].for} ELSE excused
  /\ UNCHANGED <<account, code, session, cache, proved, vouched>>

\* The server restarts: requests are lost, and so is the cache, kept in memory.
Restart ==
  /\ request' = [s \in Slots |-> Blank]
  /\ cache' = [u \in Ids |-> Nothing]
  /\ Disturb({c \in Codes : \E s \in Slots : Holds(s, c)})
  /\ excused' = {}
  /\ UNCHANGED <<account, code, session, proved, vouched>>

Next ==
  \/ \E s \in Slots :
       \/ \E u \in Ids : Register(s, u) \/ LoginUnverified(s, u)
       \/ \E e \in Mailed : SendVerification(s, e) \/ ForgotPassword(s, e)
       \/ \E e \in Mailed, p \in Purposes : ResendOtp(s, e, p)
       \/ DeleteCodes(s) \/ InsertCode(s)
       \/ \E e \in Mailed, op \in {"auth.verifyEmail", "auth.resetPassword"} : PresentCode(s, e, op)
       \/ \E right \in BOOLEAN : CountAttempt(s, right)
       \/ ApplyCode(s) \/ UseCode(s)
       \/ \E u \in Ids, target \in Watched : \E h \in Calls[u] : Enter(s, u, h, target)
       \/ ChangePassword(s) \/ ReadProfile(s) \/ PutProfile(s) \/ ClearProfile(s)
       \/ UpdateCurrentUser(s) \/ EditProfile(s) \/ SetAvatar(s)
       \/ \E isActive \in BOOLEAN : UpdateUserStatus(s, isActive)
       \/ DeactivateAccount(s) \/ ReactivateAccount(s) \/ DeleteAccount(s)
       \/ SuspendUser(s) \/ ActivateUser(s) \/ VerifyUser(s)
       \/ Fail(s)
  \/ \E u \in Ids : Login(u) \/ RefreshToken(u) \/ EvictProfile(u)
  \/ \E u \in Watched : ExpireToken(u)
  \/ \E c \in Codes : ExpireCode(c)
  \/ Restart

Spec == Init /\ [][Next]_vars

-----------------------------------------------------------------------------
TypeOK ==
  /\ account \in [Ids -> Account]
  /\ code \in [Codes -> Code]
  /\ session \in [Ids -> SUBSET {"access", "refresh"}]
  /\ cache \in [Ids -> View \union {Nothing}]
  /\ request \in [Slots -> Request]
  /\ ledger \in [Codes -> [guesses : Nat, uses : Nat, disturbed : BOOLEAN]]
  /\ proved \subseteq Emails \X Purposes
  /\ vouched \subseteq Ids /\ excused \subseteq Ids

\* The limit on guesses and the single use of a code (validateOtp and its two
\* callers) hold as long as the requests that present the code do not overlap
\* and none of them breaks off between counting and marking it used.
CodesHold ==
  \A c \in Codes : ~ledger[c].disturbed => ledger[c].guesses <= MaxAttempts /\ ledger[c].uses <= 1

\* Whatever requests overlap or break off: an account is verified only by a code
\* of that purpose for its address or by an admin, holds tokens only once it is
\* verified, and has a reset password only by a reset code for its address.
OnlyTheOwner ==
  \A u \in Ids :
    /\ account[u].verified => <<EmailOf[u], "email_verification">> \in proved \/ u \in vouched
    /\ session[u] # {} => account[u].verified
    /\ account[u].password = "reset" => <<EmailOf[u], "password_reset">> \in proved

\* A cached profile differs from the stored one only between the save and the
\* delete of the entry, or after a write that does not delete it, overlapped a
\* fill of the entry or broke off before the delete.
CacheAgrees ==
  \A u \in Ids :
    cache[u] \notin {Nothing, CurrentView(u)} => Clearing(u) \/ u \in excused

Quiet(u) == \A s \in Slots : request[s].by # u

AdminReadmits(u) ==
  \E s \in Slots :
    /\ Running(s, "admin.activateUser") \/ Running(s, "users.updateUserStatus")
    /\ request[s].for = u /\ RoleOf[request[s].by] = "admin"
    /\ request'[s] # request[s]

\* An inactive account with no request under way starts none, and only an admin
\* makes it active again (the guards, reactivateAccount and the admin handlers).
OutUntilReadmitted ==
  [][\A u \in Ids :
       Present(u) /\ ~account[u].active /\ Quiet(u) =>
         Quiet(u)' /\ (account'[u].active => AdminReadmits(u))]_vars

Callers == [token : BOOLEAN, active : BOOLEAN, verified : BOOLEAN, role : Roles]

WellServed == {<<caller, MeantFor(caller)>> : caller \in Callers}

\* Whatever happens to an account, each request of its owner is answered only by
\* handlers whose callers its own route is meant for (see MeantFor).
RequestsMeetTheirRoute == \A u \in Ids : <<Caller(u), TRUE>> \in WellServed
=============================================================================

----------------------------- MODULE MCAccounts -----------------------------
(* Two requests in flight.  Behaviours that start with a freelancer yet to   *)
(* register are about the codes, with a deletion, a new password and an      *)
(* admin's verification beside them; the others are about the status and the *)
(* cached profile.  Together they would only multiply their states.          *)
EXTENDS Accounts, TLC

MCEmailOf == <<"a@x", "b@x">>
MCRoleOf == <<"freelancer", "admin">>
\* One handler for each way to treat the account and its cache entry.
Typical == {"users.getCurrentUser", "users.updateCurrentUser", "users.uploadAvatar",
  "users.addPortfolioItem", "users.updateClientProfile", "users.deactivateAccount",
  "users.reactivateAccount", "users.deleteAccount", "auth.changePassword"}
MCCalls == <<Typical, TargetHandlers>>

Coding == \/ \E c \in Codes : code[c].state # "unsent"
          \/ \E u \in Ids : ~account[u].verified

BesideCodes == {"users.deleteAccount", "auth.changePassword", "admin.verifyUser"}

OneSubject ==
  \A s \in Slots :
    IF Coding THEN At(s, "run") => request[s].op \in BesideCodes
    ELSE request[s].stage \notin {"delete", "insert", "count", "apply", "use"}

MCSymmetry == Permutations(Slots) \union Permutations(Profiles)
=============================================================================

-------------------------- MODULE FreelancerProfile --------------------------
(***************************************************************************)
(* The freelancerData of one freelancer: its lists (skills, portfolio,     *)
(* education, certifications; one stands for all) beside the balances that *)
(* payments credit (src/modules/users/users.service.ts).  The middleware   *)
(* of the user's schema makes it, empty, when the freelancer registers, so *)
(* no edit ever finds it missing.                                          *)
(*                                                                         *)
(* Every edit loads the user, changes the loaded list and saves.  What     *)
(* Mongoose then writes depends on the change: a push appends and          *)
(* increments __v; a removed element sets the whole array, if __v is still *)
(* as loaded, and increments it; a changed element sets the fields at its  *)
(* index, if __v is still as loaded.                                       *)
(***************************************************************************)
EXTENDS Services, Sequences

Lists == INSTANCE SequencesExt

CONSTANTS
    Items,      \* items that are ever added
    MaxEdits,   \* bound: edits of elements
    MaxCredits  \* bound: credits

ASSUME ItemAssumption == None \notin Items

ASSUME LimitAssumption == MaxEdits \in Nat /\ MaxCredits \in Nat

VARIABLES
    profile,        \* freelancerData: its list, its balance; and __v
    edit,           \* the edits in flight
    added, removed, \* items whose edits were answered
    credited,       \* credits made
    edits           \* edits counted by the bound

profileVars == <<profile, edit, added, removed, credited, edits>>

\* An item of a list, and the item its text is meant for.
Item == [id : Items, text : Items]
NewProfile == [list |-> <<>>, balance |-> 0, version |-> 0]
NoEdit == [stage |-> "idle", item |-> None, index |-> 0, loaded |-> NewProfile]

ProfileInit ==
    /\ profile = NewProfile
    /\ edit = [r \in Slots |-> NoEdit]
    /\ added = {} /\ removed = {}
    /\ credited = 0 /\ edits = 0

-----------------------------------------------------------------------------
LoadProfile(r, stage, item, index) ==
    /\ edit[r].stage = "idle"
    /\ edit' = [edit EXCEPT ![r] =
          [stage |-> stage, item |-> item, index |-> index, loaded |-> profile]]

BeingAdded(i) == \E r \in Slots : edit[r].item = i

StartAdding(r, i) ==
    /\ i \notin added /\ ~BeingAdded(i)
    /\ LoadProfile(r, "add", i, 0)
    /\ UNCHANGED <<profile, added, removed, credited, edits>>

StartUpdating(r) ==
    /\ LoadProfile(r, "update", None, 0)
    /\ UNCHANGED <<profile, added, removed, credited, edits>>

\* The index is that of the list as it is loaded; a skill is looked up in it.
StartChanging(r, k, stage) ==
    /\ k \in DOMAIN profile.list
    /\ LoadProfile(r, stage, None, k)
    /\ UNCHANGED <<profile, added, removed, credited, edits>>

AnswerEdit(r) == edit' = [edit EXCEPT ![r] = NoEdit]

NewItem(i) == [id |-> i, text |-> i]

SaveAdded(r) ==
    LET q == edit[r]
    IN /\ q.stage = "add"
       /\ profile' = [profile EXCEPT !.list = Append(@, NewItem(q.item)), !.version = @ + 1]
       /\ added' = added \cup {q.item}
       /\ AnswerEdit(r)
       /\ UNCHANGED <<removed, credited, edits>>

\* mutant: the element is set wherever it is now
SavableAnyway(q) == TRUE

\* The update is conditional on __v, otherwise save throws a VersionError.
Savable(q) == profile.version = q.loaded.version

\* updateFreelancerProfile: fields outside the list and, when given, the array of
\* languages, which is set whole like that of a removal.
SaveUpdated(r) ==
    LET q == edit[r]
    IN /\ q.stage = "update"
       /\ edits < MaxEdits
       /\ edits' = edits + 1
       /\ \E languages \in BOOLEAN :
             profile' = IF languages /\ Savable(q) THEN [profile EXCEPT !.version = @ + 1] ELSE profile
       /\ AnswerEdit(r)
       /\ UNCHANGED <<added, removed, credited>>

\* The fields of the element at the index: with __v as loaded, the index is one
\* of the list's.
SaveChanged(r) ==
    LET q == edit[r]
    IN /\ q.stage = "change"
       /\ edits < MaxEdits
       /\ edits' = edits + 1
       /\ profile' = IF Savable(q) /\ q.index \in DOMAIN profile.list
                     THEN [profile EXCEPT !.list[q.index].text = q.loaded.list[q.index].id]
                     ELSE profile
       /\ AnswerEdit(r)
       /\ UNCHANGED <<added, removed, credited>>

SaveRemoved(r) ==
    LET q == edit[r]
    IN /\ q.stage = "remove"
       /\ IF Savable(q)
          THEN /\ profile' = [profile EXCEPT !.list = Lists!RemoveAt(q.loaded.list, q.index),
                                             !.version = @ + 1]
               /\ removed' = removed \cup {q.loaded.list[q.index].id}
          ELSE UNCHANGED <<profile, removed>>
       /\ AnswerEdit(r)
       /\ UNCHANGED <<added, credited, edits>>

\* A payment increments the balance.
Credit ==
    /\ credited < MaxCredits
    /\ credited' = credited + 1
    /\ profile' = [profile EXCEPT !.balance = @ + 1]
    /\ UNCHANGED <<edit, added, removed, edits>>

\* An error before the save, or the end of the process.
FailEdit(r) ==
    /\ edit[r].stage # "idle"
    /\ AnswerEdit(r)
    /\ UNCHANGED <<profile, added, removed, credited, edits>>

ProfileNext ==
    \/ \E r \in Slots :
          \/ \E i \in Items : StartAdding(r, i)
          \/ StartUpdating(r)
          \/ \E k \in DOMAIN profile.list, stage \in {"change", "remove"} : StartChanging(r, k, stage)
          \/ SaveAdded(r) \/ SaveUpdated(r) \/ SaveChanged(r) \/ SaveRemoved(r) \/ FailEdit(r)
    \/ Credit

ProfileSpec == ProfileInit /\ [][ProfileNext]_profileVars

-----------------------------------------------------------------------------
\* Every variable has its type: the stored profile and the edits in flight.
Profile == [list : Seq(Item), balance : Nat, version : Nat]
ProfileTypeOK ==
    /\ profile \in Profile
    /\ edit \in [Slots -> [stage : {"idle", "add", "update", "change", "remove"},
                                 item : Items \cup {None}, index : Nat, loaded : Profile]]
    /\ added \subseteq Items /\ removed \subseteq Items
    /\ credited \in 0 .. MaxCredits /\ edits \in 0 .. MaxEdits

\* Concurrent edits of freelancerData neither lose nor revive an item, nor
\* write one's text over another's, although they address items by index, and
\* leave the balance to the credits (users.service.ts, the edits of portfolio,
\* education, certifications and skills, which rely on Mongoose's __v).
ItemsAccounted ==
    /\ {profile.list[k].id : k \in DOMAIN profile.list} = added \ removed
    /\ Lists!IsInjective(profile.list)
    /\ \A k \in DOMAIN profile.list : profile.list[k].text = profile.list[k].id
    /\ profile.balance = credited
=============================================================================

-------------------------- MODULE WithdrawalsProofs --------------------------
(***************************************************************************)
(* What holds of Withdrawals for any number of freelancers, requests,      *)
(* admins, errors and crashes.                                             *)
(***************************************************************************)
EXTENDS Withdrawals, TLAPS

(***************************************************************************)
(* Type correctness                                                        *)
(***************************************************************************)

\* Moving a request on keeps the program counters typed.
LEMMA GotoType ==
    ASSUME pc \in [Withdrawals \cup Admins -> CreatePCs \cup AdminPCs],
           NEW r \in Withdrawals \cup Admins,
           NEW label \in CreatePCs \cup AdminPCs, Goto(r, label)
    PROVE  pc' \in [Withdrawals \cup Admins -> CreatePCs \cup AdminPCs]
  BY DEF Goto

\* What a withdrawal asks for.
LEMMA BodyType ==
    ASSUME TypeOK, NEW w \in Withdrawals
    PROVE  body[w].owner \in Freelancers /\ body[w].amount \in Nat
  <1>1. body[w] \in Bodies
    BY DEF TypeOK
  <1> QED
    BY <1>1, WithdrawalAssumption DEF Bodies

\* The steps of create that take or give back money keep every variable typed.
LEMMA MoneyType ==
    ASSUME TypeOK, NEW w \in Withdrawals,
           Reserve(w) \/ Unsave(w) \/ AutoRefund(w)
    PROVE  TypeOK'
  <1> USE DEF docVars, inputVars
  <1>1. body[w].owner \in Freelancers /\ body[w].amount \in Nat
    BY BodyType
  <1>2. {"save", "refused", "refunded", "fail"} \subseteq CreatePCs
    BY DEF CreatePCs, Ends
  <1>3. CASE Reserve(w)
    <2>1. balance' \in [Freelancers -> Int] /\ reserved' \in [Withdrawals -> BOOLEAN]
      <3>1. /\ balance \in [Freelancers -> Int]
            /\ reserved \in [Withdrawals -> BOOLEAN]
        BY DEF TypeOK
      <3>2. \/ UNCHANGED <<balance, reserved>>
            \/ /\ balance' = [balance EXCEPT ![body[w].owner] =
                                 @ - body[w].amount]
               /\ reserved' = [reserved EXCEPT ![w] = TRUE]
        BY <1>3 DEF Reserve
      <3>3. balance[body[w].owner] - body[w].amount \in Int
        BY <1>1, <3>1
      <3>4. CASE UNCHANGED <<balance, reserved>>
        BY <3>1, <3>4
      <3> QED
        BY <3>1, <3>2, <3>3, <3>4
    <2>2. pc' \in [Withdrawals \cup Admins -> CreatePCs \cup AdminPCs]
      BY <1>2, <1>3, GotoType DEF Reserve, TypeOK
    <2> QED
      BY <1>3, <2>1, <2>2 DEF Reserve, TypeOK
  <1>4. CASE Unsave(w) \/ AutoRefund(w)
    BY <1>1, <1>2, <1>4, GotoType DEF Unsave, AutoRefund, GiveBack, TypeOK
  <1> QED
    BY <1>3, <1>4

\* So do its reads,
LEMMA ReadType ==
    ASSUME TypeOK, NEW w \in Withdrawals,
           ReadUser(w) \/ FindKey(w) \/ Count(w)
    PROVE  TypeOK'
  <1> USE DEF docVars, inputVars, moneyVars, ReadOnly
  <1>1. {"count", "findkey", "answered", "reserve", "refused"} \subseteq CreatePCs
    BY DEF CreatePCs, Ends
  <1>2. CASE ReadUser(w)
    BY <1>1, <1>2, GotoType DEF ReadUser, TypeOK
  <1>3. CASE FindKey(w)
    BY <1>1, <1>3, GotoType DEF FindKey, TypeOK
  <1>4. CASE Count(w)
    BY <1>1, <1>4, GotoType DEF Count, TypeOK
  <1> QED
    BY <1>2, <1>3, <1>4

\* and the steps that write the document or transfer the money.
LEMMA DocumentType ==
    ASSUME TypeOK, NEW w \in Withdrawals,
           \/ Save(w) \/ AutoTransfer(w) \/ AutoProcess(w) \/ AutoComplete(w)
           \/ AutoFail(w)
    PROVE  TypeOK'
  <1> USE DEF docVars, inputVars, moneyVars
  <1>1. {"transfer", "answered", "unsave", "process", "refund", "complete",
         "refunded"} \subseteq CreatePCs
    BY DEF CreatePCs, Ends
  <1>2. {"pending", "processing", "completed", "failed"} \subseteq WithdrawalStatus
    BY DEF WithdrawalStatus
  <1>3. CASE Save(w)
    BY <1>1, <1>2, <1>3, GotoType DEF Save, OnDuplicate, TypeOK
  <1>4. CASE AutoTransfer(w)
    BY <1>1, <1>4, GotoType DEF AutoTransfer, TypeOK
  <1>5. CASE AutoProcess(w)
    BY <1>1, <1>2, <1>5, GotoType DEF AutoProcess, TypeOK
  <1>6. CASE AutoComplete(w) \/ AutoFail(w)
    BY <1>1, <1>2, <1>6, GotoType DEF AutoComplete, AutoFail, CompletedAs, TypeOK
  <1> QED
    BY <1>3, <1>4, <1>5, <1>6

\* The admins' requests keep every variable typed.
LEMMA AdminStartType ==
    ASSUME TypeOK, NEW a \in Admins, NEW w \in Withdrawals, AdminStart(a, w)
    PROVE  TypeOK'
  <1>1. PICK label \in AdminPCs : StartAdmin(a, w, label)
    BY DEF AdminStart, ProcessStart, CompleteStart, FailStart, CancelStart,
           AdminPCs
  <1> QED
    BY <1>1, GotoType DEF StartAdmin, TypeOK, moneyVars, docVars

LEMMA AdminStepType ==
    ASSUME TypeOK, NEW a \in Admins, AdminStep(a)
    PROVE  TypeOK'
  <1> USE DEF docVars, inputVars, moneyVars
  <1>1. {"idle", "startprocessing", "markfailed"} \subseteq AdminPCs
    BY DEF AdminPCs
  <1>2. {"processing", "completed", "failed"} \subseteq WithdrawalStatus
    BY DEF WithdrawalStatus
  <1>3. target[a] \in Withdrawals
    BY DEF TypeOK
  <1>4. CASE TransferByHand(a)
    BY <1>1, <1>3, <1>4, GotoType DEF TransferByHand, TypeOK
  <1>5. CASE StartProcessing(a)
    BY <1>1, <1>2, <1>3, <1>5, GotoType DEF StartProcessing, TypeOK
  <1>6. CASE MarkCompleted(a) \/ MarkFailed(a)
    BY <1>1, <1>2, <1>3, <1>6, GotoType DEF MarkCompleted, MarkFailed, TypeOK
  <1>7. CASE Recheck(a)
    BY <1>1, <1>7, GotoType DEF Recheck, ReadOnly, TypeOK
  <1> QED
    BY <1>4, <1>5, <1>6, <1>7 DEF AdminStep

\* And so do errors and crashes.
LEMMA FaultType ==
    ASSUME TypeOK,
           \/ \E w \in Withdrawals : CreateError(w) \/ Crash(w)
           \/ \E a \in Admins : AdminError(a)
    PROVE  TypeOK'
  <1> USE DEF docVars, inputVars, moneyVars
  <1>1. ASSUME NEW w \in Withdrawals, CreateError(w) \/ Crash(w)
        PROVE  TypeOK'
    <2>1. AfterError(w) \in CreatePCs /\ "crashed" \in CreatePCs
      BY DEF AfterError, CreatePCs, Ends
    <2> QED
      BY <1>1, <2>1, GotoType DEF CreateError, Crash, Fault, TypeOK
  <1>2. ASSUME NEW a \in Admins, AdminError(a)
        PROVE  TypeOK'
    <2>1. "idle" \in AdminPCs
      BY DEF AdminPCs
    <2> QED
      BY <1>2, <2>1, GotoType DEF AdminError, Fault, TypeOK
  <1> QED
    BY <1>1, <1>2

LEMMA InitType == Init => TypeOK
  <1> SUFFICES ASSUME Init
               PROVE  TypeOK
    OBVIOUS
  <1>1. balance \in [Freelancers -> Int]
    BY WithdrawalAssumption DEF Init
  <1>2. /\ body \in [Withdrawals -> Bodies]
        /\ status \in [Withdrawals -> {"none"} \cup WithdrawalStatus]
        /\ hasId \in [Withdrawals -> BOOLEAN]
        /\ reserved \in [Withdrawals -> BOOLEAN]
        /\ enough \in [Withdrawals -> BOOLEAN]
    BY DEF Init
  <1>3. /\ transfers \in [Withdrawals -> Nat]
        /\ refunds \in [Withdrawals -> Nat]
        /\ faults \in Nat
    BY DEF Init
  <1>4. pc \in [Withdrawals \cup Admins -> CreatePCs \cup AdminPCs]
    BY DEF Init, CreatePCs, AdminPCs
  <1>5. target \in [Admins -> Withdrawals]
    BY WithdrawalAssumption DEF Init
  <1> QED
    BY <1>1, <1>2, <1>3, <1>4, <1>5 DEF TypeOK

LEMMA NextType == TypeOK /\ [Next]_vars => TypeOK'
  <1> SUFFICES ASSUME TypeOK, [Next]_vars
               PROVE  TypeOK'
    OBVIOUS
  <1>1. ASSUME NEW w \in Withdrawals, CreateStep(w)
        PROVE  TypeOK'
    BY <1>1, MoneyType, ReadType, DocumentType DEF CreateStep
  <1>2. ASSUME NEW a \in Admins,
               AdminStep(a) \/ \E w \in Withdrawals : AdminStart(a, w)
        PROVE  TypeOK'
    BY <1>2, AdminStepType, AdminStartType
  <1>3. CASE \/ \E w \in Withdrawals : CreateError(w) \/ Crash(w)
             \/ \E a \in Admins : AdminError(a)
    BY <1>3, FaultType
  <1>4. CASE UNCHANGED vars
    BY <1>4 DEF vars, moneyVars, docVars, inputVars, TypeOK
  <1> QED
    BY <1>1, <1>2, <1>3, <1>4 DEF Next

\* The model is well typed, whatever the constants.
THEOREM TypeCorrect == Spec => []TypeOK
  BY InitType, NextType, PTL DEF Spec

(***************************************************************************)
(* No overdraft.  Only create's steps touch the balance, and the one that  *)
(* takes money compares and takes at once.                                 *)
(***************************************************************************)
LEMMA NextOverdraft == TypeOK /\ NeverOverdrawn /\ [Next]_vars => NeverOverdrawn'
  <1> SUFFICES ASSUME TypeOK, NeverOverdrawn, [Next]_vars
               PROVE  NeverOverdrawn'
    OBVIOUS
  <1> USE DEF moneyVars
  <1>1. ASSUME NEW w \in Withdrawals, Reserve(w)
        PROVE  NeverOverdrawn'
    <2>1. body[w].owner \in Freelancers /\ body[w].amount \in Nat
      BY BodyType
    <2> QED
      BY <1>1, <2>1 DEF Reserve, Covers, NeverOverdrawn, TypeOK
  <1>2. ASSUME NEW w \in Withdrawals, Unsave(w) \/ AutoRefund(w)
        PROVE  NeverOverdrawn'
    <2>1. body[w].owner \in Freelancers /\ body[w].amount \in Nat
      BY BodyType
    <2> QED
      BY <1>2, <2>1 DEF Unsave, AutoRefund, GiveBack, NeverOverdrawn, TypeOK
  <1>3. ASSUME NEW w \in Withdrawals,
               \/ ReadUser(w) \/ FindKey(w) \/ Count(w) \/ Save(w)
               \/ AutoTransfer(w) \/ AutoProcess(w) \/ AutoComplete(w)
               \/ AutoFail(w) \/ CreateError(w) \/ Crash(w)
        PROVE  balance' = balance
    BY <1>3
    DEF ReadUser, FindKey, Count, ReadOnly, Save, AutoTransfer, AutoProcess,
        AutoComplete, AutoFail, CreateError, Crash
  <1>4. ASSUME NEW a \in Admins, AdminStep(a) \/ AdminError(a)
        PROVE  balance' = balance
    BY <1>4
    DEF AdminStep, TransferByHand, StartProcessing, MarkCompleted, Recheck,
        MarkFailed, AdminError, ReadOnly
  <1>5. ASSUME NEW a \in Admins, NEW w \in Withdrawals, AdminStart(a, w)
        PROVE  balance' = balance
    BY <1>5
    DEF AdminStart, ProcessStart, CompleteStart, FailStart, CancelStart,
        StartAdmin
  <1>6. CASE balance' = balance
    BY <1>6 DEF NeverOverdrawn
  <1>7. CASE UNCHANGED vars
    BY <1>6, <1>7 DEF vars
  <1> QED
    BY <1>1, <1>2, <1>3, <1>4, <1>5, <1>6, <1>7 DEF Next, CreateStep

\* However many create requests race, no balance ever becomes negative.
THEOREM NoOverdraft == Spec => []NeverOverdrawn
  <1>1. Init => NeverOverdrawn
    BY WithdrawalAssumption DEF Init, NeverOverdrawn
  <1> QED
    BY <1>1, InitType, NextType, NextOverdraft, PTL DEF Spec

(***************************************************************************)
(* A withdrawal that left for an account has its transfer's id.  The       *)
(* strengthening follows a request from the step that recorded the id, or  *)
(* from the status it read, to the step that relies on it: no step ever    *)
(* clears the id.                                                          *)
(***************************************************************************)
Recorded(w) == body[w].kind # "bank" => hasId[w]

TransferInv ==
    /\ \A w \in Withdrawals :
         status[w] \in {"processing", "completed"} => Recorded(w)
    /\ \A w \in Withdrawals : pc[w] = "complete" => Recorded(w)
    /\ \A a \in Admins : pc[a] = "markcompleted" => Recorded(target[a])

\* What a step preserves that records no id and sets no status that needs one.
LEMMA QuietStep ==
    ASSUME TypeOK, TransferInv,
           UNCHANGED <<body, hasId>>,
           \A w \in Withdrawals :
              \/ status'[w] = status[w]
              \/ status'[w] \notin {"processing", "completed"}
              \/ Recorded(w),
           \A w \in Withdrawals :
              pc'[w] = "complete" => pc[w] = "complete",
           \A a \in Admins :
              pc'[a] = "markcompleted" =>
                 \/ pc[a] = "markcompleted" /\ target'[a] = target[a]
                 \/ Recorded(target'[a]),
           target' \in [Admins -> Withdrawals]
    PROVE  TransferInv'
  BY DEF TransferInv, Recorded

\* How Goto and StartAdmin move the requests.
LEMMA GotoMoves ==
    ASSUME TypeOK, NEW r \in Withdrawals \cup Admins, NEW label, Goto(r, label)
    PROVE  /\ pc'[r] = label
           /\ \A q \in (Withdrawals \cup Admins) \ {r} : pc'[q] = pc[q]
  BY DEF Goto, TypeOK

LEMMA CreateTransfer ==
    ASSUME TypeOK, TransferInv, NEW w \in Withdrawals, CreateStep(w)
    PROVE  TransferInv'
  <1> USE DEF docVars, inputVars, moneyVars, ReadOnly
  <1>1. CASE \/ ReadUser(w) \/ FindKey(w) \/ Count(w) \/ Reserve(w)
             \/ Unsave(w) \/ AutoTransfer(w) \/ AutoRefund(w)
    <2>1. UNCHANGED <<body, docVars, target>>
      BY <1>1
      DEF ReadUser, FindKey, Count, Reserve, Unsave, AutoTransfer, AutoRefund
    <2>2. PICK label \in CreatePCs \ {"complete"} : Goto(w, label)
      BY <1>1
      DEF ReadUser, FindKey, Count, Reserve, Unsave, AutoTransfer, AutoRefund,
          CreatePCs, Ends
    <2> QED
      BY <2>1, <2>2, GotoMoves, QuietStep, WithdrawalAssumption
      DEF TypeOK, CreatePCs, Ends
  <1>2. CASE Save(w) \/ AutoFail(w)
    <2>1. /\ UNCHANGED <<body, hasId, target>>
          /\ \A v \in Withdrawals :
               \/ status'[v] = status[v]
               \/ status'[v] \notin {"processing", "completed"}
      BY <1>2 DEF Save, AutoFail, TypeOK
    <2>2. PICK label \in CreatePCs \ {"complete"} : Goto(w, label)
      BY <1>2 DEF Save, AutoFail, OnDuplicate, CreatePCs, Ends
    <2> QED
      BY <2>1, <2>2, GotoMoves, QuietStep, WithdrawalAssumption
      DEF TypeOK, CreatePCs, Ends
  <1>3. CASE AutoProcess(w)
    <2>1. /\ UNCHANGED <<body, target>>
          /\ status' = [status EXCEPT ![w] = "processing"]
          /\ hasId' = [hasId EXCEPT ![w] = TRUE]
      BY <1>3 DEF AutoProcess
    <2>2. /\ hasId'[w]
          /\ \A v \in Withdrawals \ {w} : /\ status'[v] = status[v]
                                          /\ hasId'[v] = hasId[v]
      BY <2>1 DEF TypeOK
    <2>3. /\ \A v \in Withdrawals \ {w} : pc'[v] = pc[v]
          /\ \A a \in Admins : pc'[a] = pc[a]
      BY <1>3, GotoMoves, WithdrawalAssumption DEF AutoProcess
    <2> QED
      BY <2>1, <2>2, <2>3 DEF TransferInv, Recorded, TypeOK
  <1>4. CASE AutoComplete(w)
    <2>1. Recorded(w)
      BY <1>4 DEF AutoComplete, TransferInv
    <2>2. /\ UNCHANGED <<body, hasId, target>>
          /\ \A v \in Withdrawals : status'[v] = status[v] \/ v = w
          /\ Goto(w, "answered")
      BY <1>4 DEF AutoComplete, TypeOK
    <2> QED
      BY <2>1, <2>2, GotoMoves, QuietStep, WithdrawalAssumption DEF TypeOK
  <1> QED
    BY <1>1, <1>2, <1>3, <1>4 DEF CreateStep

LEMMA AdminStartTransfer ==
    ASSUME TypeOK, TransferInv, NEW a \in Admins, NEW w \in Withdrawals,
           AdminStart(a, w)
    PROVE  TransferInv'
  <1>1. PICK label \in AdminPCs :
            /\ StartAdmin(a, w, label)
            /\ label = "markcompleted" => Recorded(w)
    BY DEF AdminStart, ProcessStart, CompleteStart, FailStart, CancelStart,
           AdminPCs, Completable, TransferInv
  <1>2. /\ UNCHANGED <<body, hasId, status>>
        /\ target' = [target EXCEPT ![a] = w]
        /\ Goto(a, label)
    BY <1>1 DEF StartAdmin, docVars
  <1>3. /\ target' \in [Admins -> Withdrawals]
        /\ target'[a] = w
        /\ \A b \in Admins \ {a} : target'[b] = target[b]
    BY <1>2 DEF TypeOK
  <1> QED
    BY <1>1, <1>2, <1>3, GotoMoves, QuietStep, WithdrawalAssumption

LEMMA AdminTransfer ==
    ASSUME TypeOK, TransferInv, NEW a \in Admins, AdminStep(a)
    PROVE  TransferInv'
  <1> USE DEF docVars, inputVars, moneyVars, ReadOnly
  <1>0. target[a] \in Withdrawals
    BY DEF TypeOK
  <1>1. CASE TransferByHand(a) \/ Recheck(a)
    <2>1. UNCHANGED <<body, docVars, target>>
      BY <1>1 DEF TransferByHand, Recheck
    <2>2. PICK label \in {"idle", "startprocessing", "markfailed"} :
              Goto(a, label)
      BY <1>1 DEF TransferByHand, Recheck
    <2> QED
      BY <2>1, <2>2, GotoMoves, QuietStep, WithdrawalAssumption DEF TypeOK
  <1>2. CASE StartProcessing(a)
    <2>1. /\ UNCHANGED <<body, target>>
          /\ \A v \in Withdrawals :
               v # target[a] => /\ status'[v] = status[v]
                                /\ hasId'[v] = hasId[v]
          /\ hasId'[target[a]] =
                (hasId[target[a]] \/ body[target[a]].kind # "bank")
          /\ \A v \in Withdrawals : hasId[v] => hasId'[v]
      BY <1>0, <1>2 DEF StartProcessing, TypeOK
    <2>2. /\ \A v \in Withdrawals : pc'[v] = pc[v]
          /\ pc'[a] = "idle"
          /\ \A b \in Admins \ {a} : pc'[b] = pc[b]
      BY <1>2, GotoMoves, WithdrawalAssumption DEF StartProcessing
    <2> QED
      BY <2>1, <2>2 DEF TransferInv, Recorded, TypeOK
  <1>3. CASE MarkCompleted(a)
    <2>1. Recorded(target[a])
      BY <1>3 DEF MarkCompleted, TransferInv
    <2>2. /\ UNCHANGED <<body, hasId, target>>
          /\ \A v \in Withdrawals : status'[v] = status[v] \/ v = target[a]
          /\ Goto(a, "idle")
      BY <1>3 DEF MarkCompleted, TypeOK
    <2> QED
      BY <2>1, <2>2, GotoMoves, QuietStep, WithdrawalAssumption DEF TypeOK
  <1>4. CASE MarkFailed(a)
    <2>1. /\ UNCHANGED <<body, hasId, target>>
          /\ \A v \in Withdrawals : \/ status'[v] = status[v]
                                    \/ status'[v] = "failed"
          /\ Goto(a, "idle")
      BY <1>4 DEF MarkFailed, TypeOK
    <2> QED
      BY <2>1, GotoMoves, QuietStep, WithdrawalAssumption DEF TypeOK
  <1> QED
    BY <1>1, <1>2, <1>3, <1>4 DEF AdminStep

LEMMA FaultTransfer ==
    ASSUME TypeOK, TransferInv,
           \/ \E w \in Withdrawals : CreateError(w) \/ Crash(w)
           \/ \E a \in Admins : AdminError(a)
    PROVE  TransferInv'
  <1>1. PICK r \in Withdrawals \cup Admins :
            \E label \in {"unsave", "refund", "refunded", "refused", "crashed",
                         "idle"} : Goto(r, label)
    BY DEF CreateError, Crash, AdminError, AfterError
  <1>2. UNCHANGED <<body, docVars, target>>
    BY DEF CreateError, Crash, AdminError, inputVars
  <1> QED
    BY <1>1, <1>2, GotoMoves, QuietStep, WithdrawalAssumption DEF TypeOK, docVars

LEMMA NextTransfer == TypeOK /\ TransferInv /\ [Next]_vars => TransferInv'
  <1> SUFFICES ASSUME TypeOK, TransferInv, [Next]_vars
               PROVE  TransferInv'
    OBVIOUS
  <1>1. CASE \E w \in Withdrawals : CreateStep(w)
    BY <1>1, CreateTransfer
  <1>2. CASE \E a \in Admins :
               AdminStep(a) \/ \E w \in Withdrawals : AdminStart(a, w)
    BY <1>2, AdminTransfer, AdminStartTransfer
  <1>3. CASE \/ \E w \in Withdrawals : CreateError(w) \/ Crash(w)
             \/ \E a \in Admins : AdminError(a)
    BY <1>3, FaultTransfer
  <1>4. CASE UNCHANGED vars
    BY <1>4 DEF vars, docVars, inputVars, TransferInv, Recorded
  <1> QED
    BY <1>1, <1>2, <1>3, <1>4 DEF Next

\* A withdrawal to a Stripe account that reads PROCESSING or COMPLETED has the
\* id of its transfer.
THEOREM ProcessedAreTransferred == Spec => []ProcessedIsTransferred
  <1>1. Init => TransferInv
    BY WithdrawalAssumption DEF Init, TransferInv
  <1>2. TransferInv => ProcessedIsTransferred
    BY DEF TransferInv, Recorded, ProcessedIsTransferred
  <1> QED
    BY <1>1, <1>2, InitType, NextType, NextTransfer, PTL DEF Spec

(***************************************************************************)
(* One withdrawal per key and no lost reservation, when no error or crash  *)
(* cuts a request short.  The unique index keeps two documents from having *)
(* one key; Account says at every step of create where the amount is.      *)
(***************************************************************************)
KeysUnique ==
    \A v, w \in Withdrawals :
        (v # w /\ body[v].key = body[w].key /\ body[v].key # NoKey)
            => status[v] = "none" \/ status[w] = "none"

Account(w) ==
    /\ pc[w] \in {"new", "findkey", "count", "reserve", "refused"}
         => ~reserved[w] /\ refunds[w] = 0
    /\ pc[w] \in {"save", "unsave"} => refunds[w] = 0
    /\ pc[w] \in {"transfer", "process", "complete", "refund"}
         => refunds[w] = 0 /\ status[w] # "none"
    /\ pc[w] = "fail" => refunds[w] = 1 /\ status[w] # "none"
    /\ pc[w] = "answered" => (reserved[w] => status[w] # "none")
    /\ pc[w] = "refunded" => refunds[w] = 1
    /\ pc[w] # "crashed"

AccountInv ==
    /\ KeysUnique
    /\ \A w \in Withdrawals : Account(w)
    /\ \A a \in Admins : pc[a] # "idle" => status[target[a]] # "none"

\* A step that saves no document and touches only one request's account.
LEMMA AccountStep ==
    ASSUME TypeOK, AccountInv, NEW r \in Withdrawals \cup Admins,
           body' = body,
           \A w \in Withdrawals : status'[w] = "none" <=> status[w] = "none",
           \A q \in (Withdrawals \cup Admins) \ {r} : pc'[q] = pc[q],
           \A w \in Withdrawals \ {r} : /\ reserved'[w] = reserved[w]
                                       /\ refunds'[w] = refunds[w],
           r \in Withdrawals => Account(r)',
           \A a \in Admins \ {r} : target'[a] = target[a],
           r \in Admins => \/ pc'[r] = "idle"
                           \/ status'[target'[r]] # "none",
           target' \in [Admins -> Withdrawals]
    PROVE  AccountInv'
  <1>1. KeysUnique'
    BY DEF AccountInv, KeysUnique
  <1>2. ASSUME NEW w \in Withdrawals
        PROVE  Account(w)'
    <2>1. CASE w # r
      BY <2>1 DEF AccountInv, Account
    <2> QED
      BY <2>1
  <1>3. ASSUME NEW a \in Admins, pc'[a] # "idle"
        PROVE  status'[target'[a]] # "none"
    <2>1. CASE a # r
      BY <1>3, <2>1 DEF AccountInv, TypeOK
    <2> QED
      BY <1>3, <2>1
  <1> QED
    BY <1>1, <1>2, <1>3 DEF AccountInv

LEMMA CreateAccount ==
    ASSUME TypeOK, AccountInv, NEW w \in Withdrawals, CreateStep(w)
    PROVE  AccountInv'
  <1> USE DEF docVars, inputVars, moneyVars, ReadOnly
  <1>1. Account(w) /\ w \notin Admins
    BY WithdrawalAssumption DEF AccountInv
  <1>2. CASE ReadUser(w) \/ FindKey(w) \/ Count(w)
    <2>1. UNCHANGED <<body, docVars, target, reserved, refunds>>
      BY <1>2 DEF ReadUser, FindKey, Count
    <2>2. /\ pc[w] \in {"new", "findkey", "count"}
          /\ \E label \in {"findkey", "count", "answered", "reserve", "refused"} :
               Goto(w, label)
      BY <1>2 DEF ReadUser, FindKey, Count
    <2>3. Account(w)'
      BY <1>1, <2>1, <2>2, GotoMoves DEF Account
    <2> QED
      BY <1>1, <2>1, <2>2, <2>3, GotoMoves, AccountStep DEF TypeOK
  <1>3. CASE Reserve(w)
    <2>1. /\ UNCHANGED <<body, docVars, target, refunds>>
          /\ \A v \in Withdrawals \ {w} : reserved'[v] = reserved[v]
      BY <1>3 DEF Reserve, TypeOK
    <2>2. /\ pc[w] = "reserve"
          /\ \/ Goto(w, "save")
             \/ Goto(w, "refused") /\ reserved' = reserved
      BY <1>3 DEF Reserve
    <2>3. Account(w)'
      BY <1>1, <2>1, <2>2, GotoMoves DEF Account
    <2> QED
      BY <1>1, <2>1, <2>2, <2>3, GotoMoves, AccountStep DEF TypeOK
  <1>4. CASE Save(w)
    <2>1. UNCHANGED <<body, target, reserved, refunds>> /\ pc[w] = "save"
      BY <1>4 DEF Save
    <2>2. CASE /\ KeyFree(w)
               /\ status' = [status EXCEPT ![w] = "pending"]
               /\ \E label \in {"transfer", "answered"} : Goto(w, label)
      <3>1. /\ status'[w] = "pending"
            /\ \A v \in Withdrawals \ {w} : status'[v] = status[v]
        BY <2>2 DEF TypeOK
      <3>2. KeysUnique'
        BY <2>1, <2>2, <3>1 DEF AccountInv, KeysUnique, KeyFree, SameKey
      <3>3. Account(w)'
        BY <1>1, <2>1, <2>2, <3>1, GotoMoves DEF Account
      <3>4. ASSUME NEW v \in Withdrawals \ {w}
            PROVE  Account(v)'
        BY <2>1, <2>2, <3>1, GotoMoves DEF AccountInv, Account
      <3>5. ASSUME NEW a \in Admins, pc'[a] # "idle"
            PROVE  status'[target'[a]] # "none"
        BY <1>1, <2>1, <2>2, <3>1, <3>5, GotoMoves DEF AccountInv, TypeOK
      <3> QED
        BY <3>2, <3>3, <3>4, <3>5 DEF AccountInv
    <2>3. CASE status' = status /\ Goto(w, "unsave")
      <3>1. Account(w)'
        BY <1>1, <2>1, <2>3, GotoMoves DEF Account
      <3> QED
        BY <1>1, <2>1, <2>3, <3>1, GotoMoves, AccountStep DEF TypeOK
    <2> QED
      BY <1>4, <2>2, <2>3 DEF Save, OnDuplicate
  <1>5. CASE Unsave(w) \/ AutoRefund(w)
    <2>1. /\ UNCHANGED <<body, docVars, target, reserved>>
          /\ refunds'[w] = refunds[w] + 1
          /\ \A v \in Withdrawals \ {w} : refunds'[v] = refunds[v]
      BY <1>5 DEF Unsave, AutoRefund, GiveBack, TypeOK
    <2>2. \/ pc[w] = "unsave" /\ Goto(w, "refunded")
          \/ pc[w] = "refund" /\ Goto(w, "fail")
      BY <1>5 DEF Unsave, AutoRefund
    <2>3. Account(w)'
      BY <1>1, <2>1, <2>2, GotoMoves DEF Account
    <2> QED
      BY <1>1, <2>1, <2>2, <2>3, GotoMoves, AccountStep DEF TypeOK
  <1>6. CASE AutoTransfer(w)
    <2>1. UNCHANGED <<body, docVars, target, reserved, refunds>>
      BY <1>6 DEF AutoTransfer
    <2>2. /\ pc[w] = "transfer"
          /\ \E label \in {"process", "refund"} : Goto(w, label)
      BY <1>6 DEF AutoTransfer
    <2>3. Account(w)'
      BY <1>1, <2>1, <2>2, GotoMoves DEF Account
    <2> QED
      BY <1>1, <2>1, <2>2, <2>3, GotoMoves, AccountStep DEF TypeOK
  <1>7. CASE AutoProcess(w) \/ AutoComplete(w) \/ AutoFail(w)
    <2>1. /\ UNCHANGED <<body, target, reserved, refunds>>
          /\ status'[w] # "none"
          /\ \A v \in Withdrawals \ {w} : status'[v] = status[v]
      BY <1>7 DEF AutoProcess, AutoComplete, AutoFail, CompletedAs, TypeOK
    <2>2. \/ pc[w] = "process" /\ Goto(w, "complete")
          \/ pc[w] = "complete" /\ Goto(w, "answered")
          \/ pc[w] = "fail" /\ Goto(w, "refunded")
      BY <1>7 DEF AutoProcess, AutoComplete, AutoFail
    <2>3. Account(w)' /\ status[w] # "none"
      BY <1>1, <2>1, <2>2, GotoMoves DEF Account
    <2> QED
      BY <1>1, <2>1, <2>2, <2>3, GotoMoves, AccountStep DEF TypeOK
  <1> QED
    BY <1>2, <1>3, <1>4, <1>5, <1>6, <1>7 DEF CreateStep

LEMMA AdminAccount ==
    ASSUME TypeOK, AccountInv, NEW a \in Admins,
           AdminStep(a) \/ \E w \in Withdrawals : AdminStart(a, w)
    PROVE  AccountInv'
  <1> USE DEF docVars, inputVars, moneyVars, ReadOnly
  <1>1. a \notin Withdrawals /\ target[a] \in Withdrawals
    BY WithdrawalAssumption DEF TypeOK
  <1>2. ASSUME NEW w \in Withdrawals, AdminStart(a, w)
        PROVE  AccountInv'
    <2>1. PICK label \in AdminPCs : StartAdmin(a, w, label)
      BY <1>2 DEF AdminStart, ProcessStart, CompleteStart, FailStart,
                  CancelStart, AdminPCs
    <2>2. status[w] # "none"
      BY <1>2 DEF AdminStart, ProcessStart, CompleteStart, FailStart,
                  CancelStart, Processable, Completable, Failable, Open
    <2>3. /\ UNCHANGED <<body, status, reserved, refunds>>
          /\ target' = [target EXCEPT ![a] = w]
          /\ Goto(a, label)
      BY <2>1 DEF StartAdmin
    <2>4. /\ target' \in [Admins -> Withdrawals]
          /\ target'[a] = w
          /\ \A b \in Admins \ {a} : target'[b] = target[b]
      BY <2>3 DEF TypeOK
    <2> QED
      BY <1>1, <2>2, <2>3, <2>4, GotoMoves, AccountStep
  <1>3. CASE TransferByHand(a) \/ Recheck(a)
    <2>1. UNCHANGED <<body, status, target, reserved, refunds>>
      BY <1>3 DEF TransferByHand, Recheck
    <2>2. /\ pc[a] # "idle"
          /\ \E label \in AdminPCs : Goto(a, label)
      BY <1>3 DEF TransferByHand, Recheck, AdminPCs
    <2> QED
      BY <1>1, <2>1, <2>2, GotoMoves, AccountStep DEF TypeOK, AccountInv
  <1>4. CASE StartProcessing(a) \/ MarkCompleted(a) \/ MarkFailed(a)
    <2>1. /\ UNCHANGED <<body, target, reserved, refunds>>
          /\ status'[target[a]] # "none"
          /\ \A v \in Withdrawals \ {target[a]} : status'[v] = status[v]
          /\ pc[a] # "idle"
          /\ Goto(a, "idle")
      BY <1>1, <1>4 DEF StartProcessing, MarkCompleted, MarkFailed, TypeOK
    <2>2. status[target[a]] # "none"
      BY <2>1 DEF AccountInv
    <2> QED
      BY <1>1, <2>1, <2>2, GotoMoves, AccountStep DEF TypeOK
  <1> QED
    BY <1>2, <1>3, <1>4 DEF AdminStep

\* No error and no crash has happened yet, and the accounts are in order.
UnharmedAccounts == faults = 0 => AccountInv

LEMMA AccountInvariant == Spec => []UnharmedAccounts
  <1>1. Init => UnharmedAccounts
    BY WithdrawalAssumption DEF Init, UnharmedAccounts, AccountInv, KeysUnique, Account
  <1>2. TypeOK /\ UnharmedAccounts /\ [Next]_vars => UnharmedAccounts'
    <2> SUFFICES ASSUME TypeOK, UnharmedAccounts, [Next]_vars, faults' = 0
                 PROVE  AccountInv'
      BY DEF UnharmedAccounts
    <2>1. ~Fault
      BY DEF Fault, TypeOK
    <2>2. CASE \E w \in Withdrawals : CreateStep(w)
      <3>1. faults' = faults
        BY <2>2 DEF CreateStep, ReadUser, FindKey, Count, Reserve, Save, Unsave, AutoTransfer,
                    AutoProcess, AutoComplete, AutoRefund, AutoFail, inputVars, ReadOnly
      <3> QED
        BY <2>2, <3>1, CreateAccount DEF UnharmedAccounts
    <2>3. CASE \E a \in Admins :
                 AdminStep(a) \/ \E w \in Withdrawals : AdminStart(a, w)
      <3>1. faults' = faults
        BY <2>3 DEF AdminStep, TransferByHand, StartProcessing, MarkCompleted, Recheck,
                    MarkFailed, AdminStart, ProcessStart, CompleteStart, FailStart, CancelStart, StartAdmin,
                    ReadOnly
      <3> QED
        BY <2>3, <3>1, AdminAccount DEF UnharmedAccounts
    <2>4. CASE UNCHANGED vars
      BY <2>4 DEF vars, moneyVars, docVars, inputVars, AccountInv, KeysUnique,
                  Account, UnharmedAccounts
    <2> QED
      BY <2>1, <2>2, <2>3, <2>4 DEF Next, CreateError, Crash, AdminError
  <1> QED
    BY <1>1, <1>2, InitType, NextType, PTL DEF Spec

\* Without faults, create loses no reservation: what a finished request has
\* taken is accounted for by a document, or back in the balance.
THEOREM ReservationsAccounted == Spec => []ReservationAccounted
  <1>1. UnharmedAccounts => ReservationAccounted
    BY DEF UnharmedAccounts, AccountInv, Account, ReservationAccounted
  <1> QED
    BY <1>1, AccountInvariant, PTL

\* Without faults, an idempotency key withdraws once, however many requests of
\* its freelancer carry it at the same time.
THEOREM KeysWithdrawOnce == Spec => []KeyWithdrawsOnce
  <1>1. UnharmedAccounts => KeyWithdrawsOnce
    BY DEF UnharmedAccounts, AccountInv, Account, KeysUnique, KeyWithdrawsOnce, Ends
  <1> QED
    BY <1>1, AccountInvariant, PTL

(***************************************************************************)
(* Withdrawals implement the freelancers' accounts, errors and crashes     *)
(* included.  A request that may still give money back has taken it, and   *)
(* has not given it back yet.                                              *)
(***************************************************************************)
Held(w) ==
    /\ refunds[w] \in {0, 1}
    /\ pc[w] \in {"new", "findkey", "count", "reserve"} =>
         ~reserved[w] /\ refunds[w] = 0
    /\ pc[w] \in {"save", "unsave", "transfer", "process", "complete", "refund"} =>
         reserved[w] /\ refunds[w] = 0

HeldInv == \A w \in Withdrawals : Held(w)

\* A step that moves no money and no request from before its reservation to
\* after it.
LEMMA HeldStep ==
    ASSUME TypeOK, HeldInv, UNCHANGED <<reserved, refunds>>,
           NEW r \in Withdrawals \cup Admins, NEW label, Goto(r, label),
           r \in Withdrawals =>
              \/ label \notin CreatePCs \ Ends
              \/ label = "fail"
              \/ /\ pc[r] \in {"new", "findkey", "count"}
                 /\ label \in {"findkey", "count", "reserve"}
              \/ /\ pc[r] \in {"save", "transfer", "process", "complete"}
                 /\ label \in {"unsave", "transfer", "process", "complete",
                               "refund"}
    PROVE  HeldInv'
  <1> SUFFICES ASSUME NEW w \in Withdrawals
               PROVE  Held(w)'
    BY DEF HeldInv
  <1>1. Held(w)
    BY DEF HeldInv
  <1>2. CASE w # r
    BY <1>1, <1>2, GotoMoves DEF Held
  <1>3. CASE w = r
    <2>1. pc'[w] = label
      BY <1>3, GotoMoves
    <2> QED
      BY <1>1, <1>3, <2>1 DEF Held, CreatePCs, Ends
  <1> QED
    BY <1>2, <1>3

LEMMA HeldCreate ==
    ASSUME TypeOK, HeldInv, NEW w \in Withdrawals,
           \/ ReadUser(w) \/ FindKey(w) \/ Count(w) \/ Save(w)
           \/ AutoTransfer(w) \/ AutoProcess(w) \/ AutoComplete(w)
           \/ AutoFail(w)
    PROVE  HeldInv' /\ UNCHANGED <<body, moneyVars>>
  <1> USE DEF docVars, inputVars, moneyVars, ReadOnly
  <1>1. UNCHANGED <<body, moneyVars>>
    BY DEF ReadUser, FindKey, Count, Save, AutoTransfer, AutoProcess,
           AutoComplete, AutoFail
  <1>2. CASE ReadUser(w) \/ FindKey(w) \/ Count(w)
    <2>1. PICK label \in {"findkey", "count", "answered", "reserve", "refused"} :
             Goto(w, label)
      BY <1>2 DEF ReadUser, FindKey, Count
    <2>2. pc[w] \in {"new", "findkey", "count"}
      BY <1>2 DEF ReadUser, FindKey, Count
    <2> QED
      BY <1>1, <2>1, <2>2, HeldStep DEF Ends
  <1>3. CASE Save(w) \/ AutoTransfer(w) \/ AutoProcess(w) \/ AutoComplete(w)
    <2>1. PICK label \in {"transfer", "answered", "unsave", "process", "refund",
                          "complete"} : Goto(w, label)
      BY <1>3 DEF Save, OnDuplicate, AutoTransfer, AutoProcess, AutoComplete
    <2>2. pc[w] \in {"save", "transfer", "process", "complete"}
      BY <1>3 DEF Save, AutoTransfer, AutoProcess, AutoComplete
    <2> QED
      BY <1>1, <2>1, <2>2, HeldStep DEF Ends
  <1>4. CASE AutoFail(w)
    <2>1. Goto(w, "refunded")
      BY <1>4 DEF AutoFail
    <2> QED
      BY <1>1, <2>1, HeldStep DEF Ends
  <1> QED
    BY <1>1, <1>2, <1>3, <1>4

LEMMA HeldFault ==
    ASSUME TypeOK, HeldInv, NEW w \in Withdrawals, CreateError(w) \/ Crash(w)
    PROVE  HeldInv' /\ UNCHANGED <<body, moneyVars>>
  <1>1. UNCHANGED <<body, moneyVars>>
    BY DEF CreateError, Crash, moneyVars, inputVars
  <1>2. CASE Crash(w)
    BY <1>1, <1>2, HeldStep DEF Crash, Ends, moneyVars
  <1>3. CASE CreateError(w)
    <2>1. Goto(w, AfterError(w))
      BY <1>3 DEF CreateError
    <2>2. \/ AfterError(w) \in Ends
          \/ pc[w] = "save" /\ AfterError(w) = "unsave"
          \/ pc[w] \in {"process", "complete"} /\ AfterError(w) = "refund"
      BY DEF AfterError, Ends
    <2> QED
      BY <1>1, <2>1, <2>2, HeldStep DEF Ends, moneyVars
  <1> QED
    BY <1>1, <1>2, <1>3

LEMMA HeldAdmin ==
    ASSUME TypeOK, HeldInv, NEW a \in Admins,
           \/ AdminStep(a) \/ AdminError(a)
           \/ \E w \in Withdrawals : AdminStart(a, w)
    PROVE  HeldInv' /\ UNCHANGED <<body, moneyVars>>
  <1> USE DEF docVars, inputVars, moneyVars, ReadOnly
  <1>1. PICK label : Goto(a, label) /\ UNCHANGED <<body, moneyVars>>
    BY DEF AdminStep, TransferByHand, StartProcessing, MarkCompleted, Recheck,
           MarkFailed, AdminError, AdminStart, ProcessStart, CompleteStart,
           FailStart, CancelStart, StartAdmin
  <1>2. a \notin Withdrawals
    BY WithdrawalAssumption
  <1> QED
    BY <1>1, <1>2, HeldStep

\* The two ways a request moves money are the account's.
LEMMA ReserveWithdraws ==
    ASSUME TypeOK, HeldInv, NEW w \in Withdrawals, Reserve(w)
    PROVE  HeldInv' /\ [Accounts!Next]_(Accounts!vars)
  <1> USE DEF docVars, inputVars
  <1>1. Held(w) /\ pc[w] = "reserve" /\ body' = body /\ refunds' = refunds
    BY DEF HeldInv, Reserve
  <1>2. CASE UNCHANGED <<balance, reserved>> /\ Goto(w, "refused")
    <2>1. HeldInv'
      BY <1>1, <1>2, HeldStep DEF Ends
    <2> QED
      BY <1>1, <1>2, <2>1 DEF Accounts!vars, Taken
  <1>3. CASE /\ Covers(w)
             /\ balance' = [balance EXCEPT ![body[w].owner] = @ - body[w].amount]
             /\ reserved' = [reserved EXCEPT ![w] = TRUE]
             /\ Goto(w, "save")
    <2>1. ~reserved[w] /\ refunds[w] = 0
      BY <1>1 DEF Held
    <2>2. /\ reserved'[w]
          /\ \A v \in Withdrawals \ {w} : reserved'[v] = reserved[v]
      BY <1>3 DEF TypeOK
    <2>3. HeldInv'
      BY <1>1, <1>3, <2>1, <2>2, GotoMoves DEF HeldInv, Held
    <2>4. body[w].owner \in Freelancers /\ body[w].amount \in Nat
      BY BodyType
    <2>5. /\ Taken(w) = "no" /\ Taken(w)' = "yes"
          /\ \A v \in Withdrawals \ {w} : Taken(v)' = Taken(v)
      BY <1>1, <2>1, <2>2 DEF Taken
    <2>6. body[w].amount <= balance[body[w].owner]
      BY <1>3, <2>4 DEF Covers, TypeOK
    <2>7. Accounts!Withdraw(w)
      BY <1>1, <1>3, <2>5, <2>6 DEF Accounts!Withdraw
    <2> QED
      BY <2>3, <2>7 DEF Accounts!Next
  <1> QED
    BY <1>2, <1>3 DEF Reserve

LEMMA GiveBackReturns ==
    ASSUME TypeOK, HeldInv, NEW w \in Withdrawals, Unsave(w) \/ AutoRefund(w)
    PROVE  HeldInv' /\ [Accounts!Next]_(Accounts!vars)
  <1> USE DEF docVars, inputVars
  <1>1. /\ Held(w) /\ pc[w] \in {"unsave", "refund"}
        /\ GiveBack(w) /\ UNCHANGED <<body, reserved>>
        /\ Goto(w, "refunded") \/ Goto(w, "fail")
    BY DEF HeldInv, Unsave, AutoRefund, GiveBack
  <1>2. reserved[w] /\ refunds[w] = 0
    BY <1>1 DEF Held
  <1>3. /\ refunds'[w] = 1
        /\ \A v \in Withdrawals \ {w} : refunds'[v] = refunds[v]
    BY <1>1, <1>2 DEF GiveBack, TypeOK
  <1>4. HeldInv'
    BY <1>1, <1>2, <1>3, GotoMoves DEF HeldInv, Held
  <1>5. body[w].owner \in Freelancers /\ body[w].amount \in Nat
    BY BodyType
  <1>6. /\ Taken(w) = "yes" /\ Taken(w)' = "returned"
        /\ \A v \in Withdrawals \ {w} : Taken(v)' = Taken(v)
    BY <1>1, <1>2, <1>3 DEF Taken
  <1>7. balance' = [balance EXCEPT ![body[w].owner] = @ + body[w].amount]
    BY <1>1 DEF GiveBack
  <1>8. Accounts!Return(w)
    BY <1>1, <1>6, <1>7 DEF Accounts!Return
  <1> QED
    BY <1>4, <1>8 DEF Accounts!Next

\* Whatever the requests, errors and crashes, withdrawals implement the
\* freelancers' accounts: they never overdraw one, and what a request gives
\* back is what it took, and it gives it back once.
THEOREM ImplementsAccounts == Spec => KeepAccounts
  <1>1. Init => HeldInv /\ Accounts!Init
    <2> SUFFICES ASSUME Init
                 PROVE  HeldInv /\ Accounts!Init
      OBVIOUS
    <2>1. HeldInv
      BY DEF Init, HeldInv, Held
    <2>2. balance \in [Freelancers -> Nat]
      BY WithdrawalAssumption DEF Init
    <2>3. \A w \in Withdrawals :
             body[w].owner \in Freelancers /\ body[w].amount \in Nat
      BY WithdrawalAssumption DEF Init, Bodies
    <2> QED
      BY <2>1, <2>2, <2>3 DEF Init, Accounts!Init, Taken
  <1>2. TypeOK /\ HeldInv /\ [Next]_vars =>
           HeldInv' /\ [Accounts!Next]_(Accounts!vars)
    <2> SUFFICES ASSUME TypeOK, HeldInv, [Next]_vars
                 PROVE  HeldInv' /\ [Accounts!Next]_(Accounts!vars)
      OBVIOUS
    <2>1. ASSUME NEW w \in Withdrawals, CreateStep(w)
          PROVE  HeldInv' /\ (UNCHANGED <<body, moneyVars>>
                                 \/ [Accounts!Next]_(Accounts!vars))
      BY <2>1, ReserveWithdraws, GiveBackReturns, HeldCreate DEF CreateStep
    <2>2. ASSUME NEW w \in Withdrawals, CreateError(w) \/ Crash(w)
          PROVE  HeldInv' /\ UNCHANGED <<body, moneyVars>>
      BY <2>2, HeldFault
    <2>3. ASSUME NEW a \in Admins,
                 \/ AdminStep(a) \/ AdminError(a)
                 \/ \E w \in Withdrawals : AdminStart(a, w)
          PROVE  HeldInv' /\ UNCHANGED <<body, moneyVars>>
      BY <2>3, HeldAdmin
    <2>4. ASSUME UNCHANGED vars
          PROVE  HeldInv'
      BY <2>4 DEF vars, moneyVars, HeldInv, Held
    <2>5. UNCHANGED <<body, moneyVars>> => UNCHANGED Accounts!vars
      BY DEF moneyVars, Accounts!vars, Taken
    <2>6. UNCHANGED vars => UNCHANGED <<body, moneyVars>>
      BY DEF vars, moneyVars, inputVars
    <2> QED
      BY <2>1, <2>2, <2>3, <2>4, <2>5, <2>6 DEF Next
  <1> QED
    BY <1>1, <1>2, InitType, NextType, PTL DEF Spec, KeepAccounts, Accounts!Spec

=============================================================================

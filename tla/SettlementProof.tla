---------------------------- MODULE SettlementProof ----------------------------
(***************************************************************************)
(* Proofs about Settlement, for every set of scopes, wallets and requests. *)
(*                                                                         *)
(* The order is: types (Typed), the life of one request (Lifecycle), then  *)
(* the store (RecordNamesItsTransaction) and the undisturbed scopes        *)
(* (Clean), whose conclusion is that such a scope is charged at most once. *)
(***************************************************************************)
EXTENDS Settlement, TLAPS

\* A request that was made has its scope, wallet and kind.
Made ==
    \A r \in Requests :
        pc[r] # "idle" => /\ req[r].kind \in {"settle", "direct"}
                          /\ req[r].scope \in Scopes
                          /\ req[r].wallet \in Wallets

Typed == TypeOK /\ Made

\* What a handler reads later is a number of the request's record.
LEMMA RequestAmount ==
    ASSUME NEW r \in Requests, NEW n \in Nat, req \in [Requests -> Request]
    PROVE  [req EXCEPT ![r].amount = n] \in [Requests -> Request]
<1>1. [req[r] EXCEPT !.amount = n] \in Request
  BY DEF Request
<1>2. QED
  BY <1>1

LEMMA RequestSeq ==
    ASSUME NEW r \in Requests, NEW n \in Nat, req \in [Requests -> Request]
    PROVE  [req EXCEPT ![r].seq = n] \in [Requests -> Request]
<1>1. [req[r] EXCEPT !.seq = n] \in Request
  BY DEF Request
<1>2. QED
  BY <1>1

\* Types are preserved by every step.
LEMMA TypedStep == Typed /\ [Next]_vars => Typed'
<1> SUFFICES ASSUME Typed, [Next]_vars
             PROVE  Typed'
  OBVIOUS
<1> USE OwnerAssumption, MaxCostAssumption
        DEF Typed, TypeOK, Made, Record, Request, Committed, Suspended,
            usageVars, reqVars, storeVars, chainVars
<1>1. ASSUME NEW s \in Scopes, NEW m \in Models, RecordUsage(s, m)
      PROVE  Typed'
  BY <1>1 DEF RecordUsage
<1>2. ASSUME NEW r \in Requests, NEW kind \in {"settle", "direct"},
             NEW s \in Scopes, NEW w \in Wallets, Begin(r, kind, s, w)
      PROVE  Typed'
  BY <1>2 DEF Begin
<1>3. ASSUME NEW r \in Requests,
             \/ Refuse(r) \/ RefuseSettled(r) \/ ProfileMissing(r) \/ SendFails(r)
      PROVE  Typed'
  BY <1>3 DEF Refuse, RefuseSettled, ProfileMissing, SendFails, Answer
<1>4. ASSUME NEW r \in Requests, Commit(r)
      PROVE  Typed'
  <2>1. req[r].scope \in Scopes
    BY <1>4 DEF Commit
  <2>2. req' \in [Requests -> Request]
    BY <1>4, <2>1, RequestAmount DEF Commit
  <2>3. disturbed' \subseteq Scopes
    BY <1>4, <2>1 DEF Commit
  <2>4. pc' \in [Requests -> {"idle", "signing", "done"} \cup Suspended]
    BY <1>4 DEF Commit
  <2>5. Made'
    BY <1>4 DEF Commit
  <2>6. QED
    BY <1>4, <2>2, <2>3, <2>4, <2>5 DEF Commit
<1>5. ASSUME NEW r \in Requests, ReadProfile(r)
      PROVE  Typed'
  <2>1. usageSequence[req[r].wallet] \in Nat
    BY <1>5 DEF ReadProfile
  <2>2. req' \in [Requests -> Request]
    BY <1>5, <2>1, RequestSeq DEF ReadProfile, NextSequence
  <2>3. pc' \in [Requests -> {"idle", "signing", "done"} \cup Suspended]
    <3>1. CASE req[r].kind = "settle"
      BY <1>5, <3>1 DEF ReadProfile
    <3>2. CASE req[r].kind # "settle"
      BY <1>5, <3>2 DEF ReadProfile
    <3>3. QED
      BY <3>1, <3>2
  <2>4. Made'
    BY <1>5 DEF ReadProfile
  <2>5. reply' \in [Requests -> {"none", "prepared", "submitted", "settled",
                                 "already_settled", "refused", "error"}]
    BY <1>5 DEF ReadProfile
  <2>6. QED
    BY <1>5, <2>2, <2>3, <2>4, <2>5 DEF ReadProfile
<1>6. ASSUME NEW r \in Requests, Accept(r)
      PROVE  Typed'
  BY <1>6 DEF Accept
<1>7. ASSUME NEW r \in Requests, AnswerLost(r)
      PROVE  Typed'
  BY <1>7 DEF AnswerLost, Answer
<1>8. ASSUME NEW r \in Requests, RecordSettlement(r) \/ SaveFails(r)
      PROVE  Typed'
  <2>1. SettlementRecord(r) \in Record
    BY DEF SettlementRecord
  <2>2. memory' \in [Scopes -> Record \cup {NoRecord}]
    BY <1>8, <2>1 DEF RecordSettlement, SaveFails
  <2>3. disk' \in [Scopes -> Record \cup {NoRecord}]
    BY <1>8, <2>2 DEF RecordSettlement, SaveFails, Empty
  <2>4. QED
    BY <1>8, <2>2, <2>3 DEF RecordSettlement, SaveFails, Answer
<1>9. ASSUME NEW r \in Requests, SubmitSigned(r)
      PROVE  Typed'
  BY <1>9 DEF SubmitSigned, Answer
<1>10. ASSUME NEW r \in Requests, Land(r) \/ Drop(r)
       PROVE  Typed'
  <2>1. CASE Land(r)
    <3>1. usageSequence' = [w \in Wallets |-> IF w = req[r].wallet
                                               THEN usageSequence[w] + 1
                                               ELSE usageSequence[w]]
      BY <2>1 DEF Land
    <3>2. usageSequence' \in [Wallets -> Nat]
      BY <3>1
    <3>3. fate' \in [Requests -> {"unsent", "pending", "landed", "dropped"}]
      BY <2>1 DEF Land
    <3>4. QED
      BY <2>1, <3>2, <3>3 DEF Land
  <2>2. CASE Drop(r)
    BY <2>2 DEF Drop
  <2>3. QED
    BY <1>10, <2>1, <2>2
<1>11. ASSUME NEW file \in [Scopes -> Record \cup {NoRecord}], RestartFrom(file)
       PROVE  Typed'
  BY <1>11 DEF RestartFrom, Load
<1>12. ASSUME NEW r \in Requests, CrashInSave(r)
       PROVE  Typed'
  BY <1>11, <1>12 DEF CrashInSave, Empty
<1>13. CASE Crash
  BY <1>11, <1>13 DEF Crash
<1>14. CASE UNCHANGED vars
  BY <1>14 DEF vars
<1>15. QED
  BY <1>1, <1>2, <1>3, <1>4, <1>5, <1>6, <1>7, <1>8, <1>9, <1>10, <1>12,
     <1>13, <1>14 DEF Next, Handler

LEMMA TypedInvariant == Spec => []Typed
<1>1. Init => Typed
  BY MaxCostAssumption DEF Init, Typed, TypeOK, Made, Request, Empty
<1>2. QED
  BY <1>1, TypedStep, PTL DEF Spec

\* Every reachable state has the types TypeOK gives: in particular the store
\* only ever holds well-formed records, in memory and on file.
THEOREM TypeCorrectness == Spec => []TypeOK
<1>1. Typed => TypeOK
  BY DEF Typed
<1>2. QED
  BY <1>1, TypedInvariant, PTL


-----------------------------------------------------------------------------
(* The life of one request: a transaction exists only from "sent" on, and    *)
(* was built for the scope's owner.                                          *)

Life(r) ==
    /\ fate[r] # "unsent" => pc[r] \in {"sent", "done"}
    /\ pc[r] = "sent" => fate[r] # "unsent"
    /\ pc[r] \in {"sending", "sent"} => req[r].kind = "settle"
    /\ pc[r] = "signing" => req[r].kind = "direct"
    /\ (fate[r] # "unsent" \/ pc[r] \in Committed \cup {"signing"})
       => req[r].wallet = Owner[req[r].scope]
    /\ reply[r] = "settled" => /\ pc[r] = "done"
                               /\ fate[r] # "unsent"
                               /\ req[r].kind = "settle"

Lifecycle == \A r \in Requests : Life(r)

LEMMA LifecycleStep == Typed /\ Lifecycle /\ [Next]_vars => Lifecycle'
<1> SUFFICES ASSUME Typed, Lifecycle, [Next]_vars, NEW q \in Requests
             PROVE  Life(q)'
  BY DEF Lifecycle
<1>0. Life(q)
  BY DEF Lifecycle
<1> USE <1>0 DEF Typed, TypeOK, Request, Life, Committed, Suspended,
            usageVars, reqVars, storeVars, chainVars
<1>1. ASSUME NEW s \in Scopes, NEW m \in Models, RecordUsage(s, m)
      PROVE  Life(q)'
  BY <1>1 DEF RecordUsage
<1>2. ASSUME NEW r \in Requests, NEW kind \in {"settle", "direct"},
             NEW s \in Scopes, NEW w \in Wallets, Begin(r, kind, s, w)
      PROVE  Life(q)'
  BY <1>2 DEF Begin
<1>3. ASSUME NEW r \in Requests,
             \/ Refuse(r) \/ RefuseSettled(r) \/ ProfileMissing(r) \/ SendFails(r)
      PROVE  Life(q)'
  BY <1>3 DEF Refuse, RefuseSettled, ProfileMissing, SendFails, Answer
<1>4. ASSUME NEW r \in Requests, Commit(r)
      PROVE  Life(q)'
  BY <1>4 DEF Commit, Previewable
<1>5. ASSUME NEW r \in Requests, ReadProfile(r)
      PROVE  Life(q)'
  <2>1. /\ req'[q].kind = req[q].kind
        /\ req'[q].scope = req[q].scope
        /\ req'[q].wallet = req[q].wallet
    BY <1>5 DEF ReadProfile
  <2>2. CASE req[r].kind = "settle"
    BY <1>5, <2>1, <2>2 DEF ReadProfile
  <2>3. CASE req[r].kind # "settle"
    BY <1>5, <2>1, <2>3 DEF ReadProfile, Made
  <2>4. QED
    BY <2>2, <2>3
<1>6. ASSUME NEW r \in Requests, Accept(r)
      PROVE  Life(q)'
  BY <1>6 DEF Accept
<1>7. ASSUME NEW r \in Requests, AnswerLost(r)
      PROVE  Life(q)'
  BY <1>7 DEF AnswerLost, Answer
<1>8. ASSUME NEW r \in Requests, RecordSettlement(r) \/ SaveFails(r)
      PROVE  Life(q)'
  BY <1>8 DEF RecordSettlement, SaveFails, Answer
<1>9. ASSUME NEW r \in Requests, SubmitSigned(r)
      PROVE  Life(q)'
  BY <1>9 DEF SubmitSigned, Answer
<1>10. ASSUME NEW r \in Requests, Land(r) \/ Drop(r)
       PROVE  Life(q)'
  BY <1>10 DEF Land, Drop
<1>11. ASSUME NEW file, RestartFrom(file)
       PROVE  Life(q)'
  BY <1>11 DEF RestartFrom
<1>12. ASSUME NEW r \in Requests, CrashInSave(r)
       PROVE  Life(q)'
  BY <1>11, <1>12 DEF CrashInSave
<1>13. CASE Crash
  BY <1>11, <1>13 DEF Crash
<1>14. CASE UNCHANGED vars
  BY <1>14 DEF vars
<1>15. QED
  BY <1>1, <1>2, <1>3, <1>4, <1>5, <1>6, <1>7, <1>8, <1>9, <1>10, <1>12,
     <1>13, <1>14 DEF Next, Handler

LEMMA LifecycleInvariant == Spec => [](Typed /\ Lifecycle)
<1>1. Init => Lifecycle
  BY DEF Init, Lifecycle, Life, Committed
<1>2. QED
  BY <1>1, TypedInvariant, LifecycleStep, PTL DEF Spec

\* No transaction that charges a wallet for another wallet's scope is ever sent.
THEOREM OwnerOnly == Spec => []OnlyTheOwnerIsCharged
<1>1. Lifecycle => OnlyTheOwnerIsCharged
  BY DEF Lifecycle, Life, OnlyTheOwnerIsCharged
<1>2. QED
  BY <1>1, LifecycleInvariant, PTL

\* Once a transaction is sent, nothing changes what it was built from.
LEMMA SentIsFrozen ==
    ASSUME Typed, Lifecycle, [Next]_vars, NEW q \in Requests, fate[q] # "unsent"
    PROVE  req'[q] = req[q] /\ fate'[q] # "unsent"
<1> USE DEF Typed, TypeOK, Lifecycle, Life, usageVars, reqVars, storeVars, chainVars
<1>1. ASSUME NEW r \in Requests, Handler(r)
      PROVE  req'[q] = req[q] /\ fate'[q] # "unsent"
  BY <1>1 DEF Handler, Refuse, RefuseSettled, Commit, ReadProfile, ProfileMissing,
              Accept, SendFails, AnswerLost, RecordSettlement, SaveFails
<1>2. ASSUME NEW r \in Requests,
             \/ SubmitSigned(r) \/ Land(r) \/ Drop(r) \/ CrashInSave(r)
      PROVE  req'[q] = req[q] /\ fate'[q] # "unsent"
  BY <1>2 DEF SubmitSigned, Land, Drop, CrashInSave, RestartFrom
<1>3. ASSUME NEW r \in Requests, NEW kind, NEW s, NEW w, Begin(r, kind, s, w)
      PROVE  req'[q] = req[q] /\ fate'[q] # "unsent"
  BY <1>3 DEF Begin
<1>4. QED
  BY <1>1, <1>2, <1>3 DEF Next, RecordUsage, Crash, RestartFrom, vars

\* A record of the store is of a transaction a settle request of that scope
\* sent, with the sequence and amount it was built with, in every state.
LEMMA RecordsStep ==
    ASSUME Typed, Lifecycle, [Next]_vars, RecordNamesItsTransaction
    PROVE  RecordNamesItsTransaction'
<1> DEFINE Names(s, rec) == /\ fate[rec.sig] # "unsent"
                            /\ req[rec.sig].kind = "settle"
                            /\ req[rec.sig].scope = s
                            /\ req[rec.sig].seq = rec.seq
                            /\ req[rec.sig].amount = rec.amount
<1>1. ASSUME NEW s \in Scopes, NEW rec \in Record, Names(s, rec)
      PROVE  Names(s, rec)'
  BY <1>1, SentIsFrozen DEF Record
<1>2. ASSUME NEW s \in Scopes, NEW rec \in {memory'[s], disk'[s]}
      PROVE  \/ rec \in {memory[s], disk[s], NoRecord}
             \/ rec \in Record /\ Names(s, rec)
  <2> USE DEF usageVars, reqVars, storeVars, chainVars
  <2>1. ASSUME NEW r \in Requests, RecordSettlement(r) \/ SaveFails(r)
        PROVE  \/ rec \in {memory[s], disk[s], NoRecord}
               \/ rec \in Record /\ Names(s, rec)
    <3>1. memory'[s] = IF req[r].scope = s THEN SettlementRecord(r) ELSE memory[s]
      BY <2>1 DEF RecordSettlement, SaveFails, Typed, TypeOK
    <3>2. disk'[s] \in {memory'[s], disk[s], NoRecord}
      BY <2>1 DEF RecordSettlement, SaveFails, Empty
    <3>3. SettlementRecord(r) \in Record
      BY DEF SettlementRecord, Record, Request, Typed, TypeOK
    <3>4. req[r].scope = s => Names(s, SettlementRecord(r))
      BY <2>1 DEF RecordSettlement, SaveFails, SettlementRecord, Lifecycle, Life
    <3>5. QED
      BY <3>1, <3>2, <3>3, <3>4
  <2>2. ASSUME NEW r \in Requests, CrashInSave(r)
        PROVE  rec \in {memory[s], disk[s], NoRecord}
    BY <2>2 DEF CrashInSave, RestartFrom, Load, Empty
  <2>3. CASE Crash
    BY <2>3 DEF Crash, RestartFrom, Load
  <2>4. CASE UNCHANGED storeVars
    BY <2>4
  <2>5. QED
    BY <2>1, <2>2, <2>3, <2>4
    DEF Next, Handler, RecordUsage, Begin, Refuse, RefuseSettled, Commit,
        ReadProfile, ProfileMissing, Accept, SendFails, AnswerLost,
        SubmitSigned, Land, Drop, vars
<1>3. ASSUME NEW s \in Scopes, NEW rec \in {memory'[s], disk'[s]} \ {NoRecord}
      PROVE  Names(s, rec)'
  <2>1. rec \in Record /\ Names(s, rec)
    BY <1>2 DEF RecordNamesItsTransaction, Typed, TypeOK
  <2>2. QED
    BY <1>1, <2>1
<1>4. QED
  BY <1>3 DEF RecordNamesItsTransaction

\* The store never names a transaction other than the one that settled the
\* scope, whatever crashes, lost answers and failed saves happen.
THEOREM RecordsAreFaithful == Spec => []RecordNamesItsTransaction
<1>1. Init => RecordNamesItsTransaction
  BY DEF Init, Empty, RecordNamesItsTransaction
<1>2. QED
  BY <1>1, LifecycleInvariant, RecordsStep, PTL DEF Spec

-----------------------------------------------------------------------------
(* A scope that nothing has disturbed                                        *)

SettleInFlight(r, s) ==
    req[r].kind = "settle" /\ req[r].scope = s /\ pc[r] \in Committed

Sent(r, s) == fate[r] # "unsent" /\ req[r].scope = s

CleanScope(s) ==
    /\ \A q, r \in Requests :
          SettleInFlight(q, s) /\ SettleInFlight(r, s) => q = r
    /\ \A r \in Requests : SettleInFlight(r, s) => memory[s] = NoRecord
    /\ \A r \in Requests : Sent(r, s) =>
          /\ req[r].kind = "settle"
          /\ pc[r] = "sent" \/ memory[s] # NoRecord
    /\ \A q, r \in Requests : Sent(q, s) /\ Sent(r, s) => q = r
    /\ disk[s] # NoRecord => memory[s] = disk[s]
    /\ \A r \in Requests : reply[r] = "settled" /\ req[r].scope = s =>
          memory[s] # NoRecord /\ memory[s].sig = r

Clean == \A s \in Scopes \ disturbed : CleanScope(s)

\* No step takes a scope out of the disturbed ones.
LEMMA DisturbedGrows == Typed /\ [Next]_vars => disturbed \subseteq disturbed'
BY DEF Next, Handler, RecordUsage, Begin, Refuse, RefuseSettled, Commit,
       ReadProfile, ProfileMissing, Accept, SendFails, AnswerLost,
       RecordSettlement, SaveFails, SubmitSigned, Land, Drop, Crash,
       CrashInSave, RestartFrom, vars

LEMMA CleanStep ==
    ASSUME Typed, Lifecycle, Clean, [Next]_vars
    PROVE  Clean'
<1> SUFFICES ASSUME NEW s \in Scopes, s \notin disturbed'
             PROVE  CleanScope(s)'
  BY DEF Clean
<1>0. CleanScope(s)
  BY DisturbedGrows DEF Clean
<1> USE <1>0, NoRecordAssumption
        DEF Typed, TypeOK, Request, Lifecycle, Life, CleanScope, SettleInFlight,
            Sent, Committed, usageVars, reqVars, storeVars, chainVars
<1>1. ASSUME NEW t \in Scopes, NEW m \in Models, RecordUsage(t, m)
      PROVE  CleanScope(s)'
  BY <1>1 DEF RecordUsage
<1>2. ASSUME NEW r \in Requests, NEW kind \in {"settle", "direct"},
             NEW t \in Scopes, NEW w \in Wallets, Begin(r, kind, t, w)
      PROVE  CleanScope(s)'
  BY <1>2 DEF Begin
<1>3. ASSUME NEW r \in Requests,
             \/ Refuse(r) \/ RefuseSettled(r) \/ ProfileMissing(r) \/ SendFails(r)
      PROVE  CleanScope(s)'
  BY <1>3 DEF Refuse, RefuseSettled, ProfileMissing, SendFails, Answer
<1>4. ASSUME NEW r \in Requests, Commit(r)
      PROVE  CleanScope(s)'
  BY <1>4 DEF Commit, AlreadySettled
<1>5. ASSUME NEW r \in Requests, ReadProfile(r)
      PROVE  CleanScope(s)'
  BY <1>5 DEF ReadProfile
<1>6. ASSUME NEW r \in Requests, Accept(r)
      PROVE  CleanScope(s)'
  BY <1>6 DEF Accept
<1>7. ASSUME NEW r \in Requests, AnswerLost(r)
      PROVE  CleanScope(s)'
  BY <1>7 DEF AnswerLost, Answer
<1>8. ASSUME NEW r \in Requests, RecordSettlement(r) \/ SaveFails(r)
      PROVE  CleanScope(s)'
  <2>1. /\ pc[r] = "sent"
        /\ pc' = [pc EXCEPT ![r] = "done"]
        /\ UNCHANGED <<req, fate>>
        /\ \A q \in Requests \ {r} : reply'[q] = reply[q]
    BY <1>8 DEF RecordSettlement, SaveFails, Answer
  <2>2. memory'[s] = IF req[r].scope = s THEN SettlementRecord(r) ELSE memory[s]
    BY <1>8 DEF RecordSettlement, SaveFails
  <2>3. disk'[s] \in {memory'[s], disk[s], NoRecord}
    BY <1>8 DEF RecordSettlement, SaveFails, Empty
  <2>4. SettlementRecord(r).sig = r /\ SettlementRecord(r) # NoRecord
    BY DEF SettlementRecord
  <2>5. CASE req[r].scope = s
    BY <2>1, <2>2, <2>3, <2>4, <2>5
  <2>6. CASE req[r].scope # s
    <3>1. memory'[s] = memory[s]
      BY <2>2, <2>6
    <3>2. \A q \in Requests : req[q].scope = s => pc'[q] = pc[q] /\ reply'[q] = reply[q]
      BY <2>1, <2>6
    <3>3. QED
      BY <2>1, <2>3, <3>1, <3>2
  <2>7. QED
    BY <2>5, <2>6
<1>9. ASSUME NEW r \in Requests, SubmitSigned(r)
      PROVE  CleanScope(s)'
  BY <1>9 DEF SubmitSigned, Answer
<1>10. ASSUME NEW r \in Requests, Land(r) \/ Drop(r)
       PROVE  CleanScope(s)'
  <2>1. UNCHANGED <<pc, req, reply, memory, disk>>
    BY <1>10 DEF Land, Drop
  <2>2. ASSUME NEW q \in Requests
        PROVE  Sent(q, s)' => Sent(q, s)
    BY <1>10 DEF Land, Drop
  <2>3. QED
    BY <2>1, <2>2
<1>11. ASSUME NEW r \in Requests, CrashInSave(r)
       PROVE  CleanScope(s)'
  BY <1>11 DEF CrashInSave, RestartFrom, Load, Empty
<1>12. CASE Crash
  BY <1>12 DEF Crash, RestartFrom, Load
<1>13. CASE UNCHANGED vars
  BY <1>13 DEF vars
<1>14. QED
  BY <1>1, <1>2, <1>3, <1>4, <1>5, <1>6, <1>7, <1>8, <1>9, <1>10, <1>11,
     <1>12, <1>13 DEF Next, Handler

LEMMA CleanInvariant == Spec => [](Typed /\ Lifecycle /\ Clean)
<1>1. Init => Clean
  BY DEF Init, Clean, CleanScope, SettleInFlight, Sent, Committed, Empty
<1>2. QED
  BY <1>1, LifecycleInvariant, CleanStep, PTL DEF Spec

\* A scope that no second settle request, lost answer, crash before the save
\* or direct transaction has disturbed is charged at most once.
THEOREM ChargedAtMostOnce == Spec => []CleanScopeChargedAtMostOnce
<1>1. Clean => CleanScopeChargedAtMostOnce
  BY DEF Clean, CleanScope, Sent, Charges, CleanScopeChargedAtMostOnce
<1>2. QED
  BY <1>1, CleanInvariant, PTL

\* The record of a settlement that was acknowledged survives in every
\* undisturbed scope, so every later settle request of it is refused.
THEOREM AcknowledgementStands == Spec => []AcknowledgedSettlementStands
<1>1. Typed /\ Lifecycle /\ Clean => AcknowledgedSettlementStands
  BY DEF Typed, TypeOK, Made, Lifecycle, Life, Clean, CleanScope,
         AcknowledgedSettlementStands
<1>2. QED
  BY <1>1, CleanInvariant, PTL

=============================================================================

------------------------------ MODULE Settlement ------------------------------
(***************************************************************************)
(* Charging a chat scope's accumulated AI usage to its owner's wallet.     *)
(*                                                                         *)
(* A scope accrues cost while its owner chats.  Two routes turn that cost  *)
(* into an on-chain charge:                                                *)
(*   - "settle": the backend reads a readiness report, looks the scope up  *)
(*     in the settlement store, builds an instruction at the wallet's      *)
(*     current usage sequence, signs it, sends it, and only then writes    *)
(*     the scope to the store (api/routes.py, settle_contract_ai_usage);   *)
(*   - "direct": the backend builds the same instruction unsigned, and the *)
(*     user signs and submits it (prepare_contract_direct_ai_usage,        *)
(*     submit_contract_setup_transaction).                                 *)
(*                                                                         *)
(* Handlers are coroutines of one event loop, so they interleave at their  *)
(* awaits only: pc[r] names the await request r is suspended at, and one   *)
(* action is the code between two awaits.  The chain program and the RPC   *)
(* node are external: a transaction is accepted or refused, may be         *)
(* accepted although its answer is lost, and lands later or never.         *)
(***************************************************************************)
EXTENDS Naturals

CONSTANTS
    Scopes,     \* scope ids (chat sessions)
    Wallets,    \* wallets that sign in
    Owner,      \* the wallet that owns each scope
    Requests,   \* HTTP requests, each made once: the bound on requests
    Models,     \* model ids
    NoScope,    \* scope of a request that was not made yet
    NoWallet,   \* wallet of a request that was not made yet
    NoRecord,   \* the store holds nothing for a scope
    MaxCost     \* bound on the units a scope accrues

ASSUME OwnerAssumption == Owner \in [Scopes -> Wallets]
ASSUME MaxCostAssumption == MaxCost \in Nat
ASSUME NoRecordAssumption ==
    NoRecord \notin [sig : Requests, seq : Nat, amount : Nat]

VARIABLES
    cost,           \* units the service-cost summary of a scope shows
    models,         \* the scope's distinct model ids
    pc,             \* the await a request is suspended at
    req,            \* what a request was made with and has read so far
    fate,           \* what became of the transaction a request built
    reply,          \* the answer of a request
    memory,         \* AiUsageSettlementDatabase.data
    disk,           \* the content of its JSON file
    usageSequence,  \* SpendingProfile.usage_sequence of each wallet
    disturbed       \* history: scopes hit by an event the comments call a disturbance

reqVars   == <<pc, req, reply>>
storeVars == <<memory, disk>>
chainVars == <<fate, usageSequence>>
usageVars == <<cost, models>>
vars == <<cost, models, pc, req, fate, reply, memory, disk, usageSequence,
          disturbed>>

-----------------------------------------------------------------------------

Record == [sig : Requests, seq : Nat, amount : Nat]

Request == [kind : {"none", "settle", "direct"}, scope : Scopes \cup {NoScope},
            wallet : Wallets \cup {NoWallet}, seq : Nat, amount : Nat]

\* Awaits of a handler that has passed the settlement-store check.
Committed == {"profile", "sending", "sent"}
Suspended == {"readiness"} \cup Committed

TypeOK ==
    /\ cost \in [Scopes -> 0..MaxCost]
    /\ models \in [Scopes -> SUBSET Models]
    \* "signing": the unsigned transaction is with the user
    /\ pc \in [Requests -> {"idle", "signing", "done"} \cup Suspended]
    /\ req \in [Requests -> Request]
    /\ fate \in [Requests -> {"unsent", "pending", "landed", "dropped"}]
    /\ reply \in [Requests -> {"none", "prepared", "submitted", "settled",
                               "already_settled", "refused", "error"}]
    /\ memory \in [Scopes -> Record \cup {NoRecord}]
    /\ disk \in [Scopes -> Record \cup {NoRecord}]
    /\ usageSequence \in [Wallets -> Nat]
    /\ disturbed \subseteq Scopes

Empty == [s \in Scopes |-> NoRecord]

Init ==
    /\ cost = [s \in Scopes |-> 0]
    /\ models = [s \in Scopes |-> {}]
    /\ pc = [r \in Requests |-> "idle"]
    /\ req = [r \in Requests |-> [kind |-> "none", scope |-> NoScope,
                                  wallet |-> NoWallet, seq |-> 0, amount |-> 0]]
    /\ fate = [r \in Requests |-> "unsent"]
    /\ reply = [r \in Requests |-> "none"]
    /\ memory = Empty
    /\ disk = Empty
    /\ usageSequence = [w \in Wallets |-> 0]
    /\ disturbed = {}

-----------------------------------------------------------------------------
(* What the handlers read and compute *)

Answer(r, value) ==
    /\ pc' = [pc EXCEPT ![r] = "done"]
    /\ reply' = [reply EXCEPT ![r] = value]

\* A restarted process reads the store back from its file.
MutLoad(file) == Empty
Load(file) == file

MutAlreadySettled(s) == FALSE
AlreadySettled(s) == memory[s] # NoRecord

\* The caller's preview of a scope can be built when the caller owns the scope
\* and the scope has used exactly one model; without usage there is no summary.
MutPreviewable(r) == \E m \in Models : models[req[r].scope] = {m}
Previewable(r) ==
    /\ Owner[req[r].scope] = req[r].wallet
    /\ \E m \in Models : models[req[r].scope] = {m}

MutNextSequence(w) == usageSequence[w] - 1
NextSequence(w) == usageSequence[w]

MutSettlementRecord(r) ==
    [sig |-> r, seq |-> usageSequence[req[r].wallet], amount |-> req[r].amount]
SettlementRecord(r) ==
    [sig |-> r, seq |-> req[r].seq, amount |-> req[r].amount]

-----------------------------------------------------------------------------
(* Usage *)

\* A turn of the scope's chat runs model m and adds to the session cost.
RecordUsage(s, m) ==
    /\ cost[s] < MaxCost
    /\ cost' = [cost EXCEPT ![s] = @ + 1]
    /\ models' = [models EXCEPT ![s] = @ \cup {m}]
    /\ UNCHANGED <<reqVars, chainVars, storeVars, disturbed>>

(* A request, up to the transaction *)

\* Authentication is synchronous: the first await is the readiness report.
Begin(r, kind, s, w) ==
    /\ pc[r] = "idle"
    /\ pc' = [pc EXCEPT ![r] = "readiness"]
    /\ req' = [req EXCEPT ![r] = [kind |-> kind, scope |-> s, wallet |-> w,
                                  seq |-> 0, amount |-> 0]]
    /\ UNCHANGED <<usageVars, reply, chainVars, storeVars, disturbed>>

\* The report refuses (setup, signer, balance: any answer of the chain), or
\* the preview cannot be built.
Refuse(r) ==
    /\ pc[r] = "readiness"
    /\ Answer(r, "refused")
    /\ UNCHANGED <<usageVars, req, chainVars, storeVars, disturbed>>

RefuseSettled(r) ==
    /\ pc[r] = "readiness"
    /\ req[r].kind = "settle"
    /\ AlreadySettled(req[r].scope)
    /\ Answer(r, "already_settled")
    /\ UNCHANGED <<usageVars, req, chainVars, storeVars, disturbed>>

\* The amount is the preview's at this instant.  A disturbance of the scope:
\* another settle request of it is past this check and not yet recorded.
Commit(r) ==
    LET s == req[r].scope IN
    /\ pc[r] = "readiness"
    /\ req[r].kind = "settle" => ~AlreadySettled(s)
    /\ Previewable(r)
    /\ pc' = [pc EXCEPT ![r] = "profile"]
    /\ req' = [req EXCEPT ![r].amount = cost[s]]
    /\ disturbed' =
          IF /\ req[r].kind = "settle"
             /\ \E q \in Requests : /\ req[q].kind = "settle"
                                    /\ req[q].scope = s
                                    /\ pc[q] \in Committed
          THEN disturbed \cup {s} ELSE disturbed
    /\ UNCHANGED <<usageVars, reply, chainVars, storeVars>>

\* The profile is read after the check, in an await of its own.
ReadProfile(r) ==
    /\ pc[r] = "profile"
    /\ req' = [req EXCEPT ![r].seq = NextSequence(req[r].wallet)]
    /\ IF req[r].kind = "settle"
       THEN /\ pc' = [pc EXCEPT ![r] = "sending"]
            /\ UNCHANGED reply
       ELSE /\ pc' = [pc EXCEPT ![r] = "signing"]
            /\ reply' = [reply EXCEPT ![r] = "prepared"]
    /\ UNCHANGED <<usageVars, chainVars, storeVars, disturbed>>

ProfileMissing(r) ==
    /\ pc[r] = "profile"
    /\ Answer(r, "refused")
    /\ UNCHANGED <<usageVars, req, chainVars, storeVars, disturbed>>

(* Submission *)

\* The RPC node accepts the backend-signed transaction; its preflight runs the
\* program, which derives the record's address from the current sequence.
Accept(r) ==
    /\ pc[r] = "sending"
    /\ req[r].seq = usageSequence[req[r].wallet]
    /\ fate' = [fate EXCEPT ![r] = "pending"]
    /\ pc' = [pc EXCEPT ![r] = "sent"]
    /\ UNCHANGED <<usageVars, req, reply, usageSequence, storeVars, disturbed>>

MutSendFails(r) ==
    /\ pc[r] = "sending"
    /\ pc' = [pc EXCEPT ![r] = "profile"]
    /\ UNCHANGED <<usageVars, req, reply, chainVars, storeVars, disturbed>>

\* No blockhash, no connection, or the preflight fails.
SendFails(r) ==
    /\ pc[r] = "sending"
    /\ Answer(r, "error")
    /\ UNCHANGED <<usageVars, req, chainVars, storeVars, disturbed>>

\* The node accepted, but the handler sees an exception.  A disturbance.
AnswerLost(r) ==
    /\ pc[r] = "sent"
    /\ Answer(r, "error")
    /\ disturbed' = disturbed \cup {req[r].scope}
    /\ UNCHANGED <<usageVars, req, chainVars, storeVars>>

\* upsert: the dictionary, then the whole file, then the response.
RecordSettlement(r) ==
    /\ pc[r] = "sent"
    /\ memory' = [memory EXCEPT ![req[r].scope] = SettlementRecord(r)]
    /\ disk' = memory'
    /\ Answer(r, "settled")
    /\ UNCHANGED <<usageVars, req, chainVars, disturbed>>

\* save raises: opening the file failed, or it was truncated and not written.
\* The dictionary keeps the record.
SaveFails(r) ==
    /\ pc[r] = "sent"
    /\ memory' = [memory EXCEPT ![req[r].scope] = SettlementRecord(r)]
    /\ disk' \in {disk, Empty}
    /\ Answer(r, "error")
    /\ UNCHANGED <<usageVars, req, chainVars, disturbed>>

\* The user signs the prepared transaction and submits it, with the preflight
\* skipped if the user says so.  Neither step looks at the store.  A disturbance.
SubmitSigned(r) ==
    /\ pc[r] = "signing"
    /\ fate' = [fate EXCEPT ![r] = "pending"]
    /\ Answer(r, "submitted")
    /\ disturbed' = disturbed \cup {req[r].scope}
    /\ UNCHANGED <<usageVars, req, usageSequence, storeVars>>

(* The chain *)

Land(r) ==
    /\ fate[r] = "pending"
    /\ req[r].seq = usageSequence[req[r].wallet]
    /\ fate' = [fate EXCEPT ![r] = "landed"]
    /\ usageSequence' = [usageSequence EXCEPT ![req[r].wallet] = @ + 1]
    /\ UNCHANGED <<usageVars, reqVars, storeVars, disturbed>>

\* Its blockhash expires, its sequence is taken, or the program refuses it.
Drop(r) ==
    /\ fate[r] = "pending"
    /\ fate' = [fate EXCEPT ![r] = "dropped"]
    /\ UNCHANGED <<usageVars, reqVars, usageSequence, storeVars, disturbed>>

(* The process dies and starts again *)

\* Suspended handlers die unanswered.  A disturbance of every scope whose
\* record is not in the file, and of every scope with a transaction sent and
\* not yet recorded.
RestartFrom(file) ==
    /\ memory' = Load(file)
    /\ disk' = file
    /\ pc' = [r \in Requests |-> IF pc[r] \in Suspended THEN "done" ELSE pc[r]]
    /\ disturbed' = disturbed
          \cup {s \in Scopes : memory[s] # NoRecord /\ file[s] = NoRecord}
          \cup {s \in Scopes : \E r \in Requests : pc[r] = "sent" /\ req[r].scope = s}
    /\ UNCHANGED <<usageVars, req, reply, chainVars>>

Crash == RestartFrom(disk)

\* open("w") has truncated the file and the dump has not finished.
CrashInSave(r) ==
    /\ pc[r] = "sent"
    /\ RestartFrom(Empty)

-----------------------------------------------------------------------------

Handler(r) ==
    \/ Refuse(r) \/ RefuseSettled(r) \/ Commit(r)
    \/ ReadProfile(r) \/ ProfileMissing(r)
    \/ Accept(r) \/ SendFails(r)
    \/ AnswerLost(r) \/ RecordSettlement(r) \/ SaveFails(r)

Next ==
    \/ \E s \in Scopes, m \in Models : RecordUsage(s, m)
    \/ \E r \in Requests, kind \in {"settle", "direct"}, s \in Scopes, w \in Wallets :
          Begin(r, kind, s, w)
    \/ \E r \in Requests :
          Handler(r) \/ SubmitSigned(r) \/ Land(r) \/ Drop(r) \/ CrashInSave(r)
    \/ Crash

\* The event loop resumes a handler whose await is over, and every await of an
\* RPC ends, with an answer or with the client's timeout.
Fairness == \A r \in Requests : WF_vars(Handler(r))

Spec == Init /\ [][Next]_vars
FairSpec == Spec /\ Fairness

-----------------------------------------------------------------------------
(* Properties *)

\* A record of the store, in memory or on file, is of a transaction that a
\* settle request of that very scope sent, and carries the sequence and the
\* amount that transaction was built with, so the reconciliation route looks
\* for the right on-chain record.
RecordNamesItsTransaction ==
    \A s \in Scopes : \A rec \in {memory[s], disk[s]} \ {NoRecord} :
        /\ fate[rec.sig] # "unsent"
        /\ req[rec.sig].kind = "settle"
        /\ req[rec.sig].scope = s
        /\ req[rec.sig].seq = rec.seq
        /\ req[rec.sig].amount = rec.amount

Charges(s) == {r \in Requests : fate[r] = "landed" /\ req[r].scope = s}

\* The settle route charges a scope at most once as long as nothing disturbs
\* it: no second settle request between the check and the record, no lost
\* answer, no crash before the record is on file, no direct transaction.
\* Every double charge of a scope is due to one of these four.
CleanScopeChargedAtMostOnce ==
    \A s \in Scopes \ disturbed : \A q, r \in Charges(s) : q = r

\* A settlement the caller was told has succeeded keeps standing in the store,
\* across restarts, unless the scope is disturbed: the record that answers
\* later requests is the acknowledged one.
AcknowledgedSettlementStands ==
    \A r \in Requests :
        (reply[r] = "settled" /\ req[r].scope \notin disturbed)
        => /\ memory[req[r].scope] # NoRecord
           /\ memory[req[r].scope].sig = r

\* No transaction that charges a wallet for a scope of another wallet is sent.
OnlyTheOwnerIsCharged ==
    \A r \in Requests :
        fate[r] # "unsent" => req[r].wallet = Owner[req[r].scope]

\* A request that was made is answered, handed to the user for signing, or
\* dies with the process: no handler waits for ever.
RequestsEnd ==
    \A r \in Requests :
        pc[r] \in Suspended ~> pc[r] \in {"signing", "done"}

-----------------------------------------------------------------------------
(* Statements of the source that the code does not keep *)

\* contract_execution.py:34, "idempotency store for on-chain AI usage
\* settlements": one scope is charged at most once.
ScopeChargedAtMostOnce ==
    \A s \in Scopes : \A q, r \in Charges(s) : q = r

\* contract_execution.py:30, "Raised when one scope has already been settled
\* on-chain": a request refused so finds a charge that landed or still may.
AlreadySettledIsOnChain ==
    \A r \in Requests : reply[r] = "already_settled" =>
        \E q \in Requests : /\ req[q].scope = req[r].scope
                           /\ fate[q] \in {"pending", "landed"}

\* The on-chain record that the detail route finds for a settlement record: the
\* one at the record's sequence of the wallet's profile.
OnchainRecord(s) ==
    {q \in Requests : /\ fate[q] = "landed"
                      /\ req[q].wallet = Owner[s]
                      /\ req[q].seq = memory[s].seq}

\* routes.py, get_contract_settlement, "one settlement record and, when
\* possible, its matching on-chain AiUsageRecord".
ReconciledRecordMatches ==
    \A s \in Scopes : memory[s] # NoRecord =>
        \A q \in OnchainRecord(s) : q = memory[s].sig

=============================================================================

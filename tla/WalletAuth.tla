------------------------------- MODULE WalletAuth -------------------------------
(***************************************************************************)
(* Signing in with a wallet (src/agents/auth/nonce_store.py,               *)
(* wallet_auth.py, jwt_auth.py; routes /auth/wallet/nonce and /verify): a  *)
(* challenge with a nonce, kept in memory and in a file, that is used up   *)
(* by one token.  No handler awaits, so that each is one step; what can    *)
(* come between are failing saves, a restart and the nonce's expiry.       *)
(***************************************************************************)
EXTENDS Naturals

CONSTANTS
    Nonces, Wallets,
    MaxFaults,      \* bound: saves that fail
    MaxRestarts     \* bound

Parameters == MaxFaults \in Nat /\ MaxRestarts \in Nat

VARIABLES
    records,    \* WalletNonceStore.data: per nonce its wallet and whether it is used
    disk,       \* the file
    made,       \* nonces handed out; they are random and never come again
    expired,    \* nonces whose time to live is over
    tokens,     \* per nonce the number of access tokens issued for it
    faults, restarts

vars == <<records, disk, made, expired, tokens, faults, restarts>>

NoRecords == [n \in {} |-> [wallet |-> "", used |-> FALSE]]

Init ==
    /\ records = NoRecords /\ disk = NoRecords
    /\ made = {} /\ expired = {}
    /\ tokens = [n \in Nonces |-> 0]
    /\ faults = 0 /\ restarts = 0

-----------------------------------------------------------------------------

\* The outcomes of save() over the file f: it raises when the file cannot be opened or,
\* torn, written.
Saves(r, f) ==
    {[file |-> r, ok |-> TRUE, fails |-> 0]} \cup
    [file : {f, NoRecords}, ok : {FALSE}, fails : {1}]

\* cleanup() keeps these: expired and used records go.
Live ==
    [n \in {n \in DOMAIN records : n \notin expired /\ ~records[n].used} |-> records[n]]

\* It saves when it removed something, and its exception ends the call.
CleanUps ==
    IF Live = records THEN {[file |-> disk, ok |-> TRUE, fails |-> 0]} ELSE Saves(Live, disk)

\* The call ends with `kept` in memory and what its last save left in the file.
Keep(kept, save) ==
    /\ records' = kept /\ disk' = save.file
    /\ faults + save.fails <= MaxFaults /\ faults' = faults + save.fails

\* POST /auth/wallet/nonce
CreateNonce(n, w) ==
    LET record == [wallet |-> w, used |-> FALSE]
        new == [k \in DOMAIN Live \cup {n} |-> IF k = n THEN record ELSE Live[k]]
    IN
    /\ n \notin made /\ made' = made \cup {n}
    /\ \E clean \in CleanUps :
          \/ ~clean.ok /\ Keep(Live, clean)
          \/ clean.ok /\ \E save \in Saves(new, clean.file) : Keep(new, save)
    /\ UNCHANGED <<expired, tokens, restarts>>

MutMarks(r, f) == {[save EXCEPT !.ok = TRUE] : save \in Saves(r, f)}

\* mark_used: its exception reaches the caller.
Marks(r, f) == Saves(r, f)

\* POST /auth/wallet/verify: clean-up, then the checks, then mark_used; a token is issued
\* once the mark is on disk.
Verify(n, w, signed) ==
    LET admitted == n \in DOMAIN Live /\ Live[n].wallet = w /\ signed
        used == [Live EXCEPT ![n].used = TRUE]
    IN
    /\ \E clean \in CleanUps :
          \/ /\ ~(clean.ok /\ admitted)
             /\ Keep(Live, clean)
             /\ UNCHANGED tokens
          \/ /\ clean.ok /\ admitted
             /\ \E mark \in Marks(used, clean.file) :
                   /\ Keep(used, mark)
                   /\ tokens' = [tokens EXCEPT ![n] = IF mark.ok THEN @ + 1 ELSE @]
    /\ UNCHANGED <<made, expired, restarts>>

Expire(n) ==
    /\ n \in made \ expired /\ expired' = expired \cup {n}
    /\ UNCHANGED <<records, disk, made, tokens, faults, restarts>>

\* A crash, also in the middle of a save (a failed one before it), and a restart.
Restart ==
    /\ restarts < MaxRestarts /\ restarts' = restarts + 1
    /\ records' = disk
    /\ UNCHANGED <<disk, made, expired, tokens, faults>>

Next ==
    \/ \E n \in Nonces, w \in Wallets : CreateNonce(n, w)
    \/ \E n \in Nonces, w \in Wallets, signed \in BOOLEAN : Verify(n, w, signed)
    \/ (\E n \in Nonces : Expire(n)) \/ Restart

-----------------------------------------------------------------------------
(* Properties *)

\* "single-use semantics" (nonce_store.py:22): no nonce is ever good for two tokens, though
\* its record is changed in memory before it is changed on disk, each save may fail or tear
\* the file, and the process may restart from what the file holds.
NoncesSignInOnce == \A n \in Nonces : tokens[n] <= 1

=============================================================================

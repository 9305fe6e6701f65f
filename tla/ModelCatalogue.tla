----------------------------- MODULE ModelCatalogue -----------------------------
(***************************************************************************)
(* The catalogue of OpenRouter's models (src/agents/openrouter/models.py,  *)
(* database.py): the list in memory that the model routes of               *)
(* src/api/routes.py show, the database beside it with its file, and the   *)
(* session costs that are priced from the database and not from the list   *)
(* (session_costs.py).  A model is its price and whether it is enabled.    *)
(***************************************************************************)
EXTENDS Naturals

CONSTANTS
    Models,
    Offers,         \* what OpenRouter may offer: functions from some models to prices above 0
    Calls,          \* calls of a model route
    MaxMoves,       \* bound: how often OpenRouter changes its offer
    MaxFaults,      \* bound: requests and saves that fail
    MaxRestarts     \* bound

Parameters ==
    /\ \A o \in Offers : DOMAIN o \subseteq Models /\ \A m \in DOMAIN o : o[m] \in Nat \ {0}
    /\ \A n \in {MaxMoves, MaxFaults, MaxRestarts} : n \in Nat

VARIABLES
    offer,      \* what OpenRouter offers now
    memory,     \* OpenRouterModels.models
    data,       \* ModelsDatabase.data
    stamp,      \* metadata's last_updated: "none", "fresh" or "old", more than seven days
    file,       \* data and stamp, as saved
    call,       \* per call: what it is there for, and how far it is
    fetched,    \* per call: the offer OpenRouter answered it with
    bill,       \* the latest usage recorded: the price the model was listed and charged at
    cleared,    \* the database was cleared since the list in memory was loaded
    moves, faults, restarts

vars == <<offer, memory, data, stamp, file, call, fetched, bill, cleared,
          moves, faults, restarts>>

Empty == [m \in {} |-> [price |-> 0, enabled |-> TRUE]]
Done == [at |-> "done"]

\* The flags a call sets once it has the list: none when it shows it, one for a toggle.
Flags == UNION {[M -> BOOLEAN] : M \in {{}} \cup {{m} : m \in Models}}

\* A fresh deployment, or one that has a database: of any age, from any offer.
Init ==
    /\ offer \in Offers
    /\ memory = Empty
    /\ \E o \in Offers, s \in {"fresh", "old"} :
          file \in {[data |-> Empty, stamp |-> "none"],
                    [data |-> [m \in DOMAIN o |-> [price |-> o[m], enabled |-> TRUE]],
                     stamp |-> s]}
    /\ data = file.data /\ stamp = file.stamp
    /\ call = [c \in Calls |-> [at |-> "new"]]
    /\ fetched = [c \in Calls |-> Empty]
    /\ bill = [listed |-> 0, charged |-> 0, cleared |-> FALSE] /\ cleared = FALSE
    /\ moves = 0 /\ faults = 0 /\ restarts = 0

-----------------------------------------------------------------------------
(* The database *)

IsStale == data = Empty \/ stamp # "fresh"

\* What the file holds after save(): errors are swallowed, open("w") truncates first.
Saved(d, s) ==
    \/ file' = [data |-> d, stamp |-> s] /\ UNCHANGED faults
    \/ /\ faults < MaxFaults /\ faults' = faults + 1
       /\ file' \in {file, [data |-> Empty, stamp |-> "none"]}

\* The answer of the API as the list in memory: every model enabled again.
Parsed(o) == [m \in DOMAIN o |-> [price |-> o[m], enabled |-> TRUE]]

\* `new`, and `old` for what is not in it.
Over(new, old) ==
    [m \in DOMAIN new \cup DOMAIN old |-> IF m \in DOMAIN new THEN new[m] ELSE old[m]]

MutMerged(new) == Over(data, new)

\* save_models overwrites the models it is given and keeps the others.
Merged(new) == Over(new, data)

\* A list that was loaded is what the call goes on with; a toggle sets the flag in the
\* list and, without saving the file, in the database.
Toggled(list, flags) ==
    [m \in DOMAIN flags \cap DOMAIN list |-> [list[m] EXCEPT !.enabled = flags[m]]]

\* The call c goes on with `list` in memory and `base` in the database, and ends.
Finish(c, list, base, flags) ==
    /\ memory' = Over(Toggled(list, flags), list)
    /\ data' = Over(Toggled(list, flags), base)
    /\ call' = [call EXCEPT ![c] = Done]

-----------------------------------------------------------------------------
(* The calls *)

\* fetch_models, to its request: a list in memory is used for ever, a fresh database
\* is loaded, and otherwise OpenRouter is asked.
Begin(c, flags, force) ==
    /\ call[c].at = "new"
    /\ force => DOMAIN flags = {}
    /\ \/ /\ ~force /\ memory # Empty
          /\ Finish(c, memory, data, flags) /\ UNCHANGED cleared
       \/ /\ ~force /\ memory = Empty /\ ~IsStale
          /\ Finish(c, data, data, flags) /\ cleared' = FALSE
       \/ /\ force \/ (memory = Empty /\ IsStale)
          /\ call' = [call EXCEPT ![c] = [at |-> "asking", flags |-> flags]]
          /\ UNCHANGED <<memory, data, cleared>>
    /\ UNCHANGED <<offer, stamp, file, fetched, bill, moves, faults, restarts>>

\* OpenRouter answers; the answer is on its way.
Answer(c) ==
    /\ call[c].at = "asking"
    /\ call' = [call EXCEPT ![c].at = "answered"]
    /\ fetched' = [fetched EXCEPT ![c] = offer]
    /\ UNCHANGED <<offer, memory, data, stamp, file, bill, cleared, moves, faults, restarts>>

\* The answer is stored, whatever another call stored meanwhile.
Receive(c) ==
    /\ call[c].at = "answered"
    /\ LET new == Parsed(fetched[c]) IN
          /\ Finish(c, new, Merged(new), call[c].flags)
          /\ stamp' = "fresh"
          /\ Saved(Merged(new), "fresh")
    /\ fetched' = [fetched EXCEPT ![c] = Empty]
    /\ cleared' = FALSE
    /\ UNCHANGED <<offer, bill, moves, restarts>>

\* The request failed, or was answered with an error: the database, of any age, is the list.
Fail(c) ==
    /\ call[c].at \in {"asking", "answered"}
    /\ faults < MaxFaults /\ faults' = faults + 1
    /\ Finish(c, data, data, call[c].flags)
    /\ fetched' = [fetched EXCEPT ![c] = Empty]
    /\ cleared' = FALSE
    /\ UNCHANGED <<offer, stamp, file, bill, moves, restarts>>

\* DELETE /models/database/clear: the list in memory stays.
Clear ==
    /\ data # Empty
    /\ data' = Empty /\ stamp' = "none"
    /\ Saved(Empty, "none")
    /\ cleared' = TRUE
    /\ UNCHANGED <<offer, memory, call, fetched, bill, moves, restarts>>

\* record_usage: the price of a model the database does not have is 0.
RecordUsage(m) ==
    LET price(models) == IF m \in DOMAIN models THEN models[m].price ELSE 0 IN
    /\ bill' = [listed |-> price(memory), charged |-> price(data), cleared |-> cleared]
    /\ UNCHANGED <<offer, memory, data, stamp, file, call, fetched, cleared,
                   moves, faults, restarts>>

Move ==
    /\ moves < MaxMoves /\ moves' = moves + 1
    /\ offer' \in Offers \ {offer}
    /\ UNCHANGED <<memory, data, stamp, file, call, fetched, bill, cleared, faults, restarts>>

\* Seven days pass.
Age ==
    /\ stamp = "fresh"
    /\ stamp' = "old"
    /\ file' = [file EXCEPT !.stamp = IF @ = "fresh" THEN "old" ELSE @]
    /\ UNCHANGED <<offer, memory, data, call, fetched, bill, cleared, moves, faults, restarts>>

\* A crash and a restart; a call on its way is gone.
Restart ==
    /\ restarts < MaxRestarts /\ restarts' = restarts + 1
    /\ memory' = Empty /\ data' = file.data /\ stamp' = file.stamp
    /\ call' = [c \in Calls |-> IF call[c].at = "new" THEN call[c] ELSE Done]
    /\ fetched' = [c \in Calls |-> Empty]
    /\ cleared' = FALSE
    /\ UNCHANGED <<offer, file, bill, moves, faults>>

Next ==
    \/ \E c \in Calls :
          \/ \E flags \in Flags, force \in BOOLEAN : Begin(c, flags, force)
          \/ Answer(c) \/ Receive(c) \/ Fail(c)
    \/ \E m \in Models : RecordUsage(m)
    \/ Clear \/ Move \/ Age \/ Restart

-----------------------------------------------------------------------------
(* Properties *)

\* The price list a user is shown and the database usage is priced from are two stores,
\* loaded and saved by calls that overtake each other; yet the usage of a model that is
\* listed is charged at its listed price, whatever failed and whichever answer came
\* last.  Only clearing the database parts them: the list stays, and every usage is
\* free until the list is loaded again.
ListedPricesAreCharged ==
    bill.listed # 0 /\ ~bill.cleared => bill.charged = bill.listed

=============================================================================

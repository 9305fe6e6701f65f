---------------------------- MODULE RegistrySnapshot ----------------------------
(***************************************************************************)
(* The snapshot of the on-chain model registry that the model routes add   *)
(* to their answers (src/agents/openrouter/contract_registry.py): cached   *)
(* for CACHE_TTL_SECONDS from when its fetch began, filled across an await *)
(* that nothing guards, so that fetches overlap and overwrite each other.  *)
(***************************************************************************)
EXTENDS Integers

CONSTANTS
    Readers,    \* calls of get_snapshot
    Ttl,        \* CACHE_TTL_SECONDS, in ticks
    MaxTime     \* bound: ticks of the clock

Parameters == Ttl \in Nat \ {0} /\ MaxTime \in Nat

VARIABLES
    time,
    cache,      \* _snapshot: when its fetch began and the chain was read, NoSnapshot at first
    expires,    \* _snapshot_expires_at
    reader      \* per reader: its state, when it asked, whether it forced a refresh and
                \* when the chain was read (or failed to be) for what it is answered

vars == <<time, cache, expires, reader>>

NoSnapshot == [since |-> 0, read |-> -1]

Init ==
    /\ time = 0
    /\ cache = NoSnapshot /\ expires = 0
    /\ reader = [r \in Readers |-> [at |-> "new", asked |-> 0, force |-> FALSE, read |-> -1]]

-----------------------------------------------------------------------------

Tick ==
    /\ time < MaxTime /\ time' = time + 1
    /\ UNCHANGED <<cache, expires, reader>>

\* The conditions under which the cached snapshot is the answer.
Usable(force) == ~force /\ cache # NoSnapshot /\ time < expires

\* get_snapshot, to its await.
Ask(r, force) ==
    /\ reader[r].at = "new"
    /\ reader' = [reader EXCEPT ![r] =
          IF Usable(force)
          THEN [at |-> "answered", asked |-> time, force |-> force, read |-> cache.read]
          ELSE [at |-> "asking", asked |-> time, force |-> force, read |-> -1]]
    /\ UNCHANGED <<time, cache, expires>>

\* The chain is read for r, or refuses to be: either is what it stores.
Read(r) ==
    /\ reader[r].at = "asking"
    /\ reader' = [reader EXCEPT ![r].at = "reading", ![r].read = time]
    /\ UNCHANGED <<time, cache, expires>>

MutExpiry(asked) == time + Ttl

\* `now` is read before the await.
Expiry(asked) == asked + Ttl

\* The snapshot, of the accounts or of the failure, is stored and returned, over a
\* younger one if a later fetch was faster.
Return(r) ==
    /\ reader[r].at = "reading"
    /\ cache' = [since |-> reader[r].asked, read |-> reader[r].read]
    /\ expires' = Expiry(reader[r].asked)
    /\ reader' = [reader EXCEPT ![r].at = "answered"]
    /\ UNCHANGED time

\* The reader's answer is gone, and the next call may begin.
Again(r) ==
    /\ reader[r].at = "answered"
    /\ reader' = [reader EXCEPT ![r] = [at |-> "new", asked |-> 0, force |-> FALSE, read |-> -1]]
    /\ UNCHANGED <<time, cache, expires>>

Next == Tick \/ \E r \in Readers :
    (\E force \in BOOLEAN : Ask(r, force)) \/ Read(r) \/ Return(r) \/ Again(r)

-----------------------------------------------------------------------------
(* Properties *)

\* However long fetches take and in whatever order they end, nobody is answered with a
\* state of the chain, or a failure to read it, from more than the cache's time to live
\* before it asked, and a forced refresh with none from before it asked.
SnapshotsAreRecent ==
    \A r \in Readers : reader[r].at = "answered" =>
        reader[r].read >= reader[r].asked - (IF reader[r].force THEN 0 ELSE Ttl - 1)

=============================================================================

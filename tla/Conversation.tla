----------------------------- MODULE Conversation -----------------------------
(***************************************************************************)
(* Chat turns and the session store they are kept in: api/routes.py (chat, *)
(* stream, sessions), agents/core/base.py, agents/memory.                  *)
(*                                                                         *)
(* A turn makes an agent of its own, which reads its own copy of the       *)
(* session from the store.  While the turn waits for models and tools,     *)
(* other turns of the session, renames and deletions go on.  At its end    *)
(* the turn appends its two messages to its copy and stores the copy.      *)
(*                                                                         *)
(* An action is the code between two awaits.  The store's save swallows    *)
(* its errors: the file is then old, or truncated.                         *)
(***************************************************************************)
EXTENDS Naturals, Sequences, SequencesExt

CONSTANTS
    Scopes,     \* session ids
    Turns,      \* chat requests, each made once: the bound on turns
    NoScope,    \* scope of a turn that was not made yet
    NoSession   \* the store holds nothing for a scope

Message == [turn : Turns, role : {"user", "assistant"}]

\* A session is listed, renamed and deleted only once it has an owner.
Session == [messages : Seq(Message), owned : BOOLEAN]

ASSUME NoSessionAssumption == NoSession \notin Session
ASSUME NoScopeAssumption == NoScope \notin Scopes

VARIABLES
    data,       \* ConversationDatabase.data
    file,       \* the content of its JSON file
    pc,         \* whether a turn is made, and waits for its models and tools
    turn,       \* what a turn was made with, and its agent's copy of the messages
    outcome,    \* how a turn ended
    events,     \* what the client of a turn was sent
    excused,    \* history: turns hit by an overlap, a deletion or a lost save
    deleted,    \* history: turns deleted from their session, in memory and in the file
    straddled   \* history: turns that waited while their session was deleted

turnVars == <<pc, turn, outcome, events>>
storeVars == <<data, file>>
historyVars == <<excused, deleted, straddled>>
vars == <<storeVars, turnVars, historyVars>>

Store == [Scopes -> Session \cup {NoSession}]

TypeOK ==
    /\ data \in Store
    /\ file \in Store
    /\ pc \in [Turns -> {"idle", "waiting", "ended"}]
    /\ turn \in [Turns -> [scope : Scopes \cup {NoScope}, stream : BOOLEAN,
                           copy : Seq(Message)]]
    /\ outcome \in [Turns -> {"none", "unprepared", "completed", "failed",
                              "cancelled", "died"}]
    /\ events \in [Turns -> Seq({"done", "error", "end"})]
    /\ excused \subseteq Turns
    /\ deleted \subseteq Turns
    /\ straddled \subseteq Turns

Blank == [s \in Scopes |-> NoSession]

Init ==
    /\ data = Blank
    /\ file = Blank
    /\ pc = [r \in Turns |-> "idle"]
    /\ turn = [r \in Turns |-> [scope |-> NoScope, stream |-> FALSE, copy |-> <<>>]]
    /\ outcome = [r \in Turns |-> "none"]
    /\ events = [r \in Turns |-> <<>>]
    /\ excused = {}
    /\ deleted = {}
    /\ straddled = {}

-----------------------------------------------------------------------------
(* The store *)

MessagesOf(session) == IF session = NoSession THEN <<>> ELSE session.messages

\* The turns with a message in a session, and those whose reply a store has.
Seen(session) == {m.turn : m \in ToSet(MessagesOf(session))}

Replied(session) ==
    {m.turn : m \in {n \in ToSet(MessagesOf(session)) : n.role = "assistant"}}

Kept(store) == UNION {Replied(store[s]) : s \in Scopes}

\* save_session keeps the metadata of a stored session.
MutWithMessages(store, s, messages) == [store EXCEPT ![s] = [messages |-> messages]]
WithMessages(store, s, messages) ==
    [store EXCEPT ![s] =
        IF @ = NoSession THEN [messages |-> messages, owned |-> FALSE]
                         ELSE [@ EXCEPT !.messages = messages]]

\* update_session_metadata: owner and title, of which the title is left out.
WithOwner(store, s) ==
    [store EXCEPT ![s] = IF @ = NoSession THEN NoSession ELSE [@ EXCEPT !.owned = TRUE]]

\* The dictionary after the last of some saves, and the file after each of them
\* was written, skipped or torn.
Save(stores, last) ==
    /\ data' = last
    /\ file' \in stores \cup {last, file, Blank}

-----------------------------------------------------------------------------
(* A turn *)

\* What a new agent's memory holds of a session.
MutLoaded(s) == <<>>
Loaded(s) == MessagesOf(data[s])

\* The agent is made: its memory reads the store.  Authentication, readiness
\* and attachments come before, and leave no trace when they refuse.
Begin(r, s, stream) ==
    /\ pc[r] = "idle"
    /\ pc' = [pc EXCEPT ![r] = "waiting"]
    /\ turn' = [turn EXCEPT ![r] = [scope |-> s, stream |-> stream,
                                    copy |-> Loaded(s)]]
    /\ UNCHANGED <<storeVars, outcome, events, historyVars>>

\* The response, or the done event, carries the cost summary of the scope, which
\* raises while the scope has an open monitoring window (MonitoringLedger).  A
\* stream then raises again while it reports the error, and its task dies:
\* nothing but the end of the queue follows.
Sent(r, how, metered) ==
    IF turn[r].stream
    THEN IF metered THEN <<"error", "end">>
         ELSE IF how = "completed" THEN <<"done", "end">>
         ELSE <<"error", "done", "end">>
    ELSE IF how = "unprepared" \/ metered THEN <<"error">> ELSE <<"done">>

\* The agent of a turn is gone with its copy.
End(r, how, sent) ==
    /\ pc' = [pc EXCEPT ![r] = "ended"]
    /\ turn' = [turn EXCEPT ![r].copy = <<>>]
    /\ outcome' = [outcome EXCEPT ![r] = how]
    /\ events' = [events EXCEPT ![r] = sent]

\* An exception before the guarded part of the turn: nothing is stored.
PrepareFails(r) ==
    /\ pc[r] = "waiting"
    /\ \E metered \in BOOLEAN :
          End(r, "unprepared", Sent(r, "unprepared", metered))
    /\ UNCHANGED <<storeVars, historyVars>>

MutAsked(r) == Append(turn[r].copy, [turn |-> r, role |-> "assistant"])
Asked(r) == Append(turn[r].copy, [turn |-> r, role |-> "user"])

Answered(r) == Append(Asked(r), [turn |-> r, role |-> "assistant"])

\* The three stores a turn saves one after the other: with the user's message,
\* with the reply, with the metadata.  A failed stream skips the metadata.
Question(r) == WithMessages(data, turn[r].scope, Asked(r))
Reply(r) == WithMessages(data, turn[r].scope, Answered(r))
Persisted(r, how) ==
    IF turn[r].stream /\ how = "failed" THEN Reply(r)
    ELSE WithOwner(Reply(r), turn[r].scope)

Overlapped(r) ==
    \E q \in Turns \ {r} : pc[q] = "waiting" /\ turn[q].scope = turn[r].scope

\* The turn ends well, or the error is turned into a reply.  There is no await
\* from the first message stored to the last event.
Finish(r, how) ==
    /\ pc[r] = "waiting"
    /\ Save({Question(r), Reply(r)}, Persisted(r, how))
    /\ \E metered \in BOOLEAN : End(r, how, Sent(r, how, metered))
    /\ excused' = IF Overlapped(r) THEN excused \cup {r} ELSE excused
    /\ UNCHANGED <<deleted, straddled>>

\* The client of a stream disconnects: the turn is cancelled where it waits.
\* The cancellation is no Exception, so that nothing is stored.
Leave(r) ==
    /\ pc[r] = "waiting"
    /\ turn[r].stream
    /\ End(r, "cancelled", <<"end">>)
    /\ UNCHANGED <<storeVars, historyVars>>

-----------------------------------------------------------------------------
(* The session routes, without an await, and the process *)

Rename(s) ==
    /\ data[s] # NoSession
    /\ data[s].owned
    /\ Save({}, WithOwner(data, s))
    /\ UNCHANGED <<turnVars, historyVars>>

MutDelete(s) ==
    /\ data[s] # NoSession
    /\ data[s].owned
    /\ Save({}, [data EXCEPT ![s].owned = FALSE])
    /\ excused' = excused \cup Replied(data[s])
    /\ deleted' = deleted \cup (Replied(data[s]) \ Kept(file'))
    /\ UNCHANGED <<turnVars, straddled>>

Delete(s) ==
    /\ data[s] # NoSession
    /\ data[s].owned
    /\ Save({}, [data EXCEPT ![s] = NoSession])
    /\ excused' = excused \cup Replied(data[s])
    /\ deleted' = deleted \cup (Replied(data[s]) \ Kept(file'))
    /\ straddled' = straddled
          \cup {r \in Turns : pc[r] = "waiting" /\ turn[r].scope = s}
    /\ UNCHANGED turnVars

\* The process dies and the store is read back from a file.
RestartFrom(f) ==
    /\ data' = f
    /\ file' = f
    /\ pc' = [r \in Turns |-> IF pc[r] = "waiting" THEN "ended" ELSE pc[r]]
    /\ outcome' = [r \in Turns |-> IF pc[r] = "waiting" THEN "died" ELSE outcome[r]]
    /\ excused' = excused \cup (Kept(data) \ Kept(f))
    /\ turn' = [r \in Turns |-> [turn[r] EXCEPT !.copy = <<>>]]
    /\ UNCHANGED <<events, deleted, straddled>>

Crash == RestartFrom(file)

\* It dies between the saves of a turn, or inside one.
CrashInFinish(r, how) ==
    /\ pc[r] = "waiting"
    /\ \E f \in {Question(r), Reply(r), Blank} : RestartFrom(f)

-----------------------------------------------------------------------------

Next ==
    \/ \E r \in Turns, s \in Scopes, stream \in BOOLEAN : Begin(r, s, stream)
    \/ \E r \in Turns : PrepareFails(r) \/ Leave(r)
    \/ \E r \in Turns, how \in {"completed", "failed"} :
          Finish(r, how) \/ CrashInFinish(r, how)
    \/ \E s \in Scopes : Rename(s) \/ Delete(s)
    \/ Crash

Spec == Init /\ [][Next]_vars

-----------------------------------------------------------------------------
(* Properties *)

Stored(r) == outcome[r] \in {"completed", "failed"}

\* A turn that ended is kept in its session, in memory, through other turns,
\* renames and restarts, unless it was excused: another turn of the session
\* was waiting when it ended, the session was deleted, or a restart lost it.
EndedTurnsAreKept ==
    \A r \in Turns \ excused : Stored(r) => r \in Replied(data[turn[r].scope])

\* In a session, in memory or in the file, a reply directly follows the
\* question of its turn, and no message is there twice.
RepliesFollowQuestions ==
    \A store \in {data, file} : \A s \in Scopes :
        LET m == MessagesOf(store[s]) IN
        /\ \A i \in 1..Len(m) : m[i].role = "assistant" =>
              i > 1 /\ m[i - 1] = [turn |-> m[i].turn, role |-> "user"]
        /\ \A i, j \in 1..Len(m) : m[i] = m[j] => i = j

\* A reply that was deleted, and whose deletion was saved, is only seen again, in
\* memory or in the file, with a message of a turn that was waiting when the
\* session was deleted.
DeletedTurnsStayDeleted ==
    \A store \in {data, file} : \A s \in Scopes :
        Replied(store[s]) \cap deleted # {} => Seen(store[s]) \cap straddled # {}

-----------------------------------------------------------------------------
(* A statement of the source that the code does not keep *)

\* docs/plans/2026-04-19-agent-pipeline-refactor.md:91, "streaming failures
\* returning a safe `done` state": a failed stream is told it is done.
FailedStreamsAreDone ==
    \A r \in Turns : (turn[r].stream /\ outcome[r] = "failed")
                     => \E i \in 1..Len(events[r]) : events[r][i] = "done"

=============================================================================

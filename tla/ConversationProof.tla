-------------------------- MODULE ConversationProof --------------------------
(***************************************************************************)
(* Proofs about Conversation, for every set of sessions and turns.         *)
(*                                                                         *)
(* A turn works on a copy of its session while others change the store, so *)
(* that what holds of the store has to be known of every copy as well: the *)
(* copy of a waiting turn is, at any moment, a list the store could hold.  *)
(***************************************************************************)
EXTENDS Conversation, SequenceTheorems, TLAPS

-----------------------------------------------------------------------------
(* Lists of messages *)

\* The turns with a message, and with a reply, in a list.
Authors(m) == {x.turn : x \in ToSet(m)}
Repliers(m) == {x.turn : x \in {n \in ToSet(m) : n.role = "assistant"}}

\* What RepliesFollowQuestions says of one list.
Paired(m) ==
    /\ \A i \in 1..Len(m) : m[i].role = "assistant" =>
          i > 1 /\ m[i - 1] = [turn |-> m[i].turn, role |-> "user"]
    /\ \A i, j \in 1..Len(m) : m[i] = m[j] => i = j

\* A list that session s may hold: it is paired and its turns ended in s.
Fits(m, s, home) ==
    /\ m \in Seq(Message)
    /\ Paired(m)
    /\ \A r \in Authors(m) : home[r] = s

StoreFits(store, home) ==
    /\ store \in Store
    /\ \A s \in Scopes : Fits(MessagesOf(store[s]), s, home)

\* A list that shows a deleted turn only beside one that straddled the deletion.
Marked(m, gone, late) == Repliers(m) \cap gone # {} => Authors(m) \cap late # {}

StoreMarked(store, gone, late) ==
    \A s \in Scopes : Marked(MessagesOf(store[s]), gone, late)

\* What appending a message adds to a list.
LEMMA AppendedMessage ==
    ASSUME NEW m \in Seq(Message), NEW x \in Message
    PROVE  /\ Append(m, x) \in Seq(Message)
           /\ Authors(Append(m, x)) = Authors(m) \cup {x.turn}
           /\ x.role = "assistant" => Repliers(Append(m, x)) = Repliers(m) \cup {x.turn}
           /\ x.role = "user" => Repliers(Append(m, x)) = Repliers(m)
<1>1. /\ Append(m, x) \in Seq(Message)
      /\ Len(Append(m, x)) = Len(m) + 1 /\ Len(m) \in Nat
      /\ \A i \in 1..Len(m) : Append(m, x)[i] = m[i]
      /\ Append(m, x)[Len(m) + 1] = x
  BY AppendProperties, LenProperties
<1>2. DOMAIN m = 1..Len(m) /\ DOMAIN Append(m, x) = 1..(Len(m) + 1)
  BY <1>1, LenProperties
<1>3. ToSet(Append(m, x)) = ToSet(m) \cup {x}
  <2>1. ASSUME NEW y \in ToSet(Append(m, x))
        PROVE  y \in ToSet(m) \cup {x}
    <3>1. PICK i \in 1..(Len(m) + 1) : y = Append(m, x)[i]
      BY <1>2 DEF ToSet
    <3>2. CASE i = Len(m) + 1
      BY <3>1, <3>2, <1>1
    <3>3. CASE i # Len(m) + 1
      <4>1. i \in 1..Len(m)
        BY <3>3, <1>1
      <4>2. QED
        BY <4>1, <3>1, <1>1, <1>2 DEF ToSet
    <3>4. QED
      BY <3>2, <3>3
  <2>2. ASSUME NEW y \in ToSet(m)
        PROVE  y \in ToSet(Append(m, x))
    <3>1. PICK i \in 1..Len(m) : y = m[i]
      BY <1>2 DEF ToSet
    <3>2. i \in 1..(Len(m) + 1) /\ y = Append(m, x)[i]
      BY <3>1, <1>1
    <3>3. QED
      BY <3>2, <1>2 DEF ToSet
  <2>3. x \in ToSet(Append(m, x))
    <3>1. Len(m) + 1 \in 1..(Len(m) + 1)
      BY <1>1
    <3>2. QED
      BY <3>1, <1>1, <1>2 DEF ToSet
  <2>4. QED
    BY <2>1, <2>2, <2>3
<1>4. QED
  BY <1>1, <1>3 DEF Authors, Repliers

\* The list a turn ends with is paired when its own messages are not there before.
LEMMA EndedList ==
    ASSUME NEW m \in Seq(Message), Paired(m), NEW r \in Turns, r \notin Authors(m)
    PROVE  LET asked == Append(m, [turn |-> r, role |-> "user"]) IN
           /\ Paired(asked)
           /\ Paired(Append(asked, [turn |-> r, role |-> "assistant"]))
<1> DEFINE u == [turn |-> r, role |-> "user"]
           a == [turn |-> r, role |-> "assistant"]
           asked == Append(m, u)
           answered == Append(asked, a)
<1>1. u \in Message /\ a \in Message /\ u # a
  BY DEF Message
<1>2. /\ Len(m) \in Nat
      /\ Len(asked) = Len(m) + 1 /\ asked \in Seq(Message)
      /\ \A i \in 1..Len(m) : asked[i] = m[i]
      /\ asked[Len(m) + 1] = u
  BY <1>1, AppendProperties, LenProperties
<1>3. /\ Len(answered) = Len(m) + 2
      /\ \A i \in 1..(Len(m) + 1) : answered[i] = asked[i]
      /\ answered[Len(m) + 2] = a
  BY <1>1, <1>2, AppendProperties
<1>4. \A i \in 1..Len(m) : m[i] # u /\ m[i] # a
  <2>1. \A i \in 1..Len(m) : m[i] \in ToSet(m)
    BY LenProperties DEF ToSet
  <2>2. QED
    BY <2>1 DEF Authors
<1>5. Paired(asked)
  <2>1. ASSUME NEW i \in 1..(Len(m) + 1), asked[i].role = "assistant"
        PROVE  i > 1 /\ asked[i - 1] = [turn |-> asked[i].turn, role |-> "user"]
    <3>1. i # Len(m) + 1
      BY <2>1, <1>2
    <3>2. i \in 1..Len(m)
      BY <3>1, <1>2
    <3>3. i > 1 /\ m[i - 1] = [turn |-> m[i].turn, role |-> "user"]
      BY <3>2, <2>1, <1>2 DEF Paired
    <3>4. i - 1 \in 1..Len(m)
      BY <3>2, <3>3, <1>2
    <3>5. QED
      BY <3>2, <3>3, <3>4, <1>2
  <2>2. ASSUME NEW i \in 1..(Len(m) + 1), NEW j \in 1..(Len(m) + 1), asked[i] = asked[j]
        PROVE  i = j
    <3>1. CASE i \in 1..Len(m) /\ j \in 1..Len(m)
      BY <3>1, <2>2, <1>2 DEF Paired
    <3>2. CASE i = Len(m) + 1 \/ j = Len(m) + 1
      BY <3>2, <2>2, <1>2, <1>4
    <3>3. QED
      BY <3>1, <3>2, <1>2
  <2>3. QED
    BY <2>1, <2>2, <1>2 DEF Paired
<1>6. Paired(answered)
  <2>1. ASSUME NEW i \in 1..(Len(m) + 2), answered[i].role = "assistant"
        PROVE  i > 1 /\ answered[i - 1] = [turn |-> answered[i].turn, role |-> "user"]
    <3>1. CASE i = Len(m) + 2
      <4>1. Len(m) + 1 \in 1..(Len(m) + 1) /\ i - 1 = Len(m) + 1 /\ i > 1
        BY <3>1, <1>2
      <4>2. QED
        BY <3>1, <4>1, <1>2, <1>3
    <3>2. CASE i # Len(m) + 2
      <4>1. i \in 1..(Len(m) + 1)
        BY <3>2, <1>2
      <4>2. i > 1 /\ asked[i - 1] = [turn |-> asked[i].turn, role |-> "user"]
        BY <4>1, <2>1, <1>2, <1>3, <1>5 DEF Paired
      <4>3. i - 1 \in 1..(Len(m) + 1)
        BY <4>1, <4>2, <1>2
      <4>4. QED
        BY <4>1, <4>2, <4>3, <1>3
    <3>3. QED
      BY <3>1, <3>2
  <2>2. \A i \in 1..(Len(m) + 1) : asked[i] # a
    BY <1>1, <1>2, <1>4
  <2>3. ASSUME NEW i \in 1..(Len(m) + 2), NEW j \in 1..(Len(m) + 2),
               answered[i] = answered[j]
        PROVE  i = j
    <3>1. CASE i \in 1..(Len(m) + 1) /\ j \in 1..(Len(m) + 1)
      BY <3>1, <2>3, <1>2, <1>3, <1>5 DEF Paired
    <3>2. CASE i = Len(m) + 2 \/ j = Len(m) + 2
      BY <3>2, <2>2, <2>3, <1>2, <1>3
    <3>3. QED
      BY <3>1, <3>2, <1>2
  <2>4. QED
    BY <2>1, <2>3, <1>3 DEF Paired
<1>7. QED
  BY <1>5, <1>6

-----------------------------------------------------------------------------
(* The invariant *)

\* A turn that waits or has stored something has a session.
Placed ==
    \A r \in Turns :
        /\ pc[r] = "waiting" \/ Stored(r) => turn[r].scope \in Scopes
        /\ Stored(r) => pc[r] = "ended"

Typed == TypeOK /\ Placed

\* The session each turn has ended in.
Home == [r \in Turns |-> IF pc[r] = "ended" THEN turn[r].scope ELSE NoScope]

\* Both stores, and the copy of every waiting turn, are lists a session may hold.
Lists ==
    /\ StoreFits(data, Home)
    /\ StoreFits(file, Home)
    /\ \A q \in Turns : pc[q] = "waiting" => Fits(turn[q].copy, turn[q].scope, Home)

\* The copy of a waiting turn lacks no reply but of excused turns.
CopiesKeep ==
    /\ EndedTurnsAreKept
    /\ \A q \in Turns : pc[q] = "waiting" =>
          \A r \in Turns \ excused :
             (Stored(r) /\ turn[r].scope = turn[q].scope) => r \in Repliers(turn[q].copy)

\* A waiting turn whose copy shows a deleted turn by itself is one that straddled,
\* and only a turn that ended can have been deleted.
Marks ==
    /\ \A r \in deleted : pc[r] = "ended"
    /\ StoreMarked(data, deleted, straddled)
    /\ StoreMarked(file, deleted, straddled)
    /\ \A q \in Turns : pc[q] = "waiting" =>
          q \in straddled \/ Marked(turn[q].copy, deleted, straddled)

Inv == Typed /\ Lists /\ CopiesKeep /\ Marks

-----------------------------------------------------------------------------
(* The store's operators *)

\* A stored session's messages are a list, whether it is there or not.
LEMMA SessionList ==
    ASSUME NEW store \in Store, NEW s \in Scopes
    PROVE  MessagesOf(store[s]) \in Seq(Message)
<1>1. store[s] \in Session \cup {NoSession}
  BY DEF Store
<1>2. CASE store[s] = NoSession
  BY <1>2, EmptySeq DEF MessagesOf
<1>3. CASE store[s] \in Session
  BY <1>3, NoSessionAssumption DEF MessagesOf, Session
<1>4. QED
  BY <1>1, <1>2, <1>3

\* Storing a list changes the list of one session, and storing the owner none.
LEMMA StoredList ==
    ASSUME NEW store \in Store, NEW s \in Scopes, NEW m \in Seq(Message)
    PROVE  /\ WithMessages(store, s, m) \in Store
           /\ \A z \in Scopes : MessagesOf(WithMessages(store, s, m)[z])
                                = IF z = s THEN m ELSE MessagesOf(store[z])
<1> DEFINE new == IF store[s] = NoSession THEN [messages |-> m, owned |-> FALSE]
                                          ELSE [store[s] EXCEPT !.messages = m]
<1>1. WithMessages(store, s, m) = [store EXCEPT ![s] = new]
  BY DEF WithMessages
<1>2. new \in Session /\ new.messages = m
  BY DEF Store, Session
<1>3. MessagesOf(new) = m
  BY <1>2, NoSessionAssumption DEF MessagesOf
<1>4. WithMessages(store, s, m) \in Store
  BY <1>1, <1>2 DEF Store
<1>5. \A z \in Scopes : WithMessages(store, s, m)[z] = IF z = s THEN new ELSE store[z]
  BY <1>1 DEF Store
<1>6. QED
  BY <1>3, <1>4, <1>5

LEMMA OwnedList ==
    ASSUME NEW store \in Store, NEW s \in Scopes
    PROVE  /\ WithOwner(store, s) \in Store
           /\ \A z \in Scopes : MessagesOf(WithOwner(store, s)[z]) = MessagesOf(store[z])
<1> DEFINE new == IF store[s] = NoSession THEN NoSession
                                          ELSE [store[s] EXCEPT !.owned = TRUE]
<1>1. WithOwner(store, s) = [store EXCEPT ![s] = new]
  BY DEF WithOwner
<1>2. new \in Session \cup {NoSession}
  BY DEF Store, Session
<1>3. MessagesOf(new) = MessagesOf(store[s])
  <2>1. CASE store[s] = NoSession
    BY <2>1
  <2>2. CASE store[s] # NoSession
    <3>1. store[s] \in Session /\ new = [store[s] EXCEPT !.owned = TRUE]
      BY <2>2 DEF Store
    <3>2. new \in Session /\ new.messages = store[s].messages
      BY <3>1 DEF Session
    <3>3. QED
      BY <2>2, <3>2, NoSessionAssumption DEF MessagesOf
  <2>3. QED
    BY <2>1, <2>2
<1>4. \A z \in Scopes : WithOwner(store, s)[z] = IF z = s THEN new ELSE store[z]
  BY <1>1 DEF Store
<1>5. QED
  BY <1>1, <1>2, <1>3, <1>4 DEF Store

LEMMA BlankStore ==
    /\ Blank \in Store
    /\ \A s \in Scopes : MessagesOf(Blank[s]) = <<>>
BY DEF Blank, Store, MessagesOf

LEMMA EmptyList ==
    /\ <<>> \in Seq(Message) /\ Paired(<<>>)
    /\ Authors(<<>>) = {} /\ Repliers(<<>>) = {}
<1>1. <<>> \in Seq(Message) /\ Len(<<>>) = 0 /\ ToSet(<<>>) = {}
  BY EmptySeq DEF ToSet
<1>2. QED
  BY <1>1 DEF Paired, Authors, Repliers

\* The authors of a list are turns, and who replies is an author.
LEMMA ListAuthors ==
    ASSUME NEW m \in Seq(Message)
    PROVE  Repliers(m) \subseteq Authors(m) /\ Authors(m) \subseteq Turns
<1>1. \A x \in ToSet(m) : x \in Message
  <2>1. ASSUME NEW x \in ToSet(m) PROVE x \in Message
    <3>1. PICK i \in 1..Len(m) : x = m[i]
      BY LenProperties DEF ToSet
    <3>2. QED
      BY <3>1, ElementOfSeq
  <2>2. QED
    BY <2>1
<1>2. QED
  BY <1>1 DEF Repliers, Authors, Message

\* What a turn has ended in is never forgotten, so a list that fitted still fits.
LEMMA FitsLater ==
    ASSUME NEW m, NEW s \in Scopes, NEW old, NEW new, Fits(m, s, old),
           \A r \in Turns : old[r] \in Scopes => new[r] = old[r]
    PROVE  Fits(m, s, new)
BY ListAuthors DEF Fits

LEMMA StoreFitsLater ==
    ASSUME NEW store, NEW old, NEW new, StoreFits(store, old),
           \A r \in Turns : old[r] \in Scopes => new[r] = old[r]
    PROVE  StoreFits(store, new)
BY FitsLater DEF StoreFits

LEMMA BlankFits == \A home : StoreFits(Blank, home)
BY BlankStore, EmptyList DEF StoreFits, Fits

-----------------------------------------------------------------------------
(* What a turn stores at its end *)

LEMMA EndingLists ==
    ASSUME Typed, Lists, NEW r \in Turns, pc[r] = "waiting"
    PROVE  /\ turn[r].scope \in Scopes /\ turn[r].copy \in Seq(Message)
           /\ Asked(r) \in Seq(Message) /\ Answered(r) \in Seq(Message)
           /\ Paired(Asked(r)) /\ Paired(Answered(r))
           /\ Authors(Asked(r)) = Authors(turn[r].copy) \cup {r}
           /\ Authors(Answered(r)) = Authors(turn[r].copy) \cup {r}
           /\ Repliers(Asked(r)) = Repliers(turn[r].copy)
           /\ Repliers(Answered(r)) = Repliers(turn[r].copy) \cup {r}
<1> DEFINE u == [turn |-> r, role |-> "user"]
           a == [turn |-> r, role |-> "assistant"]
           m == turn[r].copy
<1>1. turn[r].scope \in Scopes /\ Fits(m, turn[r].scope, Home)
  BY DEF Typed, Placed, Lists
<1>2. m \in Seq(Message) /\ Paired(m)
  BY <1>1 DEF Fits
<1>3. r \notin Authors(m)
  BY <1>1, NoScopeAssumption DEF Fits, Home
<1>4. u \in Message /\ a \in Message /\ u.turn = r /\ a.turn = r
      /\ u.role = "user" /\ a.role = "assistant"
  BY DEF Message
<1>5. /\ Append(m, u) \in Seq(Message)
      /\ Authors(Append(m, u)) = Authors(m) \cup {r}
      /\ Repliers(Append(m, u)) = Repliers(m)
  BY <1>2, <1>4, AppendedMessage
<1>6. /\ Append(Append(m, u), a) \in Seq(Message)
      /\ Authors(Append(Append(m, u), a)) = Authors(m) \cup {r}
      /\ Repliers(Append(Append(m, u), a)) = Repliers(m) \cup {r}
  BY <1>4, <1>5, AppendedMessage
<1>7. Paired(Append(m, u)) /\ Paired(Append(Append(m, u), a))
  BY <1>2, <1>3, EndedList
<1>8. QED
  BY <1>1, <1>2, <1>5, <1>6, <1>7 DEF Asked, Answered

\* The stores of a turn differ from the dictionary in the list of its session.
LEMMA EndingStores ==
    ASSUME Typed, Lists, NEW r \in Turns, pc[r] = "waiting",
           NEW how \in {"completed", "failed"}
    PROVE  /\ Question(r) \in Store /\ Reply(r) \in Store /\ Persisted(r, how) \in Store
           /\ \A z \in Scopes :
                 /\ MessagesOf(Question(r)[z])
                    = IF z = turn[r].scope THEN Asked(r) ELSE MessagesOf(data[z])
                 /\ MessagesOf(Reply(r)[z])
                    = IF z = turn[r].scope THEN Answered(r) ELSE MessagesOf(data[z])
                 /\ MessagesOf(Persisted(r, how)[z]) = MessagesOf(Reply(r)[z])
<1>1. /\ data \in Store /\ turn[r].scope \in Scopes
      /\ Asked(r) \in Seq(Message) /\ Answered(r) \in Seq(Message)
  BY EndingLists DEF Typed, TypeOK
<1>2. /\ Question(r) \in Store
      /\ \A z \in Scopes : MessagesOf(Question(r)[z])
            = IF z = turn[r].scope THEN Asked(r) ELSE MessagesOf(data[z])
  BY <1>1, StoredList DEF Question
<1>3. /\ Reply(r) \in Store
      /\ \A z \in Scopes : MessagesOf(Reply(r)[z])
            = IF z = turn[r].scope THEN Answered(r) ELSE MessagesOf(data[z])
  BY <1>1, StoredList DEF Reply
<1>4. /\ Persisted(r, how) \in Store
      /\ \A z \in Scopes : MessagesOf(Persisted(r, how)[z]) = MessagesOf(Reply(r)[z])
  BY <1>1, <1>3, OwnedList DEF Persisted
<1>5. QED
  BY <1>2, <1>3, <1>4

\* They fit any state in which the turn has ended in its session.
LEMMA EndingStoresFit ==
    ASSUME Typed, Lists, NEW r \in Turns, pc[r] = "waiting",
           NEW how \in {"completed", "failed"},
           NEW new, new[r] = turn[r].scope,
           \A q \in Turns : Home[q] \in Scopes => new[q] = Home[q]
    PROVE  /\ StoreFits(Question(r), new)
           /\ StoreFits(Reply(r), new)
           /\ StoreFits(Persisted(r, how), new)
<1> DEFINE s == turn[r].scope
<1>1. s \in Scopes /\ Fits(turn[r].copy, s, new)
  BY FitsLater DEF Typed, Placed, Lists
<1>2. Fits(Asked(r), s, new) /\ Fits(Answered(r), s, new)
  BY <1>1, EndingLists DEF Fits
<1>3. \A z \in Scopes : Fits(MessagesOf(data[z]), z, new)
  BY StoreFitsLater DEF Lists, StoreFits
<1>4. QED
  BY <1>2, <1>3, EndingStores DEF StoreFits

-----------------------------------------------------------------------------
(* Types and lists are preserved *)

\* The end of a turn changes nothing but that turn.
LEMMA EndTyped ==
    ASSUME Typed, NEW r \in Turns, pc[r] = "waiting",
           NEW how \in {"unprepared", "completed", "failed", "cancelled"},
           NEW sent \in Seq({"done", "error", "end"}), End(r, how, sent)
    PROVE  /\ pc' \in [Turns -> {"idle", "waiting", "ended"}]
           /\ turn' \in [Turns -> [scope : Scopes \cup {NoScope}, stream : BOOLEAN,
                                   copy : Seq(Message)]]
           /\ outcome' \in [Turns -> {"none", "unprepared", "completed", "failed",
                                      "cancelled", "died"}]
           /\ events' \in [Turns -> Seq({"done", "error", "end"})]
           /\ Placed'
           /\ \A q \in Turns :
                 /\ turn'[q].scope = turn[q].scope
                 /\ turn'[q].copy = IF q = r THEN <<>> ELSE turn[q].copy
                 /\ pc'[q] = IF q = r THEN "ended" ELSE pc[q]
                 /\ outcome'[q] = IF q = r THEN how ELSE outcome[q]
<1>1. [turn[r] EXCEPT !.copy = <<>>] \in [scope : Scopes \cup {NoScope}, stream : BOOLEAN,
                                         copy : Seq(Message)]
  BY EmptyList DEF Typed, TypeOK
<1>2. turn' = [turn EXCEPT ![r] = [turn[r] EXCEPT !.copy = <<>>]]
  BY DEF End
<1>3. /\ turn' \in [Turns -> [scope : Scopes \cup {NoScope}, stream : BOOLEAN,
                              copy : Seq(Message)]]
      /\ \A q \in Turns :
            /\ turn'[q].scope = turn[q].scope
            /\ turn'[q].copy = IF q = r THEN <<>> ELSE turn[q].copy
  BY <1>1, <1>2 DEF Typed, TypeOK
<1>4. \A q \in Turns : /\ pc'[q] = IF q = r THEN "ended" ELSE pc[q]
                       /\ outcome'[q] = IF q = r THEN how ELSE outcome[q]
  BY DEF End, Typed, TypeOK
<1>5. Placed'
  BY <1>3, <1>4 DEF Typed, Placed, Stored
<1>6. pc' \in [Turns -> {"idle", "waiting", "ended"}]
  BY DEF End, Typed, TypeOK
<1>7. outcome' \in [Turns -> {"none", "unprepared", "completed", "failed", "cancelled", "died"}]
  BY DEF End, Typed, TypeOK
<1>8. events' \in [Turns -> Seq({"done", "error", "end"})]
  BY Zenon DEF End, Typed, TypeOK
<1>9. QED
  BY <1>3, <1>4, <1>5, <1>6, <1>7, <1>8

LEMMA SentTyped ==
    ASSUME NEW r \in Turns, NEW metered \in BOOLEAN,
           NEW how \in {"unprepared", "completed", "failed"}
    PROVE  Sent(r, how, metered) \in Seq({"done", "error", "end"})
<1> DEFINE Events == {"done", "error", "end"}
<1>1. <<"error", "end">> \in Seq(Events)
  OBVIOUS
<1>2. <<"done", "end">> \in Seq(Events)
  OBVIOUS
<1>3. <<"error", "done", "end">> \in Seq(Events)
  OBVIOUS
<1>4. <<"error">> \in Seq(Events)
  OBVIOUS
<1>5. <<"done">> \in Seq(Events)
  OBVIOUS
<1> HIDE DEF Events
<1>6. Sent(r, how, metered) \in Seq(Events)
  BY <1>1, <1>2, <1>3, <1>4, <1>5, Zenon DEF Sent
<1>7. QED
  BY <1>6 DEF Events

LEMMA TypedStep == Typed /\ Lists /\ [Next]_vars => Typed'
<1> SUFFICES ASSUME Typed, Lists, [Next]_vars
             PROVE  Typed'
  OBVIOUS
<1>1. ASSUME NEW r \in Turns, NEW s \in Scopes, NEW stream \in BOOLEAN, Begin(r, s, stream)
      PROVE  Typed'
  <2>1. [scope |-> s, stream |-> stream, copy |-> Loaded(s)]
           \in [scope : Scopes \cup {NoScope}, stream : BOOLEAN, copy : Seq(Message)]
    BY SessionList DEF Loaded, Typed, TypeOK
  <2>2. QED
    BY <1>1, <2>1 DEF Begin, Typed, TypeOK, Placed, Stored, storeVars, historyVars
<1>2. ASSUME NEW r \in Turns, PrepareFails(r)
      PROVE  Typed'
  BY <1>2, EndTyped, SentTyped DEF PrepareFails, storeVars, historyVars, Typed, TypeOK
<1>3. ASSUME NEW r \in Turns, Leave(r)
      PROVE  Typed'
  <2>1. <<"end">> \in Seq({"done", "error", "end"})
    OBVIOUS
  <2>2. QED
    BY <1>3, <2>1, EndTyped DEF Leave, storeVars, historyVars, Typed, TypeOK
<1>4. ASSUME NEW r \in Turns, NEW how \in {"completed", "failed"}, Finish(r, how)
      PROVE  Typed'
  <2>1. data' \in Store /\ file' \in Store
    BY <1>4, EndingStores, BlankStore DEF Finish, Save, Typed, TypeOK
  <2>2. PICK metered \in BOOLEAN : End(r, how, Sent(r, how, metered))
    BY <1>4 DEF Finish
  <2>3. pc[r] = "waiting" /\ excused' \subseteq Turns
        /\ UNCHANGED <<deleted, straddled>>
    BY <1>4 DEF Finish, Typed, TypeOK
  <2>4. QED
    BY <2>1, <2>2, <2>3, EndTyped, SentTyped DEF Typed, TypeOK
<1>5. ASSUME NEW s \in Scopes, Rename(s)
      PROVE  Typed'
  BY <1>5, OwnedList, BlankStore
  DEF Rename, Save, turnVars, historyVars, Typed, TypeOK, Placed, Stored
<1>6. ASSUME NEW s \in Scopes, Delete(s)
      PROVE  Typed'
  <2>1. Replied(data[s]) \subseteq Turns
    <3>1. Repliers(MessagesOf(data[s])) \subseteq Turns
      BY SessionList, ListAuthors DEF Typed, TypeOK
    <3>2. QED
      BY <3>1 DEF Replied, Repliers
  <2>2. data' \in Store /\ file' \in Store
    BY <1>6, BlankStore DEF Delete, Save, Typed, TypeOK, Store
  <2>3. excused' \subseteq Turns /\ deleted' \subseteq Turns /\ straddled' \subseteq Turns
    BY <1>6, <2>1 DEF Delete, Typed, TypeOK
  <2>4. QED
    BY <1>6, <2>2, <2>3 DEF Delete, turnVars, Typed, TypeOK, Placed, Stored
<1>7. ASSUME NEW f \in Store, RestartFrom(f)
      PROVE  Typed'
  <2>1. Kept(data) \subseteq Turns
    <3>1. \A s \in Scopes : Repliers(MessagesOf(data[s])) \subseteq Turns
      BY SessionList, ListAuthors DEF Typed, TypeOK
    <3>2. QED
      BY <3>1 DEF Kept, Replied, Repliers
  <2>2. \A r \in Turns : [turn[r] EXCEPT !.copy = <<>>]
           \in [scope : Scopes \cup {NoScope}, stream : BOOLEAN, copy : Seq(Message)]
    BY EmptyList DEF Typed, TypeOK
  <2>3. turn' \in [Turns -> [scope : Scopes \cup {NoScope}, stream : BOOLEAN,
                           copy : Seq(Message)]]
        /\ \A r \in Turns : turn'[r].scope = turn[r].scope
    BY <1>7, <2>2 DEF RestartFrom, Typed, TypeOK
  <2>4. excused' \subseteq Turns
    BY <1>7, <2>1 DEF RestartFrom, Typed, TypeOK
  <2>5. /\ pc' \in [Turns -> {"idle", "waiting", "ended"}]
        /\ outcome' \in [Turns -> {"none", "unprepared", "completed", "failed",
                                   "cancelled", "died"}]
    BY <1>7 DEF RestartFrom, Typed, TypeOK
  <2>6. Placed'
    BY <1>7, <2>3 DEF RestartFrom, Typed, TypeOK, Placed, Stored
  <2>7. QED
    BY <1>7, <2>3, <2>4, <2>5, <2>6 DEF RestartFrom, Typed, TypeOK
<1>8. CASE Crash
  BY <1>7, <1>8 DEF Crash, Typed, TypeOK
<1>9. ASSUME NEW r \in Turns, NEW how \in {"completed", "failed"}, CrashInFinish(r, how)
      PROVE  Typed'
  BY <1>7, <1>9, EndingStores, BlankStore DEF CrashInFinish
<1>10. CASE UNCHANGED vars
  BY <1>10 DEF vars, storeVars, turnVars, historyVars, Typed, TypeOK, Placed, Stored
<1>11. QED
  BY <1>1, <1>2, <1>3, <1>4, <1>5, <1>6, <1>8, <1>9, <1>10 DEF Next

\* A restart leaves no turn waiting, and moves none to another session.
LEMMA Restarted ==
    ASSUME Typed, NEW f, RestartFrom(f)
    PROVE  \A r \in Turns :
              /\ turn'[r].scope = turn[r].scope
              /\ pc'[r] # "waiting" /\ (pc[r] # "idle" => pc'[r] = "ended")
              /\ outcome'[r] = IF pc[r] = "waiting" THEN "died" ELSE outcome[r]
<1>1. \A r \in Turns : /\ pc'[r] = IF pc[r] = "waiting" THEN "ended" ELSE pc[r]
                       /\ outcome'[r] = IF pc[r] = "waiting" THEN "died" ELSE outcome[r]
  BY DEF RestartFrom
<1>2. \A r \in Turns : pc[r] \in {"idle", "waiting", "ended"}
  BY DEF Typed, TypeOK
<1>3. \A r \in Turns : turn'[r].scope = turn[r].scope
  BY DEF RestartFrom, Typed, TypeOK
<1>4. QED
  BY <1>1, <1>2, <1>3

\* The session a turn has ended in stays the one it ended in.
LEMMA StepHome ==
    ASSUME Typed, [Next]_vars
    PROVE  \A q \in Turns : Home[q] \in Scopes => Home'[q] = Home[q]
<1> SUFFICES ASSUME NEW q \in Turns, pc[q] = "ended"
             PROVE  pc'[q] = "ended" /\ turn'[q].scope = turn[q].scope
  BY NoScopeAssumption DEF Home
<1>1. ASSUME NEW r \in Turns, NEW s \in Scopes, NEW stream \in BOOLEAN, Begin(r, s, stream)
      PROVE  pc'[q] = "ended" /\ turn'[q].scope = turn[q].scope
  <2>1. q # r
    BY <1>1 DEF Begin
  <2>2. QED
    BY <1>1, <2>1 DEF Begin, Typed, TypeOK
<1>2. ASSUME NEW r \in Turns, NEW how, NEW sent, End(r, how, sent)
      PROVE  pc'[q] = "ended" /\ turn'[q].scope = turn[q].scope
  BY <1>2 DEF End, Typed, TypeOK
<1>3. ASSUME NEW f, RestartFrom(f)
      PROVE  pc'[q] = "ended" /\ turn'[q].scope = turn[q].scope
  BY <1>3, Restarted
<1>4. ASSUME UNCHANGED turnVars
      PROVE  pc'[q] = "ended" /\ turn'[q].scope = turn[q].scope
  BY <1>4 DEF turnVars
<1>5. QED
  BY <1>1, <1>2, <1>3, <1>4
  DEF Next, PrepareFails, Leave, Finish, CrashInFinish, Rename, Delete, Crash, vars

LEMMA ListsStep == Typed /\ Lists /\ [Next]_vars => Lists'
<1> SUFFICES ASSUME Typed, Lists, [Next]_vars
             PROVE  Lists'
  OBVIOUS
<1>1. \A q \in Turns : Home[q] \in Scopes => Home'[q] = Home[q]
  BY StepHome
<1>2. StoreFits(data, Home') /\ StoreFits(file, Home')
  BY <1>1, StoreFitsLater DEF Lists
<1>3. \A q \in Turns : pc[q] = "waiting" => Fits(turn[q].copy, turn[q].scope, Home')
  BY <1>1, FitsLater DEF Lists, Typed, Placed
<1>4. StoreFits(Blank, Home')
  BY BlankFits
<1>5. ASSUME NEW r \in Turns, NEW s \in Scopes, NEW stream \in BOOLEAN, Begin(r, s, stream)
      PROVE  Lists'
  <2>1. data' = data /\ file' = file
    BY <1>5 DEF Begin, storeVars
  <2>2. Fits(Loaded(s), s, Home')
    BY <1>2 DEF Loaded, StoreFits
  <2>3. \A q \in Turns : /\ q = r => turn'[q].scope = s /\ turn'[q].copy = Loaded(s)
                         /\ q # r => turn'[q] = turn[q] /\ pc'[q] = pc[q]
    BY <1>5 DEF Begin, Typed, TypeOK
  <2>4. QED
    BY <1>2, <1>3, <2>1, <2>2, <2>3 DEF Lists
<1>6. ASSUME NEW r \in Turns, pc[r] = "waiting",
             NEW how \in {"unprepared", "completed", "failed", "cancelled"},
             NEW sent \in Seq({"done", "error", "end"}), End(r, how, sent)
      PROVE  \A q \in Turns : pc'[q] = "waiting" => Fits(turn'[q].copy, turn'[q].scope, Home')
  BY <1>3, <1>6, EndTyped
<1>7. ASSUME NEW r \in Turns, PrepareFails(r)
      PROVE  Lists'
  BY <1>2, <1>6, <1>7, SentTyped DEF PrepareFails, storeVars, Lists
<1>8. ASSUME NEW r \in Turns, Leave(r)
      PROVE  Lists'
  <2>1. <<"end">> \in Seq({"done", "error", "end"})
    OBVIOUS
  <2>2. QED
    BY <1>2, <1>6, <1>8, <2>1 DEF Leave, storeVars, Lists
<1>9. ASSUME NEW r \in Turns, NEW how \in {"completed", "failed"}, Finish(r, how)
      PROVE  Lists'
  <2>1. PICK metered \in BOOLEAN : End(r, how, Sent(r, how, metered))
    BY <1>9 DEF Finish
  <2>2. pc[r] = "waiting" /\ Sent(r, how, metered) \in Seq({"done", "error", "end"})
    BY <1>9, SentTyped DEF Finish
  <2>3. Home'[r] = turn[r].scope
    BY <2>1, <2>2, EndTyped DEF Home
  <2>4. /\ StoreFits(Question(r), Home')
        /\ StoreFits(Reply(r), Home')
        /\ StoreFits(Persisted(r, how), Home')
    BY <1>1, <2>2, <2>3, EndingStoresFit
  <2>5. StoreFits(data', Home') /\ StoreFits(file', Home')
    BY <1>2, <1>4, <1>9, <2>4 DEF Finish, Save
  <2>6. QED
    BY <1>6, <2>1, <2>2, <2>5 DEF Lists
<1>10. ASSUME NEW s \in Scopes, Rename(s)
       PROVE  Lists'
  <2>1. StoreFits(WithOwner(data, s), Home')
    BY <1>2, OwnedList DEF StoreFits
  <2>2. StoreFits(data', Home') /\ StoreFits(file', Home')
    BY <1>2, <1>4, <1>10, <2>1 DEF Rename, Save
  <2>3. QED
    BY <1>3, <1>10, <2>2 DEF Rename, turnVars, Lists
<1>11. ASSUME NEW s \in Scopes, Delete(s)
       PROVE  Lists'
  <2>1. StoreFits([data EXCEPT ![s] = NoSession], Home')
    <3>1. [data EXCEPT ![s] = NoSession] \in Store
      BY DEF Typed, TypeOK, Store
    <3>2. \A z \in Scopes : MessagesOf([data EXCEPT ![s] = NoSession][z])
                             = IF z = s THEN <<>> ELSE MessagesOf(data[z])
      BY DEF Typed, TypeOK, Store, MessagesOf
    <3>3. QED
      BY <1>2, <3>1, <3>2, EmptyList DEF StoreFits, Fits
  <2>2. StoreFits(data', Home') /\ StoreFits(file', Home')
    BY <1>2, <1>4, <1>11, <2>1 DEF Delete, Save
  <2>3. QED
    BY <1>3, <1>11, <2>2 DEF Delete, turnVars, Lists
<1>12. ASSUME NEW f, StoreFits(f, Home'), RestartFrom(f)
       PROVE  Lists'
  BY <1>12, Restarted DEF RestartFrom, Lists
<1>13. CASE Crash
  BY <1>2, <1>12, <1>13 DEF Crash
<1>14. ASSUME NEW r \in Turns, NEW how \in {"completed", "failed"}, CrashInFinish(r, how)
       PROVE  Lists'
  <2>1. PICK f \in {Question(r), Reply(r), Blank} : RestartFrom(f)
    BY <1>14 DEF CrashInFinish
  <2>2. pc[r] = "waiting" /\ Home'[r] = turn[r].scope
    BY <1>14, <2>1, Restarted DEF CrashInFinish, Home
  <2>3. StoreFits(Question(r), Home') /\ StoreFits(Reply(r), Home')
    BY <1>1, <2>2, EndingStoresFit
  <2>4. QED
    BY <1>4, <1>12, <2>1, <2>3
<1>15. CASE UNCHANGED vars
  BY <1>2, <1>3, <1>15 DEF vars, storeVars, turnVars, Lists
<1>16. QED
  BY <1>5, <1>7, <1>8, <1>9, <1>10, <1>11, <1>13, <1>14, <1>15 DEF Next

-----------------------------------------------------------------------------
(* What is kept, and what stays deleted *)

LEMMA Lookups ==
    \A session : /\ Replied(session) = Repliers(MessagesOf(session))
                 /\ Seen(session) = Authors(MessagesOf(session))
BY DEF Replied, Seen, Repliers, Authors

\* A reply in the lists of a store is that of a turn which ended in that session.
LEMMA RepliersEnded ==
    ASSUME NEW store, NEW home, StoreFits(store, home), NEW s \in Scopes,
           NEW r \in Repliers(MessagesOf(store[s]))
    PROVE  r \in Turns /\ home[r] = s
BY ListAuthors DEF StoreFits, Fits

LEMMA CopiesKeepStep == Typed /\ Lists /\ CopiesKeep /\ [Next]_vars => CopiesKeep'
<1> SUFFICES ASSUME Typed, Lists, CopiesKeep, [Next]_vars
             PROVE  CopiesKeep'
  OBVIOUS
<1>1. ASSUME NEW r \in Turns \ excused, Stored(r)
      PROVE  /\ turn[r].scope \in Scopes /\ pc[r] = "ended"
             /\ r \in Repliers(MessagesOf(data[turn[r].scope]))
             /\ \A q \in Turns : (pc[q] = "waiting" /\ turn[r].scope = turn[q].scope)
                                  => r \in Repliers(turn[q].copy)
  BY <1>1, Lookups DEF Typed, Placed, CopiesKeep, EndedTurnsAreKept
<1>2. ASSUME NEW r \in Turns, NEW s \in Scopes, NEW stream \in BOOLEAN, Begin(r, s, stream)
      PROVE  CopiesKeep'
  <2>1. data' = data /\ excused' = excused /\ outcome' = outcome /\ pc[r] = "idle"
    BY <1>2 DEF Begin, storeVars, historyVars
  <2>2. \A q \in Turns : /\ q = r => turn'[q].scope = s /\ turn'[q].copy = Loaded(s)
                         /\ q # r => turn'[q] = turn[q] /\ pc'[q] = pc[q]
    BY <1>2 DEF Begin, Typed, TypeOK
  <2>3. \A q \in Turns : Stored(q)' <=> Stored(q)
    BY <2>1 DEF Stored
  <2>4. \A q \in Turns : Stored(q) => q # r
    BY <2>1 DEF Typed, Placed
  <2>5. EndedTurnsAreKept'
    BY <1>1, <2>1, <2>2, <2>3, <2>4, Lookups DEF EndedTurnsAreKept
  <2>6. QED
    BY <1>1, <2>1, <2>2, <2>3, <2>4, <2>5 DEF CopiesKeep, Loaded
<1>3. ASSUME NEW r \in Turns, pc[r] = "waiting", NEW how \in {"unprepared", "cancelled"},
             NEW sent \in Seq({"done", "error", "end"}), End(r, how, sent),
             UNCHANGED <<storeVars, historyVars>>
      PROVE  CopiesKeep'
  <2>1. data' = data /\ excused' = excused
    BY <1>3 DEF storeVars, historyVars
  <2>2. \A q \in Turns : /\ turn'[q].scope = turn[q].scope
                         /\ pc'[q] = "waiting" => pc[q] = "waiting" /\ turn'[q].copy = turn[q].copy
                         /\ Stored(q)' => Stored(q)
    BY <1>3, EndTyped DEF Stored
  <2>3. EndedTurnsAreKept'
    BY <1>1, <2>1, <2>2, Lookups DEF EndedTurnsAreKept
  <2>4. QED
    BY <1>1, <2>1, <2>2, <2>3 DEF CopiesKeep
<1>4. ASSUME NEW r \in Turns, PrepareFails(r)
      PROVE  CopiesKeep'
  BY <1>3, <1>4, SentTyped DEF PrepareFails
<1>5. ASSUME NEW r \in Turns, Leave(r)
      PROVE  CopiesKeep'
  <2>1. <<"end">> \in Seq({"done", "error", "end"})
    OBVIOUS
  <2>2. QED
    BY <1>3, <1>5, <2>1 DEF Leave
<1>6. ASSUME NEW r \in Turns, NEW how \in {"completed", "failed"}, Finish(r, how)
      PROVE  CopiesKeep'
  <2>1. PICK metered \in BOOLEAN : End(r, how, Sent(r, how, metered))
    BY <1>6 DEF Finish
  <2>2. pc[r] = "waiting" /\ Sent(r, how, metered) \in Seq({"done", "error", "end"})
    BY <1>6, SentTyped DEF Finish
  <2>3. \A q \in Turns : /\ turn'[q].scope = turn[q].scope
                         /\ pc'[q] = "waiting" => /\ q # r /\ pc[q] = "waiting"
                                                 /\ turn'[q].copy = turn[q].copy
                         /\ Stored(q)' => q = r \/ Stored(q)
    BY <2>1, <2>2, EndTyped DEF Stored
  <2>4. data' = Persisted(r, how) /\ excused \subseteq excused'
        /\ (Overlapped(r) => r \in excused')
    BY <1>6 DEF Finish, Save
  <2>5. \A z \in Scopes : Repliers(MessagesOf(data'[z]))
           = IF z = turn[r].scope THEN Repliers(turn[r].copy) \cup {r}
                                  ELSE Repliers(MessagesOf(data[z]))
    BY <2>2, <2>4, EndingStores, EndingLists
  <2>6. ASSUME NEW p \in Turns \ excused', Stored(p)'
        PROVE  p \in Repliers(MessagesOf(data'[turn'[p].scope]))
    <3>1. CASE p = r
      BY <2>2, <2>3, <2>5, <3>1, EndingLists
    <3>2. CASE p # r
      BY <1>1, <2>2, <2>3, <2>4, <2>5, <2>6, <3>2
    <3>3. QED
      BY <3>1, <3>2
  <2>7. ASSUME NEW q \in Turns, pc'[q] = "waiting", NEW p \in Turns \ excused', Stored(p)',
               turn'[p].scope = turn'[q].scope
        PROVE  p \in Repliers(turn'[q].copy)
    <3>1. CASE p = r
      BY <2>3, <2>4, <2>7, <3>1 DEF Overlapped
    <3>2. CASE p # r
      BY <1>1, <2>3, <2>4, <2>7, <3>2
    <3>3. QED
      BY <3>1, <3>2
  <2>8. QED
    BY <2>6, <2>7, Lookups DEF CopiesKeep, EndedTurnsAreKept
<1>7. ASSUME UNCHANGED turnVars, excused \subseteq excused',
             \A r \in Turns \ excused' : Stored(r) =>
                r \in Repliers(MessagesOf(data'[turn[r].scope]))
      PROVE  CopiesKeep'
  BY <1>1, <1>7, Lookups DEF turnVars, Stored, CopiesKeep, EndedTurnsAreKept
<1>8. ASSUME NEW s \in Scopes, Rename(s)
      PROVE  CopiesKeep'
  <2>1. \A z \in Scopes : MessagesOf(data'[z]) = MessagesOf(data[z])
    BY <1>8, OwnedList DEF Rename, Save, Typed, TypeOK
  <2>2. QED
    BY <1>1, <1>7, <1>8, <2>1 DEF Rename, historyVars
<1>9. ASSUME NEW s \in Scopes, Delete(s)
      PROVE  CopiesKeep'
  <2>1. excused' = excused \cup Repliers(MessagesOf(data[s])) /\ UNCHANGED turnVars
    BY <1>9, Lookups DEF Delete
  <2>2. \A z \in Scopes \ {s} : data'[z] = data[z]
    BY <1>9 DEF Delete, Save, Typed, TypeOK, Store
  <2>3. QED
    BY <1>1, <1>7, <2>1, <2>2
<1>10. ASSUME NEW f, StoreFits(f, Home'), RestartFrom(f)
       PROVE  CopiesKeep'
  <2>1. data' = f /\ excused' = excused \cup (Kept(data) \ Kept(f))
    BY <1>10 DEF RestartFrom
  <2>2. ASSUME NEW p \in Turns \ excused', Stored(p)'
        PROVE  p \in Repliers(MessagesOf(data'[turn'[p].scope]))
    <3>1. Stored(p) /\ p \notin excused /\ turn'[p].scope = turn[p].scope
      BY <1>10, <2>1, <2>2, Restarted DEF Stored
    <3>2. turn[p].scope \in Scopes /\ p \in Kept(data) /\ pc[p] = "ended"
      BY <1>1, <3>1, Lookups DEF Kept
    <3>3. p \in Kept(f)
      BY <2>1, <2>2, <3>2
    <3>4. PICK z \in Scopes : p \in Repliers(MessagesOf(f[z]))
      BY <3>3, Lookups DEF Kept
    <3>5. Home'[p] = z
      BY <1>10, <3>4, RepliersEnded
    <3>6. pc'[p] = "ended"
      BY <1>10, <3>2, Restarted
    <3>7. QED
      BY <2>1, <3>1, <3>4, <3>5, <3>6 DEF Home
  <2>3. \A q \in Turns : pc'[q] # "waiting"
    BY <1>10, Restarted
  <2>4. QED
    BY <2>2, <2>3, Lookups DEF CopiesKeep, EndedTurnsAreKept
<1>11. StoreFits(data, Home') /\ StoreFits(file, Home') /\ StoreFits(Blank, Home')
  BY StepHome, StoreFitsLater, BlankFits DEF Lists
<1>12. CASE Crash
  BY <1>10, <1>11, <1>12 DEF Crash
<1>13. ASSUME NEW r \in Turns, NEW how \in {"completed", "failed"}, CrashInFinish(r, how)
       PROVE  CopiesKeep'
  <2>1. PICK f \in {Question(r), Reply(r), Blank} : RestartFrom(f)
    BY <1>13 DEF CrashInFinish
  <2>2. pc[r] = "waiting" /\ Home'[r] = turn[r].scope
    BY <1>13, <2>1, Restarted DEF CrashInFinish, Home
  <2>3. StoreFits(Question(r), Home') /\ StoreFits(Reply(r), Home')
    BY <2>2, StepHome, EndingStoresFit
  <2>4. QED
    BY <1>10, <1>11, <2>1, <2>3
<1>14. CASE UNCHANGED vars
  BY <1>14, <1>7, <1>1 DEF vars, storeVars, historyVars
<1>15. QED
  BY <1>2, <1>4, <1>5, <1>6, <1>8, <1>9, <1>12, <1>13, <1>14 DEF Next

\* What a turn stores shows no deleted turn that its copy did not show, unless the
\* turn straddled the deletion.
LEMMA EndingStoresMarked ==
    ASSUME Typed, Lists, Marks, NEW r \in Turns, pc[r] = "waiting",
           NEW how \in {"completed", "failed"}
    PROVE  /\ StoreMarked(Question(r), deleted, straddled)
           /\ StoreMarked(Reply(r), deleted, straddled)
           /\ StoreMarked(Persisted(r, how), deleted, straddled)
<1>1. r \notin deleted
  BY DEF Marks
<1>2. r \in straddled \/ Marked(turn[r].copy, deleted, straddled)
  BY DEF Marks
<1>3. Marked(Asked(r), deleted, straddled) /\ Marked(Answered(r), deleted, straddled)
  BY <1>1, <1>2, EndingLists DEF Marked
<1>4. \A z \in Scopes : Marked(MessagesOf(data[z]), deleted, straddled)
  BY DEF Marks, StoreMarked
<1>5. QED
  BY <1>3, <1>4, EndingStores DEF StoreMarked

LEMMA MarksStep == Typed /\ Lists /\ Marks /\ [Next]_vars => Marks'
<1> SUFFICES ASSUME Typed, Lists, Marks, [Next]_vars
             PROVE  Marks'
  OBVIOUS
<1>1. /\ \A r \in deleted : pc[r] = "ended"
      /\ StoreMarked(data, deleted, straddled) /\ StoreMarked(file, deleted, straddled)
      /\ \A q \in Turns : pc[q] = "waiting" =>
            q \in straddled \/ Marked(turn[q].copy, deleted, straddled)
      /\ deleted \subseteq Turns
  BY DEF Marks, Typed, TypeOK
<1>2. StoreMarked(Blank, deleted, straddled)
  BY BlankStore, EmptyList DEF StoreMarked, Marked
<1>3. ASSUME NEW r \in Turns, NEW s \in Scopes, NEW stream \in BOOLEAN, Begin(r, s, stream)
      PROVE  Marks'
  <2>1. /\ data' = data /\ file' = file /\ deleted' = deleted /\ straddled' = straddled
        /\ pc[r] = "idle"
    BY <1>3 DEF Begin, storeVars, historyVars
  <2>2. Marked(Loaded(s), deleted, straddled)
    BY <1>1 DEF Loaded, StoreMarked
  <2>3. \A q \in Turns : /\ q = r => turn'[q].copy = Loaded(s)
                         /\ q # r => turn'[q] = turn[q] /\ pc'[q] = pc[q]
    BY <1>3 DEF Begin, Typed, TypeOK
  <2>4. \A q \in deleted : pc'[q] = "ended"
    BY <1>1, <2>1, <2>3
  <2>5. QED
    BY <1>1, <2>1, <2>2, <2>3, <2>4 DEF Marks
<1>4. ASSUME NEW r \in Turns, pc[r] = "waiting",
             NEW how \in {"unprepared", "completed", "failed", "cancelled"},
             NEW sent \in Seq({"done", "error", "end"}), End(r, how, sent),
             UNCHANGED <<deleted, straddled>>,
             StoreMarked(data', deleted, straddled), StoreMarked(file', deleted, straddled)
      PROVE  Marks'
  <2>1. \A q \in Turns : /\ pc'[q] = "waiting" => pc[q] = "waiting" /\ turn'[q].copy = turn[q].copy
                         /\ pc[q] = "ended" => pc'[q] = "ended"
    BY <1>4, EndTyped
  <2>2. QED
    BY <1>1, <1>4, <2>1 DEF Marks
<1>5. ASSUME NEW r \in Turns, PrepareFails(r)
      PROVE  Marks'
  BY <1>1, <1>4, <1>5, SentTyped DEF PrepareFails, storeVars, historyVars
<1>6. ASSUME NEW r \in Turns, Leave(r)
      PROVE  Marks'
  <2>1. <<"end">> \in Seq({"done", "error", "end"})
    OBVIOUS
  <2>2. QED
    BY <1>1, <1>4, <1>6, <2>1 DEF Leave, storeVars, historyVars
<1>7. ASSUME NEW r \in Turns, NEW how \in {"completed", "failed"}, Finish(r, how)
      PROVE  Marks'
  <2>1. PICK metered \in BOOLEAN : End(r, how, Sent(r, how, metered))
    BY <1>7 DEF Finish
  <2>2. pc[r] = "waiting" /\ Sent(r, how, metered) \in Seq({"done", "error", "end"})
    BY <1>7, SentTyped DEF Finish
  <2>3. StoreMarked(data', deleted, straddled) /\ StoreMarked(file', deleted, straddled)
    BY <1>1, <1>2, <1>7, <2>2, EndingStoresMarked DEF Finish, Save
  <2>4. QED
    BY <1>4, <1>7, <2>1, <2>2, <2>3 DEF Finish
<1>8. ASSUME NEW s \in Scopes, Rename(s)
      PROVE  Marks'
  <2>1. StoreMarked(WithOwner(data, s), deleted, straddled)
    BY <1>1, OwnedList DEF StoreMarked, Typed, TypeOK
  <2>2. StoreMarked(data', deleted, straddled) /\ StoreMarked(file', deleted, straddled)
    BY <1>1, <1>2, <1>8, <2>1 DEF Rename, Save
  <2>3. QED
    BY <1>1, <1>8, <2>2 DEF Rename, turnVars, historyVars, Marks
<1>9. ASSUME NEW s \in Scopes, Delete(s)
      PROVE  Marks'
  <2> DEFINE gone == Repliers(MessagesOf(data[s])) \ Kept(file')
  <2>1. /\ deleted' = deleted \cup gone /\ straddled \subseteq straddled'
        /\ UNCHANGED turnVars
        /\ \A q \in Turns : (pc[q] = "waiting" /\ turn[q].scope = s) => q \in straddled'
    BY <1>9, Lookups DEF Delete
  <2>2. \A r \in gone : r \in Turns /\ Home[r] = s /\ pc[r] = "ended"
    BY RepliersEnded, NoScopeAssumption DEF Lists, Home
  <2>3. \A z \in Scopes : MessagesOf(data'[z]) = IF z = s THEN <<>> ELSE MessagesOf(data[z])
    BY <1>9 DEF Delete, Save, Typed, TypeOK, Store, MessagesOf
  <2>4. StoreMarked(data', deleted', straddled')
    <3>1. ASSUME NEW z \in Scopes, z # s
          PROVE  Repliers(MessagesOf(data[z])) \cap gone = {}
      BY <2>2, <3>1, RepliersEnded DEF Lists
    <3>2. QED
      BY <1>1, <2>1, <2>3, <3>1, EmptyList DEF StoreMarked, Marked
  <2>5. StoreMarked(file', deleted', straddled')
    <3>1. \A z \in Scopes : Repliers(MessagesOf(file'[z])) \cap gone = {}
      BY Lookups DEF Kept
    <3>2. file' \in {data', file, Blank}
      BY <1>9 DEF Delete, Save
    <3>3. \A z \in Scopes : Marked(MessagesOf(file'[z]), deleted, straddled)
      BY <1>1, <1>2, <2>3, <3>2, EmptyList DEF StoreMarked, Marked
    <3>4. QED
      BY <2>1, <3>1, <3>3 DEF StoreMarked, Marked
  <2>6. ASSUME NEW q \in Turns, pc'[q] = "waiting"
        PROVE  q \in straddled' \/ Marked(turn'[q].copy, deleted', straddled')
    <3>1. pc[q] = "waiting" /\ turn' = turn
      BY <2>1, <2>6 DEF turnVars
    <3>2. CASE turn[q].scope = s
      BY <2>1, <3>1, <3>2
    <3>3. CASE turn[q].scope # s
      <4>1. Repliers(turn[q].copy) \cap gone = {}
        BY <2>2, <3>1, <3>3, ListAuthors DEF Lists, Fits
      <4>2. QED
        BY <1>1, <2>1, <3>1, <4>1 DEF Marked
    <3>4. QED
      BY <3>2, <3>3
  <2>7. \A r \in deleted' : pc'[r] = "ended"
    BY <1>1, <2>1, <2>2 DEF turnVars
  <2>8. QED
    BY <2>4, <2>5, <2>6, <2>7 DEF Marks
<1>10. ASSUME NEW f, StoreMarked(f, deleted, straddled), RestartFrom(f)
       PROVE  Marks'
  <2>1. data' = f /\ file' = f /\ deleted' = deleted /\ straddled' = straddled
    BY <1>10 DEF RestartFrom
  <2>2. QED
    BY <1>1, <1>10, <2>1, Restarted DEF Marks
<1>11. CASE Crash
  BY <1>1, <1>10, <1>11 DEF Crash
<1>12. ASSUME NEW r \in Turns, NEW how \in {"completed", "failed"}, CrashInFinish(r, how)
       PROVE  Marks'
  BY <1>2, <1>10, <1>12, EndingStoresMarked DEF CrashInFinish
<1>13. CASE UNCHANGED vars
  BY <1>1, <1>13 DEF vars, storeVars, turnVars, historyVars, Marks
<1>14. QED
  BY <1>3, <1>5, <1>6, <1>7, <1>8, <1>9, <1>11, <1>12, <1>13 DEF Next

-----------------------------------------------------------------------------
(* Theorems *)

LEMMA InvInit == Init => Inv
<1> SUFFICES ASSUME Init
             PROVE  Inv
  OBVIOUS
<1>1. data = Blank /\ file = Blank /\ excused = {} /\ deleted = {} /\ straddled = {}
      /\ \A r \in Turns : pc[r] = "idle" /\ outcome[r] = "none"
  BY DEF Init
<1>2. Typed
  BY <1>1, BlankStore, EmptyList, EmptySeq DEF Init, Typed, TypeOK, Placed, Stored
<1>3. Lists
  BY <1>1, BlankFits DEF Lists
<1>4. CopiesKeep
  BY <1>1 DEF CopiesKeep, EndedTurnsAreKept, Stored
<1>5. Marks
  BY <1>1 DEF Marks, StoreMarked, Marked
<1>6. QED
  BY <1>2, <1>3, <1>4, <1>5 DEF Inv

\* The invariant holds of every set of sessions and every number of turns.
THEOREM Invariance == Spec => []Inv
<1>1. Inv /\ [Next]_vars => Inv'
  BY TypedStep, ListsStep, CopiesKeepStep, MarksStep DEF Inv
<1>2. QED
  BY <1>1, InvInit, PTL DEF Spec

\* The dictionary, the file and the turns keep their types.
THEOREM TypeCorrectness == Spec => []TypeOK
<1>1. Inv => TypeOK
  BY DEF Inv, Typed
<1>2. QED
  BY <1>1, Invariance, PTL

\* However turns of a session overlap, are cancelled or die, save_session stores a
\* list in which every reply directly follows its question and no message is twice.
THEOREM RepliesFollow == Spec => []RepliesFollowQuestions
<1>1. Inv => RepliesFollowQuestions
  BY DEF Inv, Lists, StoreFits, Fits, Paired, RepliesFollowQuestions
<1>2. QED
  BY <1>1, Invariance, PTL

\* A turn that ended while no other of its session waited stays in the session until
\* a deletion, or a restart from a file it was not saved in.
THEOREM TurnsAreKept == Spec => []EndedTurnsAreKept
<1>1. Inv => EndedTurnsAreKept
  BY DEF Inv, CopiesKeep
<1>2. QED
  BY <1>1, Invariance, PTL

\* A deleted reply comes back only with a turn that waited over the deletion.
THEOREM DeletionsStay == Spec => []DeletedTurnsStayDeleted
<1>1. Inv => DeletedTurnsStayDeleted
  BY Lookups DEF Inv, Marks, StoreMarked, Marked, DeletedTurnsStayDeleted
<1>2. QED
  BY <1>1, Invariance, PTL

=============================================================================

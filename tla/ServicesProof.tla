------------------------------ MODULE ServicesProof ------------------------------
(***************************************************************************)
(* The safety properties of the data services and of the stores, proved    *)
(* for every value of their constants.  Each service and store has its     *)
(* invariant, a predicate of its own variables, which the steps of the     *)
(* others leave alone.                                                     *)
(***************************************************************************)
EXTENDS Services, MarketFeedProof, SelectionProof, SequenceTheorems, FiniteSetTheorems,
        TLAPS

-----------------------------------------------------------------------------
(* Sign-in nonces *)

\* What memory and file hold, given the nonces handed out and the tokens issued: records of
\* nonces handed out, those with a token used.
Honest(f, m, t) ==
    /\ f \in [DOMAIN f -> [wallet : Wallets, used : BOOLEAN]]
    /\ DOMAIN f \subseteq m
    /\ \A n \in DOMAIN f \cap Nonces : t[n] = 1 => f[n].used

\* A nonce with a token is used or absent wherever it is looked for, and was handed out.
NonceInv ==
    /\ tokens \in [Nonces -> 0..1]
    /\ \A n \in Nonces : tokens[n] = 1 => n \in made
    /\ Honest(records, made, tokens)
    /\ Honest(recordsFile, made, tokens)

LEMMA NoRecordsAreHonest ==
  ASSUME NEW m, NEW t
  PROVE  Honest(Wallet!NoRecords, m, t)
  BY DEF Honest, Wallet!NoRecords

\* A save leaves what it saves, what was there or nothing.
LEMMA SavesAreHonest ==
  ASSUME NEW m, NEW t, NEW r, NEW f, Honest(r, m, t), Honest(f, m, t),
         NEW save \in Wallet!Saves(r, f)
  PROVE  /\ Honest(save.file, m, t)
         /\ save.ok => save.file = r
<1>1. \/ save = [file |-> r, ok |-> TRUE, fails |-> 0]
      \/ save \in [file : {f, Wallet!NoRecords}, ok : {FALSE}, fails : {1}]
  BY DEF Wallet!Saves
<1>2. CASE save = [file |-> r, ok |-> TRUE, fails |-> 0]
  BY <1>2
<1>3. CASE save \in [file : {f, Wallet!NoRecords}, ok : {FALSE}, fails : {1}]
  <2>1. save.file \in {f, Wallet!NoRecords} /\ ~save.ok
    BY <1>3
  <2>2. QED
    BY <2>1, NoRecordsAreHonest
<1>4. QED
  BY <1>1, <1>2, <1>3

LEMMA LiveIsHonest ==
  ASSUME NonceInv
  PROVE  /\ Honest(Wallet!Live, made, tokens)
         /\ DOMAIN Wallet!Live \subseteq made
         /\ \A n \in DOMAIN Wallet!Live \cap Nonces : tokens[n] = 0
         /\ \A clean \in Wallet!CleanUps : Honest(clean.file, made, tokens)
<1>1. Honest(Wallet!Live, made, tokens)
  BY DEF NonceInv, Honest, Wallet!Live
<1>2. \A n \in DOMAIN Wallet!Live \cap Nonces : tokens[n] = 0
  BY DEF NonceInv, Honest, Wallet!Live
<1>3. \A clean \in Wallet!CleanUps : Honest(clean.file, made, tokens)
  <2>1. SUFFICES ASSUME NEW clean \in Wallet!CleanUps
                 PROVE  Honest(clean.file, made, tokens)
    OBVIOUS
  <2>2. CASE clean = [file |-> recordsFile, ok |-> TRUE, fails |-> 0]
    BY <2>2 DEF NonceInv
  <2>3. CASE clean \in Wallet!Saves(Wallet!Live, recordsFile)
    BY <2>3, <1>1, SavesAreHonest DEF NonceInv
  <2>4. QED
    BY <2>1, <2>2, <2>3 DEF Wallet!CleanUps
<1>4. QED
  BY <1>1, <1>2, <1>3 DEF Honest

LEMMA CreateNonceStep ==
  ASSUME NonceInv, NEW n \in Nonces, NEW w \in Wallets, Wallet!CreateNonce(n, w)
  PROVE  NonceInv'
<1> DEFINE record == [wallet |-> w, used |-> FALSE]
<1> DEFINE new == [k \in DOMAIN Wallet!Live \cup {n} |->
                      IF k = n THEN record ELSE Wallet!Live[k]]
<1>1. n \notin made /\ made' = made \cup {n} /\ tokens' = tokens
  BY DEF Wallet!CreateNonce
<1>2. \A f : Honest(f, made, tokens) => Honest(f, made', tokens')
  BY <1>1 DEF Honest
<1>3. Honest(new, made', tokens')
  <2>1. tokens[n] = 0
    BY <1>1 DEF NonceInv
  <2>2. new \in [DOMAIN new -> [wallet : Wallets, used : BOOLEAN]]
    BY LiveIsHonest DEF Honest
  <2>3. DOMAIN new \subseteq made'
    BY <1>1, LiveIsHonest
  <2>4. \A k \in DOMAIN new \cap Nonces : tokens[k] = 1 => new[k].used
    BY <2>1, LiveIsHonest DEF Honest
  <2>5. QED
    BY <1>1, <2>2, <2>3, <2>4 DEF Honest
<1>4. Honest(Wallet!Live, made', tokens')
  BY <1>2, LiveIsHonest
<1>5. PICK clean \in Wallet!CleanUps :
         \/ ~clean.ok /\ Wallet!Keep(Wallet!Live, clean)
         \/ clean.ok /\ \E save \in Wallet!Saves(new, clean.file) : Wallet!Keep(new, save)
  BY DEF Wallet!CreateNonce
<1>6. Honest(clean.file, made', tokens')
  BY <1>2, LiveIsHonest
<1> HIDE DEF new
<1>7. Honest(records', made', tokens') /\ Honest(recordsFile', made', tokens')
  <2>1. CASE Wallet!Keep(Wallet!Live, clean)
    BY <2>1, <1>4, <1>6 DEF Wallet!Keep
  <2>2. ASSUME NEW save \in Wallet!Saves(new, clean.file), Wallet!Keep(new, save)
        PROVE  Honest(records', made', tokens') /\ Honest(recordsFile', made', tokens')
    <3>1. Honest(save.file, made', tokens')
      BY <1>3, <1>6, SavesAreHonest
    <3>2. QED
      BY <2>2, <3>1, <1>3 DEF Wallet!Keep
  <2>3. QED
    BY <1>5, <2>1, <2>2
<1>8. QED
  BY <1>1, <1>7 DEF NonceInv

LEMMA VerifyStep ==
  ASSUME NonceInv, NEW n \in Nonces, NEW w \in Wallets, NEW signed \in BOOLEAN,
         Wallet!Verify(n, w, signed)
  PROVE  NonceInv'
<1> DEFINE used == [Wallet!Live EXCEPT ![n].used = TRUE]
<1> DEFINE admitted == n \in DOMAIN Wallet!Live /\ Wallet!Live[n].wallet = w /\ signed
<1>1. PICK clean \in Wallet!CleanUps :
         \/ ~(clean.ok /\ admitted) /\ Wallet!Keep(Wallet!Live, clean) /\ UNCHANGED tokens
         \/ /\ clean.ok /\ admitted
            /\ \E mark \in Wallet!Marks(used, clean.file) :
                  /\ Wallet!Keep(used, mark)
                  /\ tokens' = [tokens EXCEPT ![n] = IF mark.ok THEN @ + 1 ELSE @]
  BY DEF Wallet!Verify
<1>2. made' = made
  BY DEF Wallet!Verify
<1>3. CASE Wallet!Keep(Wallet!Live, clean) /\ UNCHANGED tokens
  BY <1>2, <1>3, LiveIsHonest DEF NonceInv, Wallet!Keep
<1>4. ASSUME admitted, NEW mark \in Wallet!Marks(used, clean.file),
             Wallet!Keep(used, mark),
             tokens' = [tokens EXCEPT ![n] = IF mark.ok THEN @ + 1 ELSE @]
      PROVE  NonceInv'
  <2>1. tokens[n] = 0 /\ n \in made
    BY <1>4, LiveIsHonest
  <2>2. Wallet!Live \in [DOMAIN Wallet!Live -> [wallet : Wallets, used : BOOLEAN]]
    BY LiveIsHonest DEF Honest
  <2>3. /\ DOMAIN used = DOMAIN Wallet!Live
        /\ used \in [DOMAIN used -> [wallet : Wallets, used : BOOLEAN]]
        /\ used[n].used
        /\ \A k \in DOMAIN used \ {n} : used[k] = Wallet!Live[k]
    BY <1>4, <2>2
  <2> HIDE DEF used
  <2>4. /\ Honest(used, made, tokens)
        /\ Honest(used, made, [tokens EXCEPT ![n] = 1])
    BY <2>2, <2>3, LiveIsHonest DEF Honest, NonceInv
  <2>5. mark \in Wallet!Saves(used, clean.file)
    BY <1>4 DEF Wallet!Marks
  <2>6. Honest(clean.file, made, tokens)
    BY LiveIsHonest
  <2>7. records' = used /\ recordsFile' = mark.file
    BY <1>4 DEF Wallet!Keep
  <2>8. CASE mark.ok
    <3>1. recordsFile' = used
      BY <2>4, <2>5, <2>6, <2>7, <2>8, SavesAreHonest
    <3>2. tokens' = [tokens EXCEPT ![n] = 1]
      BY <1>4, <2>1, <2>8 DEF NonceInv
    <3>3. QED
      BY <1>2, <2>1, <2>4, <2>7, <3>1, <3>2 DEF NonceInv
  <2>9. CASE ~mark.ok
    <3>1. Honest(recordsFile', made, tokens)
      BY <2>4, <2>5, <2>6, <2>7, SavesAreHonest
    <3>2. tokens' = tokens
      BY <1>4, <2>9 DEF NonceInv
    <3>3. QED
      BY <1>2, <2>4, <2>7, <3>1, <3>2 DEF NonceInv
  <2>10. QED
    BY <2>8, <2>9
<1>5. QED
  BY <1>1, <1>3, <1>4

LEMMA NonceStepKeeps == ASSUME NonceInv, [ServicesNext]_servicesVars PROVE NonceInv'
<1>1. CASE UNCHANGED nonceVars
  BY <1>1 DEF nonceVars, NonceInv
<1>2. CASE Wallet!Next
  <2>1. ASSUME NEW n \in Nonces, NEW w \in Wallets, Wallet!CreateNonce(n, w)
        PROVE  NonceInv'
    BY <2>1, CreateNonceStep
  <2>2. ASSUME NEW n \in Nonces, NEW w \in Wallets, NEW signed \in BOOLEAN,
               Wallet!Verify(n, w, signed)
        PROVE  NonceInv'
    BY <2>2, VerifyStep
  <2>3. ASSUME NEW n \in Nonces, Wallet!Expire(n)
        PROVE  NonceInv'
    BY <2>3 DEF Wallet!Expire, NonceInv
  <2>4. CASE Wallet!Restart
    BY <2>4 DEF Wallet!Restart, NonceInv
  <2>5. QED
    BY <1>2, <2>1, <2>2, <2>3, <2>4 DEF Wallet!Next
<1>3. QED
  BY <1>1, <1>2
  DEF ServicesNext, CatalogueStep, SnapshotStep, NonceStep, UploadStep, servicesVars

\* No nonce is good for two tokens, for any number of nonces, failing saves and restarts:
\* one with a token is used or gone wherever it is looked for, in memory and in the file.
THEOREM NoncesAreSpentOnce == ServicesSpec => []NoncesSignInOnce
<1>1. ServicesInit => NonceInv
  BY NoRecordsAreHonest DEF ServicesInit, Wallet!Init, NonceInv
<1>2. NonceInv => NoncesSignInOnce
  BY DEF NonceInv, NoncesSignInOnce, Wallet!NoncesSignInOnce
<1>3. QED
  BY <1>1, <1>2, NonceStepKeeps, PTL DEF ServicesSpec

-----------------------------------------------------------------------------
(* Uploads *)

\* What is not in the index was excused, and so was what would not be after a restart.
UploadInv ==
    /\ disk \ index \subseteq excused
    /\ index \ saved \subseteq excused

\* Saving an index that knows the files keeps what a restart would find known too.
LEMMA SavedIndexIsKnown ==
  ASSUME NEW i, index' = i, Attachments!SaveIndex(i)
  PROVE  excused \subseteq excused' /\ index' \ saved' \subseteq excused'
  BY DEF Attachments!SaveIndex

LEMMA DeletionsKeepUploads ==
  ASSUME UploadInv, NEW E, Attachments!DeleteRecords(E)
  PROVE  UploadInv'
<1>1. CASE Attachments!Left(disk \ E, index \ E) /\ Attachments!SaveIndex(index \ E)
  BY <1>1, SavedIndexIsKnown DEF UploadInv, Attachments!Left
<1>2. ASSUME NEW f \in E \cap disk, NEW gone \in SUBSET (E \ {f}),
             Attachments!Left(disk \ gone, Attachments!AfterFailure(f) \ gone),
             Attachments!Unsaved
      PROVE  UploadInv'
  BY <1>2 DEF UploadInv, Attachments!Left, Attachments!AfterFailure, Attachments!Unsaved
<1>3. QED
  BY <1>1, <1>2 DEF Attachments!DeleteRecords

LEMMA UploadStepKeeps == ASSUME UploadInv, [ServicesNext]_servicesVars PROVE UploadInv'
<1>1. CASE UNCHANGED uploadVars
  BY <1>1 DEF uploadVars, UploadInv
<1>2. ASSUME NEW f \in Files, Attachments!BeginUpload(f)
      PROVE  UploadInv'
  <2>1. CASE Attachments!Left(disk, index) /\ Attachments!Unsaved
    BY <2>1 DEF UploadInv, Attachments!Left, Attachments!Unsaved
  <2>2. CASE Attachments!DeleteRecords(index \cap expired)
    BY <2>2, DeletionsKeepUploads
  <2>3. QED
    BY <1>2, <2>1, <2>2 DEF Attachments!BeginUpload
<1>3. ASSUME NEW f \in Files, Attachments!StoreUpload(f)
      PROVE  UploadInv'
  <2>1. CASE Attachments!Left(disk, index) /\ Attachments!Unsaved
    BY <2>1 DEF UploadInv, Attachments!Left, Attachments!Unsaved
  <2>2. CASE /\ Attachments!Left(disk \cup {f}, index)
             /\ excused' = excused \cup {f} /\ UNCHANGED saved
    BY <2>2 DEF UploadInv, Attachments!Left
  <2>3. CASE /\ Attachments!Left(disk \cup {f}, index \cup {f})
             /\ Attachments!SaveIndex(index \cup {f})
    BY <2>3, SavedIndexIsKnown DEF UploadInv, Attachments!Left
  <2>4. QED
    BY <1>3, <2>1, <2>2, <2>3 DEF Attachments!StoreUpload
<1>4. ASSUME NEW f \in Files, Attachments!DeleteUpload(f)
      PROVE  UploadInv'
  BY <1>4, DeletionsKeepUploads DEF Attachments!DeleteUpload
<1>5. ASSUME NEW f \in Files, Attachments!Resolve(f)
      PROVE  UploadInv'
  <2>1. CASE Attachments!DeleteRecords({f})
    BY <2>1, DeletionsKeepUploads
  <2>2. CASE /\ f \notin disk
             /\ Attachments!Left(disk, index \ {f}) /\ Attachments!SaveIndex(index \ {f})
    BY <2>2, SavedIndexIsKnown DEF UploadInv, Attachments!Left
  <2>3. QED
    BY <1>5, <2>1, <2>2 DEF Attachments!Resolve
<1>6. ASSUME NEW f \in Files, Attachments!Expire(f)
      PROVE  UploadInv'
  BY <1>6 DEF UploadInv, Attachments!Expire
<1>7. CASE Attachments!Restart
  BY <1>7 DEF UploadInv, Attachments!Restart
<1>8. CASE Attachments!Next
  BY <1>2, <1>3, <1>4, <1>5, <1>6, <1>7, <1>8 DEF Attachments!Next
<1>9. QED
  BY <1>1, <1>8
  DEF ServicesNext, CatalogueStep, SnapshotStep, NonceStep, UploadStep, servicesVars

\* Only a failed write or save strands a file, through unlinks that fail half way,
\* clean-ups, deletions and restarts.
THEOREM UploadsAreFound == ServicesSpec => []UploadsAreNotStranded
<1>1. ServicesInit => UploadInv
  BY DEF ServicesInit, Attachments!Init, UploadInv
<1>2. UploadInv => UploadsAreNotStranded
  BY DEF UploadInv, UploadsAreNotStranded, Attachments!UploadsAreNotStranded
<1>3. QED
  BY <1>1, <1>2, UploadStepKeeps, PTL DEF ServicesSpec

-----------------------------------------------------------------------------
(* The registry snapshot *)

ReaderType == [at : {"new", "asking", "reading", "answered"}, asked : Int,
               force : BOOLEAN, read : Int]

\* How old what a reader has may be.
Recent(r) ==
    /\ r.at = "asking" => r.asked <= time
    /\ r.at = "reading" => r.asked <= r.read
    /\ r.at = "answered" => r.read >= r.asked - (IF r.force THEN 0 ELSE Ttl - 1)

\* A cached snapshot was read after its fetch began, and expires its time to live after
\* that.
SnapshotInv ==
    /\ time \in Nat /\ expires \in Int
    /\ cache \in [since : Int, read : Int]
    /\ cache # Snapshot!NoSnapshot =>
          cache.since <= cache.read /\ expires = cache.since + Ttl
    /\ reader \in [Readers -> ReaderType]
    /\ \A r \in Readers : Recent(reader[r])

LEMMA TtlType == Ttl \in Nat \ {0}
  BY StoreParametersAssumption DEF Snapshot!Parameters

LEMMA SnapshotStepKeeps == ASSUME SnapshotInv, [ServicesNext]_servicesVars PROVE SnapshotInv'
<1>1. CASE UNCHANGED snapshotVars
  BY <1>1 DEF snapshotVars, SnapshotInv, Recent
<1>2. CASE Snapshot!Tick
  BY <1>2, TtlType DEF SnapshotInv, Recent, ReaderType, Snapshot!Tick
<1>3. ASSUME NEW r \in Readers, NEW force \in BOOLEAN, Snapshot!Ask(r, force)
      PROVE  SnapshotInv'
  <2> DEFINE hit == [at |-> "answered", asked |-> time, force |-> force, read |-> cache.read]
  <2> DEFINE miss == [at |-> "asking", asked |-> time, force |-> force, read |-> -1]
  <2>1. UNCHANGED <<time, cache, expires>>
    BY <1>3 DEF Snapshot!Ask
  <2>2. reader' = [reader EXCEPT ![r] = IF Snapshot!Usable(force) THEN hit ELSE miss]
    BY <1>3 DEF Snapshot!Ask
  <2>3. CASE Snapshot!Usable(force)
    <3>1. hit \in ReaderType /\ Recent(hit)
      <4>1. cache.since <= cache.read /\ time < cache.since + Ttl /\ ~force
        BY <2>3 DEF Snapshot!Usable, SnapshotInv
      <4>2. cache.read >= time - (Ttl - 1)
        BY <4>1, TtlType DEF SnapshotInv
      <4>3. QED
        BY <4>1, <4>2 DEF SnapshotInv, Recent, ReaderType
    <3>2. reader' = [reader EXCEPT ![r] = hit]
      BY <2>2, <2>3
    <3> HIDE DEF hit
    <3>3. QED
      BY <2>1, <3>1, <3>2 DEF SnapshotInv, Recent
  <2>4. CASE ~Snapshot!Usable(force)
    <3>1. miss \in ReaderType /\ Recent(miss)
      BY DEF SnapshotInv, Recent, ReaderType
    <3>2. reader' = [reader EXCEPT ![r] = miss]
      BY <2>2, <2>4
    <3> HIDE DEF miss
    <3>3. QED
      BY <2>1, <3>1, <3>2 DEF SnapshotInv, Recent
  <2>5. QED
    BY <2>3, <2>4
<1>4. ASSUME NEW r \in Readers, Snapshot!Read(r)
      PROVE  SnapshotInv'
  <2> DEFINE begun == [reader[r] EXCEPT !.at = "reading"]
  <2> DEFINE reading == [begun EXCEPT !.read = time]
  <2>1. reader[r] \in ReaderType /\ reader[r].asked <= time
    BY <1>4 DEF SnapshotInv, Recent, Snapshot!Read
  <2>2. reading \in ReaderType /\ Recent(reading)
    <3>1. /\ begun \in ReaderType
          /\ begun.at = "reading" /\ begun.asked = reader[r].asked
      BY <2>1 DEF ReaderType
    <3> HIDE DEF begun
    <3>2. /\ reading \in ReaderType
          /\ reading.at = "reading" /\ reading.asked = reader[r].asked
          /\ reading.read = time
      BY <3>1 DEF ReaderType, SnapshotInv
    <3> HIDE DEF reading
    <3>3. QED
      BY <2>1, <3>1, <3>2 DEF SnapshotInv, Recent, ReaderType
  <2>3. reader' = [reader EXCEPT ![r] = reading] /\ UNCHANGED <<time, cache, expires>>
    BY <1>4 DEF SnapshotInv, ReaderType, Snapshot!Read
  <2> HIDE DEF reading
  <2>4. QED
    BY <2>2, <2>3 DEF SnapshotInv, Recent
<1>5. ASSUME NEW r \in Readers, Snapshot!Return(r)
      PROVE  SnapshotInv'
  BY <1>5, TtlType DEF SnapshotInv, Recent, ReaderType, Snapshot!Return, Snapshot!Expiry
<1>6. ASSUME NEW r \in Readers, Snapshot!Again(r)
      PROVE  SnapshotInv'
  BY <1>6 DEF SnapshotInv, Recent, ReaderType, Snapshot!Again
<1>7. CASE Snapshot!Next
  BY <1>2, <1>3, <1>4, <1>5, <1>6, <1>7 DEF Snapshot!Next
<1>8. QED
  BY <1>1, <1>7
  DEF ServicesNext, CatalogueStep, SnapshotStep, NonceStep, UploadStep, servicesVars

\* No reader is answered with a state of the chain from longer ago than the cache lives, nor
\* after a forced refresh with one from before it asked, for every time to live.
THEOREM AnswersAreRecent == ServicesSpec => []SnapshotsAreRecent
<1>1. ServicesInit => SnapshotInv
  BY TtlType DEF ServicesInit, Snapshot!Init, Snapshot!NoSnapshot, SnapshotInv, Recent, ReaderType
<1>2. SnapshotInv => SnapshotsAreRecent
  BY DEF SnapshotInv, Recent, SnapshotsAreRecent, Snapshot!SnapshotsAreRecent
<1>3. QED
  BY <1>1, <1>2, SnapshotStepKeeps, PTL DEF ServicesSpec

-----------------------------------------------------------------------------
(* The model catalogue *)

\* A list of models, or a database of them.
Listing(f) == f \in [DOMAIN f -> [price : Nat, enabled : BOOLEAN]]

\* Every model of the list is in the database, at the price of the list.
Covers(base, list) ==
    \A m \in DOMAIN list : m \in DOMAIN base /\ base[m].price = list[m].price

CallType ==
    {[at |-> "new"], Catalogue!Done}
    \cup [at : {"asking", "answered"}, flags : Catalogue!Flags]

\* The database covers the list in memory unless it was cleared, and so did it at the latest
\* usage.
CatalogueInv ==
    /\ offer \in Offers
    /\ Listing(memory) /\ Listing(data)
    /\ models = [data |-> models.data, stamp |-> models.stamp] /\ Listing(models.data)
    /\ call \in [Calls -> CallType]
    /\ fetched \in [Calls -> Offers \cup {Catalogue!Empty}]
    /\ ~cleared => Covers(data, memory)
    /\ bill.listed # 0 /\ ~bill.cleared => bill.charged = bill.listed

\* What Over keeps of the lists it is given.
LEMMA OverIsListing ==
  ASSUME NEW f, NEW g, Listing(f), Listing(g)
  PROVE  /\ Listing(Catalogue!Over(f, g))
         /\ DOMAIN Catalogue!Over(f, g) = DOMAIN f \cup DOMAIN g
         /\ \A m \in DOMAIN f : Catalogue!Over(f, g)[m] = f[m]
         /\ \A m \in DOMAIN g \ DOMAIN f : Catalogue!Over(f, g)[m] = g[m]
  BY DEF Listing, Catalogue!Over

LEMMA ParsedIsListing ==
  ASSUME NEW o \in Offers \cup {Catalogue!Empty}
  PROVE  Listing(Catalogue!Parsed(o))
<1>1. CASE o \in Offers
  BY <1>1, StoreParametersAssumption DEF Catalogue!Parameters, Catalogue!Parsed, Listing
<1>2. CASE o = Catalogue!Empty
  BY <1>2 DEF Catalogue!Empty, Catalogue!Parsed, Listing
<1>3. QED
  BY <1>1, <1>2

\* A toggle changes no price and no model but those of the list.
LEMMA ToggledIsListing ==
  ASSUME NEW list, Listing(list), NEW flags \in Catalogue!Flags
  PROVE  /\ Listing(Catalogue!Toggled(list, flags))
         /\ DOMAIN Catalogue!Toggled(list, flags) \subseteq DOMAIN list
         /\ \A m \in DOMAIN Catalogue!Toggled(list, flags) :
               Catalogue!Toggled(list, flags)[m].price = list[m].price
<1>1. PICK M : flags \in [M -> BOOLEAN]
  BY DEF Catalogue!Flags
<1>2. \A m \in DOMAIN flags \cap DOMAIN list :
         /\ [list[m] EXCEPT !.enabled = flags[m]] \in [price : Nat, enabled : BOOLEAN]
         /\ [list[m] EXCEPT !.enabled = flags[m]].price = list[m].price
  BY <1>1 DEF Listing
<1>3. QED
  BY <1>2 DEF Listing, Catalogue!Toggled

\* However a call ends, it leaves a database that covers the list, if it went on with ones
\* that did.
LEMMA FinishKeeps ==
  ASSUME CatalogueInv, NEW c \in Calls, NEW list, NEW base, NEW flags \in Catalogue!Flags,
         Listing(list), Listing(base), Catalogue!Finish(c, list, base, flags)
  PROVE  /\ Listing(memory') /\ Listing(data')
         /\ call' \in [Calls -> CallType]
         /\ Covers(base, list) => Covers(data', memory')
<1> DEFINE toggled == Catalogue!Toggled(list, flags)
<1>1. /\ memory' = Catalogue!Over(toggled, list)
      /\ data' = Catalogue!Over(toggled, base)
      /\ call' = [call EXCEPT ![c] = Catalogue!Done]
  BY DEF Catalogue!Finish
<1>2. /\ Listing(toggled)
      /\ DOMAIN toggled \subseteq DOMAIN list
      /\ \A m \in DOMAIN toggled : toggled[m].price = list[m].price
  BY ToggledIsListing
<1>3. call' \in [Calls -> CallType]
  BY <1>1 DEF CatalogueInv, CallType
<1> HIDE DEF toggled
<1>4. /\ Listing(memory')
      /\ DOMAIN memory' = DOMAIN toggled \cup DOMAIN list
      /\ \A m \in DOMAIN toggled : memory'[m] = toggled[m]
      /\ \A m \in DOMAIN list \ DOMAIN toggled : memory'[m] = list[m]
  <2> DEFINE over == Catalogue!Over(toggled, list)
  <2>1. /\ Listing(over)
        /\ DOMAIN over = DOMAIN toggled \cup DOMAIN list
        /\ \A m \in DOMAIN toggled : over[m] = toggled[m]
        /\ \A m \in DOMAIN list \ DOMAIN toggled : over[m] = list[m]
    BY <1>2, OverIsListing
  <2>2. memory' = over
    BY <1>1
  <2> HIDE DEF over
  <2>3. QED
    BY <2>1, <2>2
<1>5. /\ Listing(data')
      /\ DOMAIN data' = DOMAIN toggled \cup DOMAIN base
      /\ \A m \in DOMAIN toggled : data'[m] = toggled[m]
      /\ \A m \in DOMAIN base \ DOMAIN toggled : data'[m] = base[m]
  <2> DEFINE over == Catalogue!Over(toggled, base)
  <2>1. /\ Listing(over)
        /\ DOMAIN over = DOMAIN toggled \cup DOMAIN base
        /\ \A m \in DOMAIN toggled : over[m] = toggled[m]
        /\ \A m \in DOMAIN base \ DOMAIN toggled : over[m] = base[m]
    BY <1>2, OverIsListing
  <2>2. data' = over
    BY <1>1
  <2> HIDE DEF over
  <2>3. QED
    BY <2>1, <2>2
<1>6. Covers(base, list) => Covers(data', memory')
  BY <1>2, <1>4, <1>5 DEF Covers
<1>7. QED
  BY <1>3, <1>4, <1>5, <1>6

LEMMA SavedIsListing ==
  ASSUME CatalogueInv, NEW d, NEW s, Listing(d), Catalogue!Saved(d, s)
  PROVE  models' = [data |-> models'.data, stamp |-> models'.stamp] /\ Listing(models'.data)
<1>1. Listing(Catalogue!Empty)
  BY DEF Listing, Catalogue!Empty
<1>2. CASE models' = [data |-> d, stamp |-> s]
  BY <1>2
<1>3. CASE models' = models
  BY <1>3 DEF CatalogueInv
<1>4. CASE models' = [data |-> Catalogue!Empty, stamp |-> "none"]
  BY <1>1, <1>4
<1>5. QED
  BY <1>2, <1>3, <1>4 DEF Catalogue!Saved

LEMMA BeginKeeps ==
  ASSUME CatalogueInv, NEW c \in Calls, NEW flags \in Catalogue!Flags, NEW force \in BOOLEAN,
         Catalogue!Begin(c, flags, force)
  PROVE  CatalogueInv'
<1>1. UNCHANGED <<offer, stamp, models, fetched, bill>>
  BY DEF Catalogue!Begin
<1>2. CASE Catalogue!Finish(c, memory, data, flags) /\ UNCHANGED cleared
  <2>1. /\ Listing(memory') /\ Listing(data')
        /\ call' \in [Calls -> CallType]
        /\ Covers(data, memory) => Covers(data', memory')
    BY <1>2, FinishKeeps DEF CatalogueInv
  <2>2. QED
    BY <1>1, <1>2, <2>1 DEF CatalogueInv
<1>3. CASE Catalogue!Finish(c, data, data, flags) /\ cleared' = FALSE
  <2>1. /\ Listing(memory') /\ Listing(data')
        /\ call' \in [Calls -> CallType]
        /\ Covers(data, data) => Covers(data', memory')
    BY <1>3, FinishKeeps DEF CatalogueInv
  <2>2. QED
    BY <1>1, <1>3, <2>1 DEF CatalogueInv, Covers
<1>4. CASE /\ call' = [call EXCEPT ![c] = [at |-> "asking", flags |-> flags]]
           /\ UNCHANGED <<memory, data, cleared>>
  <2>1. call' \in [Calls -> CallType]
    BY <1>4 DEF CatalogueInv, CallType
  <2>2. QED
    BY <1>1, <1>4, <2>1 DEF CatalogueInv
<1>5. QED
  BY <1>2, <1>3, <1>4 DEF Catalogue!Begin

LEMMA ReceiveKeeps ==
  ASSUME CatalogueInv, NEW c \in Calls, Catalogue!Receive(c)
  PROVE  CatalogueInv'
<1> DEFINE new == Catalogue!Parsed(fetched[c])
<1>1. /\ Catalogue!Finish(c, new, Catalogue!Merged(new), call[c].flags)
      /\ Catalogue!Saved(Catalogue!Merged(new), "fresh")
      /\ fetched' = [fetched EXCEPT ![c] = Catalogue!Empty]
      /\ cleared' = FALSE
      /\ UNCHANGED <<offer, bill>>
      /\ call[c].at = "answered"
  BY DEF Catalogue!Receive
<1>2. Listing(new)
  BY ParsedIsListing DEF CatalogueInv
<1>3. call[c].flags \in Catalogue!Flags
  BY <1>1 DEF CatalogueInv, CallType, Catalogue!Done
<1> HIDE DEF new
<1>4. Listing(Catalogue!Merged(new)) /\ Covers(Catalogue!Merged(new), new)
  BY <1>2, OverIsListing DEF Catalogue!Merged, CatalogueInv, Covers
<1>5. /\ Listing(memory') /\ Listing(data')
      /\ call' \in [Calls -> CallType]
      /\ Covers(data', memory')
  BY <1>1, <1>2, <1>3, <1>4, FinishKeeps
<1>6. models' = [data |-> models'.data, stamp |-> models'.stamp] /\ Listing(models'.data)
  BY <1>1, <1>4, SavedIsListing
<1>7. fetched' \in [Calls -> Offers \cup {Catalogue!Empty}]
  BY <1>1 DEF CatalogueInv
<1>8. QED
  BY <1>1, <1>5, <1>6, <1>7 DEF CatalogueInv

LEMMA FailKeeps ==
  ASSUME CatalogueInv, NEW c \in Calls, Catalogue!Fail(c)
  PROVE  CatalogueInv'
<1>1. /\ Catalogue!Finish(c, data, data, call[c].flags)
      /\ fetched' = [fetched EXCEPT ![c] = Catalogue!Empty]
      /\ cleared' = FALSE
      /\ UNCHANGED <<offer, models, bill>>
      /\ call[c].at \in {"asking", "answered"}
  BY DEF Catalogue!Fail
<1>2. call[c].flags \in Catalogue!Flags
  BY <1>1 DEF CatalogueInv, CallType, Catalogue!Done
<1>3. /\ Listing(memory') /\ Listing(data')
      /\ call' \in [Calls -> CallType]
      /\ Covers(data', memory')
  BY <1>1, <1>2, FinishKeeps DEF CatalogueInv, Covers
<1>4. fetched' \in [Calls -> Offers \cup {Catalogue!Empty}]
  BY <1>1 DEF CatalogueInv
<1>5. QED
  BY <1>1, <1>3, <1>4 DEF CatalogueInv

LEMMA CatalogueStepKeeps ==
  ASSUME CatalogueInv, [ServicesNext]_servicesVars
  PROVE  CatalogueInv'
<1>1. CASE UNCHANGED catalogueVars
  BY <1>1 DEF catalogueVars, CatalogueInv
<1>2. ASSUME NEW c \in Calls, NEW flags \in Catalogue!Flags, NEW force \in BOOLEAN,
             Catalogue!Begin(c, flags, force)
      PROVE  CatalogueInv'
  BY <1>2, BeginKeeps
<1>3. ASSUME NEW c \in Calls, Catalogue!Answer(c)
      PROVE  CatalogueInv'
  <2>1. /\ call[c].at = "asking"
        /\ call' = [call EXCEPT ![c].at = "answered"]
        /\ fetched' = [fetched EXCEPT ![c] = offer]
        /\ UNCHANGED <<offer, memory, data, models, bill, cleared>>
    BY <1>3 DEF Catalogue!Answer
  <2>2. call[c] \in [at : {"asking", "answered"}, flags : Catalogue!Flags]
    BY <2>1 DEF CatalogueInv, CallType, Catalogue!Done
  <2>3. [call[c] EXCEPT !.at = "answered"]
           \in [at : {"asking", "answered"}, flags : Catalogue!Flags]
    BY <2>2
  <2>4. call' \in [Calls -> CallType] /\ fetched' \in [Calls -> Offers \cup {Catalogue!Empty}]
    BY <2>1, <2>3 DEF CatalogueInv, CallType
  <2>5. QED
    BY <2>1, <2>4 DEF CatalogueInv
<1>4. ASSUME NEW c \in Calls, Catalogue!Receive(c)
      PROVE  CatalogueInv'
  BY <1>4, ReceiveKeeps
<1>5. ASSUME NEW c \in Calls, Catalogue!Fail(c)
      PROVE  CatalogueInv'
  BY <1>5, FailKeeps
<1>6. ASSUME NEW m \in Models, Catalogue!RecordUsage(m)
      PROVE  CatalogueInv'
  BY <1>6 DEF CatalogueInv, Covers, Listing, Catalogue!RecordUsage
<1>7. CASE Catalogue!Clear
  <2>1. Listing(Catalogue!Empty)
    BY DEF Listing, Catalogue!Empty
  <2>2. /\ data' = Catalogue!Empty /\ cleared' = TRUE
        /\ Catalogue!Saved(Catalogue!Empty, "none")
        /\ UNCHANGED <<offer, memory, call, fetched, bill>>
    BY <1>7 DEF Catalogue!Clear
  <2>3. models' = [data |-> models'.data, stamp |-> models'.stamp] /\ Listing(models'.data)
    BY <2>1, <2>2, SavedIsListing
  <2>4. QED
    BY <2>1, <2>2, <2>3 DEF CatalogueInv
<1>8. CASE Catalogue!Move
  BY <1>8 DEF CatalogueInv, Catalogue!Move
<1>9. CASE Catalogue!Age
  <2>1. /\ models' = [models EXCEPT !.stamp = IF @ = "fresh" THEN "old" ELSE @]
        /\ UNCHANGED <<offer, memory, data, call, fetched, bill, cleared>>
    BY <1>9 DEF Catalogue!Age
  <2>2. models' = [data |-> models'.data, stamp |-> models'.stamp] /\ models'.data = models.data
    BY <2>1 DEF CatalogueInv
  <2>3. QED
    BY <2>1, <2>2 DEF CatalogueInv
<1>10. CASE Catalogue!Restart
  <2>1. Listing(Catalogue!Empty) /\ DOMAIN Catalogue!Empty = {}
    BY DEF Listing, Catalogue!Empty
  <2>2. /\ memory' = Catalogue!Empty /\ data' = models.data
        /\ call' = [c \in Calls |-> IF call[c].at = "new" THEN call[c] ELSE Catalogue!Done]
        /\ fetched' = [c \in Calls |-> Catalogue!Empty]
        /\ UNCHANGED <<offer, models, bill>>
    BY <1>10 DEF Catalogue!Restart
  <2>3. call' \in [Calls -> CallType] /\ fetched' \in [Calls -> Offers \cup {Catalogue!Empty}]
    BY <2>2 DEF CatalogueInv, CallType
  <2>4. Covers(data', memory')
    BY <2>1, <2>2 DEF Covers
  <2>5. QED
    BY <2>1, <2>2, <2>3, <2>4 DEF CatalogueInv
<1>11. CASE Catalogue!Next
  BY <1>2, <1>3, <1>4, <1>5, <1>6, <1>7, <1>8, <1>9, <1>10, <1>11 DEF Catalogue!Next
<1>12. QED
  BY <1>1, <1>11
  DEF ServicesNext, CatalogueStep, SnapshotStep, NonceStep, UploadStep, servicesVars

LEMMA CatalogueInit == ASSUME ServicesInit PROVE CatalogueInv
<1>1. Catalogue!Init
  BY DEF ServicesInit
<1>2. Listing(Catalogue!Empty) /\ DOMAIN Catalogue!Empty = {}
  BY DEF Listing, Catalogue!Empty
<1>3. PICK o \in Offers, s \in {"fresh", "old"} :
         models \in {[data |-> Catalogue!Empty, stamp |-> "none"],
                     [data |-> [m \in DOMAIN o |-> [price |-> o[m], enabled |-> TRUE]],
                      stamp |-> s]}
  BY <1>1 DEF Catalogue!Init
<1>4. Listing(Catalogue!Parsed(o))
  BY ParsedIsListing
<1>5. models = [data |-> models.data, stamp |-> models.stamp] /\ Listing(models.data)
  <2>1. CASE models = [data |-> Catalogue!Empty, stamp |-> "none"]
    BY <1>2, <2>1
  <2>2. CASE models = [data |-> Catalogue!Parsed(o), stamp |-> s]
    BY <1>4, <2>2
  <2>3. QED
    BY <1>3, <2>1, <2>2 DEF Catalogue!Parsed
<1>6. memory = Catalogue!Empty /\ data = models.data /\ offer \in Offers
  BY <1>1 DEF Catalogue!Init
<1>7. call \in [Calls -> CallType] /\ fetched \in [Calls -> Offers \cup {Catalogue!Empty}]
  BY <1>1 DEF Catalogue!Init, CallType
<1>8. bill.listed = 0
  BY <1>1 DEF Catalogue!Init
<1>9. Covers(data, memory)
  BY <1>2, <1>6 DEF Covers
<1>10. QED
  BY <1>2, <1>5, <1>6, <1>7, <1>8, <1>9 DEF CatalogueInv

\* Usage of a listed model is charged at its listed price unless the database was
\* cleared, for every set of models and offers, and any number of calls that overtake
\* each other, fail, or are cut off by a restart.
THEOREM ChargesMatchTheList == ServicesSpec => []ListedPricesAreCharged
<1>1. CatalogueInv => ListedPricesAreCharged
  BY DEF CatalogueInv, ListedPricesAreCharged, Catalogue!ListedPricesAreCharged
<1>2. QED
  BY <1>1, CatalogueInit, CatalogueStepKeeps, PTL DEF ServicesSpec

-----------------------------------------------------------------------------
(* The news monitor: sequences *)

\* A sequence is one over the set of its elements.
LEMMA SeqOfItsRange ==
  ASSUME NEW X, NEW seq \in Seq(X)
  PROVE  /\ News!Range(seq) \subseteq X
         /\ seq \in Seq(News!Range(seq))
         /\ \A x : x \in News!Range(seq) <=> \E k \in 1 .. Len(seq) : x = seq[k]
<1>1. DOMAIN seq = 1 .. Len(seq)
  OBVIOUS
<1>2. \A x : x \in News!Range(seq) <=> \E k \in 1 .. Len(seq) : x = seq[k]
  BY <1>1 DEF News!Range
<1>3. \A k \in 1 .. Len(seq) : seq[k] \in X
  OBVIOUS
<1>4. seq = [k \in 1 .. Len(seq) |-> seq[k]]
  BY <1>1
<1>5. seq \in Seq(News!Range(seq))
  <2> DEFINE Y == News!Range(seq)
  <2>1. \A k \in 1 .. Len(seq) : seq[k] \in Y
    BY <1>2
  <2>2. Len(seq) \in Nat
    OBVIOUS
  <2> HIDE DEF Y
  <2>3. seq \in Seq(Y)
    BY <1>4, <2>1, <2>2
  <2>4. QED
    BY <2>3 DEF Y
<1>6. News!Range(seq) \subseteq X
  BY <1>2, <1>3
<1>7. QED
  BY <1>2, <1>5, <1>6

LEMMA RangeAfterAppend ==
  ASSUME NEW X, NEW seq \in Seq(X), NEW x \in X
  PROVE  News!Range(Append(seq, x)) = News!Range(seq) \cup {x}
<1> DEFINE more == Append(seq, x)
<1>1. /\ more \in Seq(X) /\ Len(more) = Len(seq) + 1
      /\ \A k \in 1 .. Len(seq) : more[k] = seq[k]
      /\ more[Len(seq) + 1] = x
      /\ Len(seq) \in Nat
  OBVIOUS
<1> HIDE DEF more
<1>2. \A y : y \in News!Range(more) <=> \E k \in 1 .. Len(more) : y = more[k]
  BY <1>1, SeqOfItsRange
<1>3. \A y : y \in News!Range(seq) <=> \E k \in 1 .. Len(seq) : y = seq[k]
  BY SeqOfItsRange
<1>4. ASSUME NEW y \in News!Range(more)
      PROVE  y \in News!Range(seq) \cup {x}
  <2>1. PICK k \in 1 .. Len(seq) + 1 : y = more[k]
    BY <1>1, <1>2
  <2>2. CASE k = Len(seq) + 1
    BY <1>1, <2>1, <2>2
  <2>3. CASE k # Len(seq) + 1
    <3>1. k \in 1 .. Len(seq)
      BY <1>1, <2>3
    <3>2. QED
      BY <1>1, <1>3, <2>1, <3>1
  <2>4. QED
    BY <2>2, <2>3
<1>5. ASSUME NEW y \in News!Range(seq) \cup {x}
      PROVE  y \in News!Range(more)
  <2>1. CASE y = x
    <3>1. Len(seq) + 1 \in 1 .. Len(more)
      BY <1>1
    <3>2. QED
      BY <1>1, <1>2, <2>1, <3>1
  <2>2. CASE y \in News!Range(seq)
    <3>1. PICK k \in 1 .. Len(seq) : y = seq[k]
      BY <1>3, <2>2
    <3>2. k \in 1 .. Len(more) /\ y = more[k]
      BY <1>1, <3>1
    <3>3. QED
      BY <1>2, <3>2
  <2>3. QED
    BY <2>1, <2>2
<1>6. QED
  BY <1>4, <1>5 DEF more

LEMMA RangeBeforeTail ==
  ASSUME NEW X, NEW seq \in Seq(X), seq # <<>>
  PROVE  News!Range(seq) = {Head(seq)} \cup News!Range(Tail(seq))
<1> DEFINE rest == Tail(seq)
<1>1. /\ rest \in Seq(X) /\ Len(rest) = Len(seq) - 1
      /\ \A k \in 1 .. Len(rest) : rest[k] = seq[k + 1]
      /\ Head(seq) = seq[1]
      /\ Len(seq) \in Nat /\ Len(seq) >= 1
  BY HeadTailProperties, LenProperties, EmptySeq
<1> HIDE DEF rest
<1>2. \A y : y \in News!Range(rest) <=> \E k \in 1 .. Len(rest) : y = rest[k]
  BY <1>1, SeqOfItsRange
<1>3. \A y : y \in News!Range(seq) <=> \E k \in 1 .. Len(seq) : y = seq[k]
  BY SeqOfItsRange
<1>4. ASSUME NEW y \in News!Range(seq)
      PROVE  y \in {Head(seq)} \cup News!Range(rest)
  <2>1. PICK k \in 1 .. Len(seq) : y = seq[k]
    BY <1>3
  <2>2. CASE k = 1
    BY <1>1, <2>1, <2>2
  <2>3. CASE k # 1
    <3>1. k - 1 \in 1 .. Len(rest) /\ rest[k - 1] = y
      BY <1>1, <2>1, <2>3
    <3>2. QED
      BY <1>2, <3>1
  <2>4. QED
    BY <2>2, <2>3
<1>5. ASSUME NEW y \in {Head(seq)} \cup News!Range(rest)
      PROVE  y \in News!Range(seq)
  <2>1. CASE y = Head(seq)
    <3>1. 1 \in 1 .. Len(seq)
      BY <1>1
    <3>2. QED
      BY <1>1, <1>3, <2>1, <3>1
  <2>2. CASE y \in News!Range(rest)
    <3>1. PICK k \in 1 .. Len(rest) : y = rest[k]
      BY <1>2, <2>2
    <3>2. k + 1 \in 1 .. Len(seq) /\ y = seq[k + 1]
      BY <1>1, <3>1
    <3>3. QED
      BY <1>3, <3>2
  <2>3. QED
    BY <2>1, <2>2
<1>6. QED
  BY <1>4, <1>5 DEF rest

\* The last items of a sequence are some of its items, and not too many.
LEMMA LatestType ==
  ASSUME NEW X, NEW seq \in Seq(X), NEW n \in Nat
  PROVE  /\ News!Latest(seq, n) \in Seq(X)
         /\ Len(News!Latest(seq, n)) <= n
<1>1. CASE Len(seq) <= n
  BY <1>1 DEF News!Latest
<1>2. CASE Len(seq) > n
  <2>1. News!Latest(seq, n) = SubSeq(seq, Len(seq) - n + 1, Len(seq))
    BY <1>2 DEF News!Latest
  <2>2. /\ Len(seq) - n + 1 \in Int /\ Len(seq) \in Int
        /\ \A i \in Len(seq) - n + 1 .. Len(seq) : seq[i] \in X
    BY <1>2
  <2>3. /\ SubSeq(seq, Len(seq) - n + 1, Len(seq)) \in Seq(X)
        /\ Len(SubSeq(seq, Len(seq) - n + 1, Len(seq))) =
              IF Len(seq) - n + 1 <= Len(seq) THEN Len(seq) - (Len(seq) - n + 1) + 1 ELSE 0
    BY <2>2, SubSeqProperties
  <2>4. QED
    BY <1>2, <2>1, <2>3
<1>3. QED
  BY <1>1, <1>2

\* News!Selected is Selected.
LEMMA NewsSelectedType ==
  ASSUME NEW X, NEW seq \in Seq(X), NEW set
  PROVE  News!Selected(seq, set) \in Seq(X)
<1>1. News!Selected(seq, set) = Selected(seq, set)
  BY DEF News!Selected, Selected
<1>2. \A n \in 1 .. Len(seq) : seq[n] \in set => seq[n] \in X
  OBVIOUS
<1>3. QED
  BY <1>1, <1>2, SelectedType

-----------------------------------------------------------------------------
(* The news monitor: its clients *)

\* A client that is somewhere, joined after `from` broadcasts of n, waits for the sequence
\* q of them, was sent g of them and lost d: none before it joined, in their order, and
\* as long as it is connected all since.
Reached(at, from, q, g, d, n) ==
    /\ from \in 0 .. n /\ q \in Seq(Nat)
    /\ g \cup News!Range(q) \cup d \subseteq from + 1 .. n
    /\ at \in {"idle", "sending"} => from + 1 .. n = g \cup News!Range(q) \cup d
    /\ at = "out" => q = <<>> /\ g = {} /\ d = {}
    /\ \A i \in g, j \in News!Range(q) : i < j
    /\ \A k \in 2 .. Len(q) : q[k - 1] < q[k]

\* A client that joins: what was published before is in its snapshot.
LEMMA ReachedByJoining ==
  ASSUME NEW from, NEW q, NEW g, NEW d, NEW n \in Nat, Reached("out", from, q, g, d, n)
  PROVE  Reached("sending", n, q, g, d, n)
<1>1. q = <<>> /\ g = {} /\ d = {} /\ q \in Seq(Nat)
  BY DEF Reached
<1>2. News!Range(q) = {}
  <2>1. \A x : x \in News!Range(q) <=> \E k \in 1 .. Len(q) : x = q[k]
    BY <1>1, SeqOfItsRange
  <2>2. 1 .. Len(q) = {}
    BY <1>1
  <2>3. QED
    BY <2>1, <2>2
<1>3. n + 1 .. n = {} /\ n \in 0 .. n /\ 2 .. Len(q) = {}
  BY <1>1
<1>4. QED
  BY <1>1, <1>2, <1>3 DEF Reached

\* A broadcast reaches the queue of a connected client and no other.
LEMMA ReachedByBroadcast ==
  ASSUME NEW at, NEW from, NEW q, NEW g, NEW d, NEW n \in Nat, Reached(at, from, q, g, d, n)
  PROVE  /\ at \in {"idle", "sending"} => Reached(at, from, Append(q, n + 1), g, d, n + 1)
         /\ at \notin {"idle", "sending"} => Reached(at, from, q, g, d, n + 1)
<1>1. /\ from \in 0 .. n /\ from \in 0 .. n + 1 /\ q \in Seq(Nat) /\ n + 1 \in Nat
      /\ from + 1 .. n + 1 = (from + 1 .. n) \cup {n + 1}
  BY DEF Reached
<1>2. CASE at \notin {"idle", "sending"}
  BY <1>1, <1>2 DEF Reached
<1>3. CASE at \in {"idle", "sending"}
  <2> DEFINE p == Append(q, n + 1)
  <2>1. /\ p \in Seq(Nat) /\ Len(p) = Len(q) + 1 /\ Len(q) \in Nat
        /\ \A k \in 1 .. Len(q) : p[k] = q[k]
        /\ p[Len(q) + 1] = n + 1
    BY <1>1
  <2>2. News!Range(p) = News!Range(q) \cup {n + 1}
    BY <1>1, RangeAfterAppend
  <2>3. \A k \in 1 .. Len(q) : q[k] \in News!Range(q)
    BY <1>1, SeqOfItsRange
  <2> HIDE DEF p
  <2>4. ASSUME NEW k \in 2 .. Len(p)
        PROVE  p[k - 1] < p[k]
    <3>1. CASE k = Len(p)
      <4>1. k - 1 \in 1 .. Len(q) /\ p[k] = n + 1
        BY <2>1, <3>1
      <4>2. q[k - 1] \in from + 1 .. n /\ p[k - 1] = q[k - 1]
        BY <2>1, <2>3, <4>1 DEF Reached
      <4>3. QED
        BY <1>1, <4>1, <4>2
    <3>2. CASE k # Len(p)
      <4>1. k \in 2 .. Len(q) /\ k \in 1 .. Len(q) /\ k - 1 \in 1 .. Len(q)
        BY <2>1, <3>2
      <4>2. QED
        BY <2>1, <4>1 DEF Reached
    <3>3. QED
      BY <3>1, <3>2
  <2>5. \A i \in g, j \in News!Range(p) : i < j
    <3>1. \A i \in g : i < n + 1
      BY <1>1 DEF Reached
    <3>2. QED
      BY <2>2, <3>1 DEF Reached
  <2>6. from + 1 .. n + 1 = g \cup News!Range(p) \cup d
    BY <1>1, <1>3, <2>2 DEF Reached
  <2>7. Reached(at, from, p, g, d, n + 1)
    BY <1>1, <1>3, <2>1, <2>4, <2>5, <2>6 DEF Reached
  <2>8. QED
    BY <1>3, <2>7 DEF p
<1>4. QED
  BY <1>2, <1>3

\* The first broadcast a client waits for is taken, sent or lost.
LEMMA ReachedByTaking ==
  ASSUME NEW from, NEW q, NEW g, NEW d, NEW n \in Nat, q # <<>>,
         Reached("idle", from, q, g, d, n)
  PROVE  /\ Reached("sending", from, Tail(q), g \cup {Head(q)}, d, n)
         /\ Reached("sending", from, Tail(q), g, d \cup {Head(q)}, n)
<1> DEFINE p == Tail(q)
<1>1. /\ q \in Seq(Nat) /\ p \in Seq(Nat) /\ Len(p) = Len(q) - 1 /\ Len(q) \in Nat
      /\ \A k \in 1 .. Len(p) : p[k] = q[k + 1]
      /\ Head(q) = q[1] /\ Len(q) >= 1
  <2>1. q \in Seq(Nat)
    BY DEF Reached
  <2>2. QED
    BY <2>1, HeadTailProperties, LenProperties, EmptySeq
<1>2. News!Range(q) = {Head(q)} \cup News!Range(p)
  BY <1>1, RangeBeforeTail
<1>3. \A x : x \in News!Range(p) <=> \E k \in 1 .. Len(p) : x = p[k]
  BY <1>1, SeqOfItsRange
<1> HIDE DEF p
<1>4. \A k \in 2 .. Len(p) : p[k - 1] < p[k]
  <2>1. \A k \in 2 .. Len(q) : q[k - 1] < q[k]
    BY DEF Reached
  <2>2. TAKE k \in 2 .. Len(p)
  <2>3. k + 1 \in 2 .. Len(q) /\ k - 1 \in 1 .. Len(p) /\ k \in 1 .. Len(p)
    BY <1>1
  <2>4. (k - 1) + 1 = k /\ (k + 1) - 1 = k
    BY <1>1
  <2>5. p[k - 1] = q[k] /\ p[k] = q[k + 1]
    BY <1>1, <2>3, <2>4
  <2>6. q[k] < q[k + 1]
    BY <2>1, <2>3, <2>4
  <2>7. QED
    BY <2>5, <2>6
<1>5. \A j \in News!Range(p) : Head(q) < j
  <2> DEFINE T == {k \in Nat : k + 2 <= Len(q) => q[1] < q[k + 2]}
  <2>1. \A k \in 1 .. Len(q) : q[k] \in Nat
    BY <1>1
  <2>2. 0 \in T
    BY DEF Reached
  <2>3. ASSUME NEW k \in T
        PROVE  k + 1 \in T
    <3>1. SUFFICES ASSUME (k + 1) + 2 <= Len(q)
                   PROVE  q[1] < q[(k + 1) + 2]
      OBVIOUS
    <3>2. /\ k \in Nat /\ q[1] < q[k + 2]
          /\ k + 3 \in 2 .. Len(q) /\ k + 2 \in 1 .. Len(q)
          /\ (k + 3) - 1 = k + 2 /\ (k + 1) + 2 = k + 3
      BY <1>1, <3>1
    <3>3. q[k + 2] < q[k + 3]
      BY <3>2 DEF Reached
    <3>4. 1 \in 1 .. Len(q) /\ k + 3 \in 1 .. Len(q)
      BY <1>1, <3>2
    <3>5. QED
      BY <2>1, <3>2, <3>3, <3>4
  <2>4. T = Nat
    <3>1. T \in SUBSET Nat
      OBVIOUS
    <3> HIDE DEF T
    <3>2. QED
      BY <2>2, <2>3, <3>1, SetInduction
  <2>5. \A k \in Nat : k + 2 <= Len(q) => q[1] < q[k + 2]
    BY <2>4
  <2>6. TAKE j \in News!Range(p)
  <2>7. PICK k \in 1 .. Len(p) : j = p[k]
    BY <1>3
  <2>8. k - 1 \in Nat /\ (k - 1) + 2 = k + 1 /\ k + 1 <= Len(q)
    BY <1>1, <2>7
  <2>9. q[1] < q[k + 1]
    BY <2>5, <2>8
  <2>10. QED
    BY <1>1, <2>7, <2>9
<1>6. Head(q) \in News!Range(q)
  BY <1>2
<1>7. /\ \A i \in g \cup {Head(q)}, j \in News!Range(p) : i < j
      /\ \A i \in g, j \in News!Range(p) : i < j
  BY <1>2, <1>5 DEF Reached
<1>8. /\ from + 1 .. n = g \cup News!Range(q) \cup d
      /\ from \in 0 .. n
  BY DEF Reached
<1>9. /\ from + 1 .. n = (g \cup {Head(q)}) \cup News!Range(p) \cup d
      /\ from + 1 .. n = g \cup News!Range(p) \cup (d \cup {Head(q)})
  BY <1>2, <1>8
<1>10. QED
  BY <1>1, <1>4, <1>7, <1>8, <1>9 DEF Reached, p

\* A client that is connected may send, be idle, or leave.
LEMMA ReachedByMoving ==
  ASSUME NEW at \in {"idle", "sending"}, NEW to \in {"idle", "sending", "gone"},
         NEW from, NEW q, NEW g, NEW d, NEW n \in Nat, Reached(at, from, q, g, d, n)
  PROVE  Reached(to, from, q, g, d, n)
BY DEF Reached

-----------------------------------------------------------------------------
(* The news monitor: its state *)

\* The urls of the first n broadcasts.
Published(n) == UNION {News!Urls(log[i]) : i \in 1 .. n}

NewsTyped ==
    /\ running \in BOOLEAN /\ loops \in Nat /\ (running => loops > 0)
    /\ tasks \in Seq({"start", "stop"})
    /\ keywords \subseteq SUBSET NewsSymbols
    /\ TradingAssets \subseteq tracked /\ tracked \subseteq NewsSymbols
    /\ seen \subseteq Articles /\ News!Cardinality(seen) <= SeenLimit
    /\ log \in Seq(Seq(News!Items))
    /\ client \in [NewsClients -> {"out", "idle", "sending", "gone"}]
    /\ joined \in [NewsClients -> Nat]
    /\ queue \in [NewsClients -> Seq(Nat)]
    /\ got \in [NewsClients -> SUBSET Nat]
    /\ dropped \in [NewsClients -> SUBSET Nat]
    /\ inbox \in [NewsClients -> 0 .. 1]

\* What is told of the broadcasts: each client was reached by them as above.
NewsReached ==
    \A c \in NewsClients :
        Reached(client[c], joined[c], queue[c], got[c], dropped[c], Len(log))

\* What connected clients asked for is tracked, and searched for.
NewsSearched ==
    \A c \in News!Subscribers :
        /\ Wanted[c] \subseteq tracked
        /\ c \notin replaced => Wanted[c] \subseteq UNION keywords

\* What was published is in seen or was forgotten; only what was forgotten was published
\* twice; histories and snapshots have only what was published, a snapshot before its
\* client joined.
NewsMarked ==
    /\ \A i \in 1 .. Len(log) : News!Urls(log[i]) \subseteq seen \cup forgotten
    /\ \A i, j \in 1 .. Len(log) :
          i # j => News!Urls(log[i]) \cap News!Urls(log[j]) \subseteq forgotten
    /\ history \in [NewsSymbols -> Seq(Published(Len(log)))]
    /\ \A s \in NewsSymbols : Len(history[s]) <= HistorySize
    /\ snapshot \in [NewsClients -> SUBSET Articles]
    /\ \A c \in NewsClients : snapshot[c] \subseteq Published(joined[c])

NewsInv == NewsTyped /\ NewsReached /\ NewsSearched /\ NewsMarked

LEMMA NewsInit == ASSUME ServicesInit PROVE NewsInv
<1>1. News!Init /\ News!Parameters
  BY ParametersAssumption DEF ServicesInit, DataInit
<1>2. News!Cardinality({}) = 0
  <2>1. News!Cardinality({}) = Cardinality({})
    BY DEF News!Cardinality, Cardinality
  <2>2. QED
    BY <2>1, FS_EmptySet
<1>3. /\ <<>> \in Seq({"start", "stop"}) /\ <<>> \in Seq(Seq(News!Items))
      /\ <<>> \in Seq(Nat) /\ Len(<<>>) = 0 /\ <<>> \in Seq(Published(Len(<<>>)))
      /\ 1 .. 0 = {} /\ 2 .. 0 = {} /\ 0 + 1 .. 0 = {}
  OBVIOUS
<1>4. News!Range(<<>>) = {}
  <2>1. \A x : x \in News!Range(<<>>) <=> \E k \in 1 .. Len(<<>>) : x = <<>>[k]
    BY <1>3, SeqOfItsRange
  <2>2. QED
    BY <1>3, <2>1
<1>5. NewsTyped
  <2>1. /\ running = FALSE /\ loops = 0 /\ tasks = <<>> /\ keywords = Topics
        /\ tracked = TradingAssets /\ seen = {} /\ log = <<>>
        /\ client = [c \in NewsClients |-> "out"] /\ joined = [c \in NewsClients |-> 0]
        /\ queue = [c \in NewsClients |-> <<>>] /\ got = [c \in NewsClients |-> {}]
        /\ dropped = [c \in NewsClients |-> {}] /\ inbox = [c \in NewsClients |-> 0]
    BY <1>1 DEF News!Init
  <2>2. /\ TradingAssets \subseteq NewsSymbols /\ Topics \subseteq SUBSET NewsSymbols
        /\ SeenLimit \in Nat
    BY <1>1 DEF News!Parameters
  <2>3. /\ client \in [NewsClients -> {"out", "idle", "sending", "gone"}]
        /\ joined \in [NewsClients -> Nat] /\ got \in [NewsClients -> SUBSET Nat]
        /\ dropped \in [NewsClients -> SUBSET Nat] /\ inbox \in [NewsClients -> 0 .. 1]
    BY <2>1
  <2>4. queue \in [NewsClients -> Seq(Nat)]
    BY <1>3, <2>1
  <2>5. seen \subseteq Articles /\ News!Cardinality(seen) <= SeenLimit
    BY <1>2, <2>1, <2>2
  <2>6. QED
    BY <1>3, <2>1, <2>2, <2>3, <2>4, <2>5 DEF NewsTyped
<1>6. NewsReached
  BY <1>1, <1>3, <1>4 DEF News!Init, NewsReached, Reached
<1>7. NewsSearched
  BY <1>1 DEF News!Init, NewsSearched, News!Subscribers
<1>8. NewsMarked
  <2>1. Len(log) = 0 /\ <<>> \in Seq(Published(Len(log)))
    BY <1>1, <1>3 DEF News!Init
  <2>2. history = [s \in NewsSymbols |-> <<>>] /\ snapshot = [c \in NewsClients |-> {}]
    BY <1>1 DEF News!Init
  <2>3. HistorySize \in Nat
    BY <1>1 DEF News!Parameters
  <2>4. history \in [NewsSymbols -> Seq(Published(Len(log)))]
    BY <2>1, <2>2
  <2>5. \A s \in NewsSymbols : Len(history[s]) <= HistorySize
    BY <1>3, <2>2, <2>3
  <2>6. QED
    BY <1>3, <2>1, <2>2, <2>4, <2>5 DEF NewsMarked
<1>9. QED
  BY <1>5, <1>6, <1>7, <1>8 DEF NewsInv

\* A step that publishes nothing and changes no snapshot, as most are.
LEMMA NewsUnmarked ==
  ASSUME NewsMarked, UNCHANGED <<log, history, seen, forgotten, snapshot, joined>>
  PROVE  NewsMarked'
BY DEF NewsMarked, Published

-----------------------------------------------------------------------------
(* The news monitor: a round *)

\* What is found was not seen before, is tagged with symbols, and is a sequence of items.
LEMMA FreshNewsType ==
  ASSUME NewsTyped, NEW news \in News!FreshNews
  PROVE  /\ news \in Seq(News!Items)
         /\ News!Urls(news) \subseteq Articles \ seen
<1>1. News!Parameters
  BY ParametersAssumption
<1> DEFINE found == {p \in (Articles \ seen) \X keywords : News!FoundBy(p[1], p[2])}
<1> DEFINE items == {[url |-> p[1], tags |-> News!Tags(p[1], p[2])] : p \in found}
<1>2. PICK n \in 0 .. MaxFound : news \in [1 .. n -> items]
  BY DEF News!FreshNews
<1>3. \A item \in items : item \in News!Items /\ item.url \notin seen
  <2>1. TAKE item \in items
  <2>2. PICK p \in found : item = [url |-> p[1], tags |-> News!Tags(p[1], p[2])]
    OBVIOUS
  <2>3. p[1] \in Articles \ seen
    BY <2>2
  <2>4. News!Tags(p[1], p[2]) \subseteq NewsSymbols
    BY DEF NewsTyped, News!Tags
  <2> HIDE DEF found, items
  <2>5. QED
    BY <2>2, <2>3, <2>4 DEF News!Items
<1> HIDE DEF items, found
<1>4. n \in Nat
  BY <1>1, <1>2 DEF News!Parameters
<1>5. news \in Seq(News!Items) /\ \A k \in 1 .. Len(news) : news[k] \in items
  BY <1>2, <1>3, <1>4
<1>6. ASSUME NEW u \in News!Urls(news)
      PROVE  u \in Articles \ seen
  <2>1. PICK item \in News!Range(news) : u = item.url
    BY <1>6 DEF News!Urls
  <2>2. PICK k \in 1 .. Len(news) : item = news[k]
    BY <1>5, SeqOfItsRange
  <2>3. item \in items
    BY <1>5, <2>2
  <2>4. QED
    BY <1>3, <2>1, <2>3 DEF News!Items
<1>7. QED
  BY <1>5, <1>6

\* The histories after a broadcast have what they had and what is published.
LEMMA StoredType ==
  ASSUME NEW X, history \in [NewsSymbols -> Seq(X)], NEW news \in Seq(News!Items),
         News!Urls(news) \subseteq X
  PROVE  /\ News!Stored(news) \in [NewsSymbols -> Seq(X)]
         /\ \A s \in NewsSymbols : Len(News!Stored(news)[s]) <= HistorySize
<1>1. HistorySize \in Nat
  BY ParametersAssumption DEF News!Parameters
<1>2. ASSUME NEW s \in NewsSymbols
      PROVE  News!Stored(news)[s] \in Seq(X) /\ Len(News!Stored(news)[s]) <= HistorySize
  <2> DEFINE tagged == News!Selected(news, {item \in News!Range(news) : s \in item.tags})
  <2> DEFINE urls == [i \in DOMAIN tagged |-> tagged[i].url]
  <2>1. news \in Seq(News!Range(news))
    BY SeqOfItsRange
  <2>2. tagged \in Seq(News!Range(news))
    BY <2>1, NewsSelectedType
  <2>3. News!Stored(news)[s] = News!Latest(history[s] \o urls, HistorySize)
    BY DEF News!Stored
  <2> HIDE DEF tagged
  <2>4. urls \in Seq(X)
    <3>1. \A i \in 1 .. Len(tagged) : tagged[i].url \in X
      BY <2>2 DEF News!Urls
    <3>2. Len(tagged) \in Nat /\ DOMAIN tagged = 1 .. Len(tagged)
      BY <2>2
    <3>3. QED
      BY <3>1, <3>2
  <2> HIDE DEF urls
  <2>5. history[s] \o urls \in Seq(X)
    BY <2>4
  <2>6. QED
    BY <1>1, <2>3, <2>5, LatestType
<1>3. News!Stored(news) = [s \in NewsSymbols |-> News!Stored(news)[s]]
  BY DEF News!Stored
<1>4. QED
  BY <1>2, <1>3

LEMMA TrimmedType ==
  ASSUME NEW urls, NEW kept \in News!Trimmed(urls)
  PROVE  kept \subseteq urls /\ News!Cardinality(kept) <= SeenLimit
<1>1. SeenLimit \in Nat /\ SeenKept \in 0 .. SeenLimit
  BY ParametersAssumption DEF News!Parameters
<1>2. CASE News!Cardinality(urls) <= SeenLimit
  BY <1>2 DEF News!Trimmed
<1>3. CASE ~(News!Cardinality(urls) <= SeenLimit)
  BY <1>1, <1>3 DEF News!Trimmed
<1>4. QED
  BY <1>2, <1>3

\* A round whose news is marked as seen, and published.
LEMMA PublishMarks ==
  ASSUME NewsTyped, NewsMarked, NEW news \in News!FreshNews,
         NEW kept, kept \subseteq seen \cup News!Urls(news), seen' = kept,
         forgotten' = forgotten \cup ((seen \cup News!Urls(news)) \ kept),
         history' = News!Stored(news), log' = Append(log, news),
         UNCHANGED <<snapshot, joined>>, NewsReached
  PROVE  NewsMarked'
<1>1. news \in Seq(News!Items) /\ News!Urls(news) \subseteq Articles \ seen
  BY FreshNewsType
<1>2. /\ log' \in Seq(Seq(News!Items)) /\ Len(log') = Len(log) + 1 /\ Len(log) \in Nat
      /\ \A i \in 1 .. Len(log) : log'[i] = log[i]
      /\ log'[Len(log) + 1] = news
  BY <1>1 DEF NewsTyped
<1> DEFINE n == Len(log)
<1>3. 1 .. n + 1 = (1 .. n) \cup {n + 1} /\ n + 1 \notin 1 .. n
  BY <1>2
<1>4. \A i \in 1 .. n : News!Urls(log[i]) = News!Urls(log'[i])
  BY <1>2
<1>5. News!Urls(log'[n + 1]) = News!Urls(news)
  BY <1>2
<1>6. \A i \in 1 .. n : News!Urls(log[i]) \subseteq seen \cup forgotten
  BY DEF NewsMarked
<1>7. seen \cup News!Urls(news) \cup forgotten \subseteq seen' \cup forgotten'
  OBVIOUS
<1>8. \A i \in 1 .. n + 1 : News!Urls(log'[i]) \subseteq seen' \cup forgotten'
  BY <1>3, <1>4, <1>5, <1>6, <1>7
<1>9. ASSUME NEW i \in 1 .. n + 1, NEW j \in 1 .. n + 1, i # j
      PROVE  News!Urls(log'[i]) \cap News!Urls(log'[j]) \subseteq forgotten'
  <2>1. forgotten \subseteq forgotten'
    OBVIOUS
  <2>2. CASE i = n + 1
    <3>1. j \in 1 .. n
      BY <1>3, <1>9, <2>2
    <3>2. News!Urls(log'[j]) \subseteq seen \cup forgotten
      BY <1>4, <1>6, <3>1
    <3>3. QED
      BY <1>1, <1>5, <2>1, <2>2, <3>2
  <2>3. CASE j = n + 1
    <3>1. i \in 1 .. n
      BY <1>3, <1>9, <2>3
    <3>2. News!Urls(log'[i]) \subseteq seen \cup forgotten
      BY <1>4, <1>6, <3>1
    <3>3. QED
      BY <1>1, <1>5, <2>1, <2>3, <3>2
  <2>4. CASE i # n + 1 /\ j # n + 1
    <3>1. i \in 1 .. n /\ j \in 1 .. n
      BY <1>3, <2>4
    <3>2. News!Urls(log[i]) \cap News!Urls(log[j]) \subseteq forgotten
      BY <1>9, <3>1 DEF NewsMarked
    <3>3. QED
      BY <1>4, <2>1, <3>1, <3>2
  <2>5. QED
    BY <2>2, <2>3, <2>4
<1> DEFINE Before(m) == UNION {News!Urls(log[i]) : i \in 1 .. m}
<1> DEFINE After(m) == UNION {News!Urls(log'[i]) : i \in 1 .. m}
<1>10. \A m \in 0 .. n : After(m) = Before(m)
  <2>1. TAKE m \in 0 .. n
  <2>2. \A i \in 1 .. m : News!Urls(log[i]) = News!Urls(log'[i])
    BY <1>2, <1>4
  <2>3. QED
    BY <2>2
<1>11. After(n + 1) = Before(n) \cup News!Urls(news)
  BY <1>3, <1>4, <1>5
<1>12. Before(n) = Published(Len(log)) /\ After(n + 1) = Published(Len(log))'
  BY <1>2 DEF Published
<1>13. \A c \in NewsClients : joined[c] \in 0 .. n
  BY DEF NewsReached, Reached
<1>14. \A c \in NewsClients : snapshot[c] \subseteq Before(joined[c])
  BY DEF NewsMarked, Published
<1>15. \A c \in NewsClients : snapshot'[c] \subseteq Published(joined[c])'
  <2>1. \A c \in NewsClients : Published(joined[c])' = After(joined[c])
    BY DEF Published
  <2> HIDE DEF After, Before
  <2>2. QED
    BY <1>10, <1>13, <1>14, <2>1
<1> HIDE DEF After, Before
<1>16. history \in [NewsSymbols -> Seq(After(n + 1))]
  <2>1. Before(n) \subseteq After(n + 1)
    BY <1>11
  <2>2. history \in [NewsSymbols -> Seq(Before(n))]
    BY <1>12 DEF NewsMarked
  <2>3. QED
    BY <2>1, <2>2, SeqMonotonic
<1>17. /\ history' \in [NewsSymbols -> Seq(After(n + 1))]
       /\ \A s \in NewsSymbols : Len(history'[s]) <= HistorySize
  BY <1>1, <1>11, <1>16, StoredType
<1>18. snapshot' \in [NewsClients -> SUBSET Articles]
  BY DEF NewsMarked
<1>19. Len(log') = n + 1
  BY <1>2
<1> HIDE DEF n
<1>20. QED
  BY <1>8, <1>9, <1>12, <1>15, <1>17, <1>18, <1>19 DEF NewsMarked

LEMMA PollKeeps == ASSUME NewsInv, News!Poll PROVE NewsInv'
<1>1. PICK news \in News!FreshNews : \E kept \in News!Trimmed(seen \cup News!Urls(news)) :
         /\ seen' = kept
         /\ forgotten' = forgotten \cup ((seen \cup News!Urls(news)) \ kept)
         /\ IF news = <<>> THEN UNCHANGED <<history, log, queue>>
            ELSE /\ Len(log) < MaxBroadcasts
                 /\ history' = News!Stored(news)
                 /\ log' = Append(log, news)
                 /\ queue' = [c \in NewsClients |->
                       IF c \in News!Subscribers THEN Append(queue[c], Len(log) + 1)
                       ELSE queue[c]]
  BY DEF News!Poll
<1>2. PICK kept \in News!Trimmed(seen \cup News!Urls(news)) :
         /\ seen' = kept
         /\ forgotten' = forgotten \cup ((seen \cup News!Urls(news)) \ kept)
         /\ IF news = <<>> THEN UNCHANGED <<history, log, queue>>
            ELSE /\ Len(log) < MaxBroadcasts
                 /\ history' = News!Stored(news)
                 /\ log' = Append(log, news)
                 /\ queue' = [c \in NewsClients |->
                       IF c \in News!Subscribers THEN Append(queue[c], Len(log) + 1)
                       ELSE queue[c]]
  BY <1>1
<1>3. UNCHANGED <<running, loops, tasks, keywords, tracked, client, snapshot, joined,
                  got, dropped, inbox, commands, replaced>>
  BY DEF News!Poll
<1>4. kept \subseteq seen \cup News!Urls(news) /\ News!Cardinality(kept) <= SeenLimit
  BY TrimmedType
<1>5. news \in Seq(News!Items) /\ News!Urls(news) \subseteq Articles \ seen
  BY FreshNewsType DEF NewsInv
<1>6. NewsSearched'
  BY <1>3 DEF NewsInv, NewsSearched, News!Subscribers
<1>7. seen' \subseteq Articles /\ News!Cardinality(seen') <= SeenLimit
  BY <1>2, <1>4, <1>5 DEF NewsInv, NewsTyped
<1>8. CASE news = <<>>
  <2>1. UNCHANGED <<history, log, queue>>
    BY <1>2, <1>8
  <2>2. NewsTyped'
    BY <1>3, <1>7, <2>1 DEF NewsInv, NewsTyped
  <2>3. NewsReached'
    BY <1>3, <2>1 DEF NewsInv, NewsReached
  <2>4. NewsMarked'
    <3>1. seen \cup forgotten \subseteq seen' \cup forgotten' /\ forgotten \subseteq forgotten'
      BY <1>2
    <3>2. QED
      BY <1>3, <2>1, <3>1 DEF NewsInv, NewsMarked, Published
  <2>5. QED
    BY <1>6, <2>2, <2>3, <2>4 DEF NewsInv
<1>9. CASE news # <<>>
  <2>1. /\ history' = News!Stored(news) /\ log' = Append(log, news)
        /\ queue' = [c \in NewsClients |->
              IF c \in News!Subscribers THEN Append(queue[c], Len(log) + 1) ELSE queue[c]]
    BY <1>2, <1>9
  <2>2. log' \in Seq(Seq(News!Items)) /\ Len(log') = Len(log) + 1 /\ Len(log) \in Nat
    BY <1>5, <2>1 DEF NewsInv, NewsTyped
  <2>3. queue' \in [NewsClients -> Seq(Nat)]
    BY <2>1, <2>2 DEF NewsInv, NewsTyped
  <2>4. NewsTyped'
    BY <1>3, <1>7, <2>2, <2>3 DEF NewsInv, NewsTyped
  <2>5. NewsMarked'
    BY <1>2, <1>3, <1>4, <2>1, PublishMarks DEF NewsInv
  <2>6. ASSUME NEW c \in NewsClients
        PROVE  Reached(client'[c], joined'[c], queue'[c], got'[c], dropped'[c], Len(log'))
    <3>1. Reached(client[c], joined[c], queue[c], got[c], dropped[c], Len(log))
      BY DEF NewsInv, NewsReached
    <3>2. CASE client[c] \in {"idle", "sending"}
      <4>1. queue'[c] = Append(queue[c], Len(log) + 1)
        BY <2>1, <3>2 DEF News!Subscribers
      <4>2. QED
        BY <1>3, <2>2, <3>1, <3>2, <4>1, ReachedByBroadcast
    <3>3. CASE client[c] \notin {"idle", "sending"}
      <4>1. queue'[c] = queue[c]
        BY <2>1, <3>3 DEF News!Subscribers
      <4>2. QED
        BY <1>3, <2>2, <3>1, <3>3, <4>1, ReachedByBroadcast
    <3>4. QED
      BY <3>2, <3>3
  <2>7. QED
    BY <1>6, <2>4, <2>5, <2>6 DEF NewsInv, NewsReached
<1>10. QED
  BY <1>8, <1>9

-----------------------------------------------------------------------------
(* The news monitor: its other steps *)

\* A step of one client that stays where it is known to be reached, and leaves the
\* others alone.
LEMMA ClientKeepsReached ==
  ASSUME NewsReached, NEW c \in NewsClients, UNCHANGED log,
         \A b \in NewsClients \ {c} :
            /\ client'[b] = client[b] /\ joined'[b] = joined[b] /\ queue'[b] = queue[b]
            /\ got'[b] = got[b] /\ dropped'[b] = dropped[b],
         Reached(client'[c], joined'[c], queue'[c], got'[c], dropped'[c], Len(log))
  PROVE  NewsReached'
BY DEF NewsReached

LEMMA ConnectKeeps ==
  ASSUME NewsInv, NEW c \in NewsClients, News!Connect(c)
  PROVE  NewsInv'
<1>1. /\ client[c] = "out"
      /\ tracked' = tracked \cup Wanted[c]
      /\ keywords' = News!EnsureSymbols(Wanted[c])
      /\ running' = TRUE
      /\ loops' = IF running THEN loops ELSE loops + 1
      /\ snapshot' = [snapshot EXCEPT ![c] = News!SnapshotOf(c)]
      /\ joined' = [joined EXCEPT ![c] = Len(log)]
      /\ client' = [client EXCEPT ![c] = "sending"]
      /\ UNCHANGED <<tasks, seen, history, log, forgotten, queue, got, dropped, inbox,
                     commands, replaced>>
  BY DEF News!Connect, News!StartMonitor
<1>2. /\ TradingAssets \subseteq NewsSymbols
      /\ Wanted \in [NewsClients -> SUBSET NewsSymbols]
      /\ Tails \in [NewsClients -> Nat \ {0}]
  BY ParametersAssumption DEF News!Parameters
<1>3. Len(log) \in Nat
  BY DEF NewsInv, NewsTyped
<1>4. keywords' = keywords \cup {{s} : s \in Wanted[c] \ UNION keywords}
  BY <1>1 DEF News!EnsureSymbols
<1>5. NewsTyped'
  <2>1. running' \in BOOLEAN /\ loops' \in Nat /\ (running' => loops' > 0)
    BY <1>1 DEF NewsInv, NewsTyped
  <2>2. keywords' \subseteq SUBSET NewsSymbols
    BY <1>2, <1>4 DEF NewsInv, NewsTyped
  <2>3. TradingAssets \subseteq tracked' /\ tracked' \subseteq NewsSymbols
    BY <1>1, <1>2 DEF NewsInv, NewsTyped
  <2>4. /\ client' \in [NewsClients -> {"out", "idle", "sending", "gone"}]
        /\ joined' \in [NewsClients -> Nat]
    BY <1>1, <1>3 DEF NewsInv, NewsTyped
  <2>5. QED
    BY <1>1, <2>1, <2>2, <2>3, <2>4 DEF NewsInv, NewsTyped
<1>6. NewsReached'
  <2>1. Reached("out", joined[c], queue[c], got[c], dropped[c], Len(log))
    BY <1>1 DEF NewsInv, NewsReached
  <2>2. client'[c] = "sending" /\ joined'[c] = Len(log)
    BY <1>1 DEF NewsInv, NewsTyped
  <2>3. Reached(client'[c], joined'[c], queue'[c], got'[c], dropped'[c], Len(log))
    BY <1>1, <1>3, <2>1, <2>2, ReachedByJoining
  <2>4. \A b \in NewsClients \ {c} : client'[b] = client[b] /\ joined'[b] = joined[b]
    BY <1>1 DEF NewsInv, NewsTyped
  <2>5. QED
    BY <1>1, <2>3, <2>4, ClientKeepsReached DEF NewsInv
<1>7. NewsSearched'
  <2>1. UNION keywords \subseteq UNION keywords' /\ Wanted[c] \subseteq UNION keywords'
    BY <1>4
  <2>2. \A b \in NewsClients \ {c} : client'[b] = client[b]
    BY <1>1 DEF NewsInv, NewsTyped
  <2>3. QED
    BY <1>1, <2>1, <2>2 DEF NewsInv, NewsSearched, News!Subscribers
<1>8. NewsMarked'
  <2>1. \A s \in NewsSymbols : \A n \in Nat :
           News!Range(News!Latest(history[s], n)) \subseteq Published(Len(log))
    <3>1. \A s \in NewsSymbols : history[s] \in Seq(Published(Len(log)))
      BY DEF NewsInv, NewsMarked
    <3>2. \A s \in NewsSymbols : \A n \in Nat :
             News!Latest(history[s], n) \in Seq(Published(Len(log)))
      BY <3>1, LatestType
    <3>3. QED
      BY <3>2, SeqOfItsRange
  <2>2. Published(Len(log)) \subseteq Articles
    <3>1. \A i \in 1 .. Len(log) : News!Urls(log[i]) \subseteq Articles
      <4>1. TAKE i \in 1 .. Len(log)
      <4>2. log[i] \in Seq(News!Items)
        BY DEF NewsInv, NewsTyped
      <4>3. News!Range(log[i]) \subseteq News!Items
        BY <4>2, SeqOfItsRange
      <4>4. QED
        BY <4>3 DEF News!Urls, News!Items
    <3>2. QED
      BY <3>1 DEF Published
  <2>3. tracked \subseteq NewsSymbols /\ Wanted[c] \subseteq NewsSymbols /\ Tails[c] \in Nat
    BY <1>2 DEF NewsInv, NewsTyped
  <2>4. News!SnapshotOf(c) \subseteq Published(Len(log))
    BY <2>1, <2>3 DEF News!SnapshotOf
  <2>5. snapshot' \in [NewsClients -> SUBSET Articles]
    BY <1>1, <2>2, <2>4 DEF NewsInv, NewsMarked
  <2>6. \A b \in NewsClients : snapshot'[b] \subseteq Published(joined'[b])
    <3>1. snapshot'[c] = News!SnapshotOf(c) /\ joined'[c] = Len(log)
      BY <1>1 DEF NewsInv, NewsMarked, NewsTyped
    <3>2. \A b \in NewsClients \ {c} : snapshot'[b] = snapshot[b] /\ joined'[b] = joined[b]
      BY <1>1 DEF NewsInv, NewsMarked, NewsTyped
    <3>3. QED
      BY <2>4, <3>1, <3>2 DEF NewsInv, NewsMarked
  <2>7. \A n : Published(n)' = Published(n)
    BY <1>1 DEF Published
  <2>8. QED
    BY <1>1, <2>5, <2>6, <2>7 DEF NewsInv, NewsMarked
<1>9. QED
  BY <1>5, <1>6, <1>7, <1>8 DEF NewsInv

\* A step of a connected client that takes nothing from its queue.
LEMMA MoveKeeps ==
  ASSUME NewsInv, NEW c \in NewsClients, client[c] \in {"idle", "sending"},
         NEW to \in {"idle", "sending", "gone"}, client' = [client EXCEPT ![c] = to],
         inbox' \in [NewsClients -> 0 .. 1],
         UNCHANGED <<News!monitorVars, snapshot, joined, queue, got, dropped, replaced>>
  PROVE  NewsInv'
<1>1. UNCHANGED <<running, loops, tasks, keywords, tracked, seen, history, log, forgotten>>
  BY DEF News!monitorVars
<1>2. /\ client' \in [NewsClients -> {"out", "idle", "sending", "gone"}]
      /\ client'[c] = to
      /\ \A b \in NewsClients \ {c} : client'[b] = client[b]
  BY DEF NewsInv, NewsTyped
<1>3. NewsTyped'
  BY <1>1, <1>2 DEF NewsInv, NewsTyped
<1>4. NewsReached'
  <2>1. Len(log) \in Nat /\ Reached(client[c], joined[c], queue[c], got[c], dropped[c], Len(log))
    BY DEF NewsInv, NewsTyped, NewsReached
  <2>2. Reached(to, joined[c], queue[c], got[c], dropped[c], Len(log))
    BY <2>1, ReachedByMoving
  <2>3. QED
    BY <1>1, <1>2, <2>2, ClientKeepsReached DEF NewsInv
<1>5. NewsSearched'
  BY <1>1, <1>2 DEF NewsInv, NewsSearched, News!Subscribers
<1>6. NewsMarked'
  BY <1>1, NewsUnmarked DEF NewsInv
<1>7. QED
  BY <1>3, <1>4, <1>5, <1>6 DEF NewsInv

\* A step of a client that takes the first broadcast of its queue, sent or lost.
LEMMA TakeKeeps ==
  ASSUME NewsInv, NEW c \in NewsClients, client[c] = "idle", queue[c] # <<>>,
         client' = [client EXCEPT ![c] = "sending"],
         queue' = [queue EXCEPT ![c] = Tail(@)],
         \/ got' = [got EXCEPT ![c] = @ \cup {Head(queue[c])}] /\ UNCHANGED dropped
         \/ dropped' = [dropped EXCEPT ![c] = @ \cup {Head(queue[c])}] /\ UNCHANGED got,
         inbox' \in [NewsClients -> 0 .. 1],
         UNCHANGED <<News!monitorVars, snapshot, joined, replaced>>
  PROVE  NewsInv'
<1>1. UNCHANGED <<running, loops, tasks, keywords, tracked, seen, history, log, forgotten>>
  BY DEF News!monitorVars
<1>2. /\ queue[c] \in Seq(Nat) /\ Head(queue[c]) \in Nat /\ Tail(queue[c]) \in Seq(Nat)
  BY DEF NewsInv, NewsTyped
<1>3. /\ client' \in [NewsClients -> {"out", "idle", "sending", "gone"}]
      /\ client'[c] = "sending"
      /\ queue' \in [NewsClients -> Seq(Nat)] /\ queue'[c] = Tail(queue[c])
      /\ \A b \in NewsClients \ {c} : client'[b] = client[b] /\ queue'[b] = queue[b]
  BY <1>2 DEF NewsInv, NewsTyped
<1>4. /\ got' \in [NewsClients -> SUBSET Nat] /\ dropped' \in [NewsClients -> SUBSET Nat]
      /\ \A b \in NewsClients \ {c} : got'[b] = got[b] /\ dropped'[b] = dropped[b]
      /\ \/ got'[c] = got[c] \cup {Head(queue[c])} /\ dropped'[c] = dropped[c]
         \/ dropped'[c] = dropped[c] \cup {Head(queue[c])} /\ got'[c] = got[c]
  BY <1>2 DEF NewsInv, NewsTyped
<1>5. NewsTyped'
  BY <1>1, <1>3, <1>4 DEF NewsInv, NewsTyped
<1>6. NewsReached'
  <2>1. Len(log) \in Nat /\ Reached("idle", joined[c], queue[c], got[c], dropped[c], Len(log))
    BY DEF NewsInv, NewsTyped, NewsReached
  <2>2. /\ Reached("sending", joined[c], Tail(queue[c]), got[c] \cup {Head(queue[c])},
                  dropped[c], Len(log))
        /\ Reached("sending", joined[c], Tail(queue[c]), got[c],
                  dropped[c] \cup {Head(queue[c])}, Len(log))
    BY <2>1, ReachedByTaking
  <2>3. joined' = joined
    OBVIOUS
  <2>4. Reached(client'[c], joined'[c], queue'[c], got'[c], dropped'[c], Len(log))
    BY <1>3, <1>4, <2>2, <2>3
  <2>5. QED
    BY <1>1, <1>3, <1>4, <2>3, <2>4, ClientKeepsReached DEF NewsInv
<1>7. NewsSearched'
  BY <1>1, <1>3 DEF NewsInv, NewsSearched, News!Subscribers
<1>8. NewsMarked'
  BY <1>1, NewsUnmarked DEF NewsInv
<1>9. QED
  BY <1>5, <1>6, <1>7, <1>8 DEF NewsInv

LEMMA NewsClientKeeps ==
  ASSUME NewsInv, NEW c \in NewsClients,
         News!Sent(c) \/ News!Deliver(c) \/ News!Answer(c) \/ News!Say(c) \/ News!Leave(c)
  PROVE  NewsInv'
<1>1. inbox \in [NewsClients -> 0 .. 1]
  BY DEF NewsInv, NewsTyped
<1>2. [inbox EXCEPT ![c] = 0] \in [NewsClients -> 0 .. 1]
  BY <1>1
<1>3. [inbox EXCEPT ![c] = 1] \in [NewsClients -> 0 .. 1]
  BY <1>1
<1>4. CASE News!Sent(c)
  BY <1>1, <1>4, MoveKeeps DEF News!Sent
<1>5. CASE News!Deliver(c)
  BY <1>1, <1>2, <1>5, TakeKeeps DEF News!Deliver
<1>6. CASE News!Answer(c)
  <2>1. CASE UNCHANGED <<queue, dropped>>
    BY <1>2, <1>6, <2>1, MoveKeeps DEF News!Answer
  <2>2. CASE /\ queue[c] # <<>>
             /\ queue' = [queue EXCEPT ![c] = Tail(@)]
             /\ dropped' = [dropped EXCEPT ![c] = @ \cup {Head(queue[c])}]
    BY <1>2, <1>6, <2>2, TakeKeeps DEF News!Answer
  <2>3. QED
    BY <1>6, <2>1, <2>2 DEF News!Answer
<1>7. CASE News!Say(c)
  <2>1. client \in [NewsClients -> {"out", "idle", "sending", "gone"}]
    BY DEF NewsInv, NewsTyped
  <2>2. client' = [client EXCEPT ![c] = client[c]]
    BY <1>7, <2>1 DEF News!Say
  <2>3. client[c] \in {"idle", "sending"} /\ client[c] \in {"idle", "sending", "gone"}
    BY <1>7 DEF News!Say
  <2>4. inbox' \in [NewsClients -> 0 .. 1]
    BY <1>3, <1>7 DEF News!Say
  <2>5. UNCHANGED <<News!monitorVars, snapshot, joined, queue, got, dropped, replaced>>
    BY <1>7 DEF News!Say
  <2>6. QED
    BY <2>2, <2>3, <2>4, <2>5, MoveKeeps
<1>8. CASE News!Leave(c)
  BY <1>1, <1>8, MoveKeeps DEF News!Leave
<1>9. QED
  BY <1>4, <1>5, <1>6, <1>7, <1>8

\* The monitor's loops and the agent's tools publish nothing; a tool that replaces the
\* keywords marks who is connected.
LEMMA NewsMonitorKeeps ==
  ASSUME NewsInv,
         News!EndLoop \/ News!StartNewsMonitoring \/ News!StopNewsMonitoring \/ News!RunTask
  PROVE  NewsInv'
<1>1. /\ UNCHANGED <<tracked, seen, history, log, forgotten>>
      /\ UNCHANGED <<client, snapshot, joined, queue, got, dropped, inbox>>
  BY DEF News!EndLoop, News!StartNewsMonitoring, News!StopNewsMonitoring, News!RunTask,
         News!clientVars
<1>2. /\ running' \in BOOLEAN /\ loops' \in Nat /\ (running' => loops' > 0)
      /\ tasks' \in Seq({"start", "stop"})
  <2>1. /\ running \in BOOLEAN /\ loops \in Nat /\ (running => loops > 0)
        /\ tasks \in Seq({"start", "stop"})
    BY DEF NewsInv, NewsTyped
  <2>2. CASE News!EndLoop
    BY <2>1, <2>2 DEF News!EndLoop
  <2>3. CASE News!StartNewsMonitoring
    BY <2>1, <2>3 DEF News!StartNewsMonitoring
  <2>4. CASE News!StopNewsMonitoring
    BY <2>1, <2>4 DEF News!StopNewsMonitoring
  <2>5. CASE News!RunTask
    <3>1. tasks # <<>> /\ tasks' = Tail(tasks)
      BY <2>5 DEF News!RunTask
    <3>2. tasks' \in Seq({"start", "stop"})
      BY <2>1, <3>1
    <3>3. \/ running' = TRUE /\ loops' = IF running THEN loops ELSE loops + 1
          \/ running' = FALSE /\ loops' = loops
      BY <2>5 DEF News!RunTask, News!StartMonitor
    <3>4. loops' \in Nat /\ (running' => loops' > 0) /\ running' \in BOOLEAN
      <4>1. CASE running' = TRUE /\ loops' = IF running THEN loops ELSE loops + 1
        <5>1. CASE running
          BY <2>1, <4>1, <5>1
        <5>2. CASE ~running
          BY <2>1, <4>1, <5>2
        <5>3. QED
          BY <5>1, <5>2
      <4>2. CASE running' = FALSE /\ loops' = loops
        BY <2>1, <4>2
      <4>3. QED
        BY <3>3, <4>1, <4>2
    <3>5. QED
      BY <3>2, <3>4
  <2>6. QED
    BY <2>2, <2>3, <2>4, <2>5
<1>3. keywords' \subseteq SUBSET NewsSymbols
  <2>1. ToolTopics \subseteq SUBSET NewsSymbols
    BY ParametersAssumption DEF News!Parameters
  <2>2. QED
    BY <2>1 DEF NewsInv, NewsTyped, News!EndLoop, News!StartNewsMonitoring,
                News!StopNewsMonitoring, News!RunTask
<1>4. NewsTyped'
  BY <1>1, <1>2, <1>3 DEF NewsInv, NewsTyped
<1>5. NewsReached'
  BY <1>1 DEF NewsInv, NewsReached
<1>6. NewsSearched'
  <2>1. CASE News!StartNewsMonitoring
    BY <1>1, <2>1 DEF NewsInv, NewsSearched, News!Subscribers, News!StartNewsMonitoring
  <2>2. CASE ~News!StartNewsMonitoring
    <3>1. UNCHANGED <<keywords, replaced>>
      BY <2>2 DEF News!EndLoop, News!StopNewsMonitoring, News!RunTask
    <3>2. QED
      BY <1>1, <3>1 DEF NewsInv, NewsSearched, News!Subscribers
  <2>3. QED
    BY <2>1, <2>2
<1>7. NewsMarked'
  BY <1>1, NewsUnmarked DEF NewsInv
<1>8. QED
  BY <1>4, <1>5, <1>6, <1>7 DEF NewsInv

LEMMA NewsStutters == ASSUME NewsInv, UNCHANGED newsVars PROVE NewsInv'
<1>1. NewsTyped'
  BY DEF newsVars, NewsInv, NewsTyped
<1>2. NewsReached'
  BY DEF newsVars, NewsInv, NewsReached
<1>3. NewsSearched'
  BY DEF newsVars, NewsInv, NewsSearched, News!Subscribers
<1>4. NewsMarked'
  BY NewsUnmarked DEF newsVars, NewsInv
<1>5. QED
  BY <1>1, <1>2, <1>3, <1>4 DEF NewsInv

LEMMA NewsStepKeeps ==
  ASSUME NewsInv, [ServicesNext]_servicesVars
  PROVE  NewsInv'
<1>1. CASE UNCHANGED newsVars
  BY <1>1, NewsStutters
<1>2. CASE News!Poll
  BY <1>2, PollKeeps
<1>3. CASE News!EndLoop \/ News!StartNewsMonitoring \/ News!StopNewsMonitoring
           \/ News!RunTask
  BY <1>3, NewsMonitorKeeps
<1>4. ASSUME NEW c \in NewsClients, News!Connect(c)
      PROVE  NewsInv'
  BY <1>4, ConnectKeeps
<1>5. ASSUME NEW c \in NewsClients,
             News!Sent(c) \/ News!Deliver(c) \/ News!Answer(c) \/ News!Say(c) \/ News!Leave(c)
      PROVE  NewsInv'
  BY <1>5, NewsClientKeeps
<1>6. CASE News!Next
  BY <1>2, <1>3, <1>4, <1>5, <1>6 DEF News!Next
<1>7. UNCHANGED newsVars \/ News!Next
  BY DEF ServicesNext, CatalogueStep, SnapshotStep, NonceStep, UploadStep, servicesVars,
         dataVars, DataNext, PricesStep, NewsStep, CoinsStep
<1>8. QED
  BY <1>1, <1>6, <1>7

-----------------------------------------------------------------------------
(* The news monitor: its properties *)

\* The invariant of the news monitor holds in every reachable state.
THEOREM NewsInvariance == ServicesSpec => []NewsInv
  BY NewsInit, NewsStepKeeps, PTL DEF ServicesSpec

\* No connected client misses a broadcast or is sent one out of order, for every number of
\* clients, loops and broadcasts.
THEOREM BroadcastsReachClients == ServicesSpec => []NewsReachesClients
<1>1. NewsInv => NewsReachesClients
  BY DEF NewsInv, NewsReached, Reached, NewsReachesClients, News!NewsReachesClients,
         News!Subscribers
<1>2. QED
  BY <1>1, NewsInvariance, PTL

\* What a connected client asked for is tracked and searched for, until a tool replaces
\* the keywords, whatever the other clients ask for.
THEOREM WishesAreSearched == ServicesSpec => []SymbolsAreSearched
<1>1. NewsInv => SymbolsAreSearched
  BY DEF NewsInv, NewsSearched, SymbolsAreSearched, News!SymbolsAreSearched,
         News!Subscribers
<1>2. QED
  BY <1>1, NewsInvariance, PTL

\* No client is shown an article twice unless the monitor forgot it, for every limit of
\* the urls it remembers.
THEOREM NewsIsNew == ServicesSpec => []NewsIsNotRepeated
<1>1. ASSUME NewsInv, NEW c \in NewsClients, NEW i \in got[c],
             NEW u \in News!Urls(News!Filtered(c, log[i])) \ forgotten
      PROVE  u \notin snapshot[c] /\ \A j \in got[c] \ {i} : u \notin News!Urls(log[j])
  <2>1. /\ joined[c] \in 0 .. Len(log) /\ Len(log) \in Nat
        /\ got[c] \subseteq joined[c] + 1 .. Len(log)
    BY <1>1 DEF NewsInv, NewsTyped, NewsReached, Reached
  <2>2. got[c] \subseteq 1 .. Len(log)
    BY <2>1
  <2>3. u \in News!Urls(log[i])
    <3>1. log[i] \in Seq(News!Items)
      BY <1>1, <2>2 DEF NewsInv, NewsTyped
    <3>2. Tails[c] \in Nat
      BY ParametersAssumption DEF News!Parameters
    <3>3. log[i] \in Seq(News!Range(log[i]))
      BY <3>1, SeqOfItsRange
    <3>4. News!Filtered(c, log[i]) \in Seq(News!Range(log[i]))
      BY <3>2, <3>3, NewsSelectedType, LatestType DEF News!Filtered
    <3>5. News!Range(News!Filtered(c, log[i])) \subseteq News!Range(log[i])
      BY <3>4, SeqOfItsRange
    <3>6. QED
      BY <1>1, <3>5 DEF News!Urls
  <2>4. ASSUME NEW j \in 1 .. Len(log), j # i
        PROVE  u \notin News!Urls(log[j])
    BY <1>1, <2>2, <2>3, <2>4 DEF NewsInv, NewsMarked
  <2>5. u \notin snapshot[c]
    <3>1. SUFFICES ASSUME u \in snapshot[c] PROVE FALSE
      OBVIOUS
    <3>2. PICK j \in 1 .. joined[c] : u \in News!Urls(log[j])
      BY <1>1, <3>1 DEF NewsInv, NewsMarked, Published
    <3>3. j \in 1 .. Len(log) /\ j # i
      BY <2>1, <3>2
    <3>4. QED
      BY <2>4, <3>2, <3>3
  <2>6. QED
    BY <2>2, <2>4, <2>5
<1>2. NewsInv => NewsIsNotRepeated
  BY <1>1 DEF NewsIsNotRepeated, News!NewsIsNotRepeated
<1>3. QED
  BY <1>2, NewsInvariance, PTL

-----------------------------------------------------------------------------
(* Coin descriptions *)

Known == {"none", "fresh", "stale"}
Places == {"new", "look", "limit", "throttled", "pause", "retry", "done", "refused"}
             \cup Coins!Waits
Busy == {"limit", "throttled"} \cup Coins!Waits

\* The table, the file and the prices.
StoreTyped ==
    /\ db \in [CoinSymbols -> Known] /\ file \in [CoinSymbols -> Known]
    /\ KnownIds \subseteq ids /\ ids \subseteq KnownIds \cup Listed
    /\ priced \subseteq Coins!Range(Assets)

\* The tasks: one that is busy with a request has a symbol it is for.
TasksTyped ==
    /\ pc \in [Coins!Tasks -> Places]
    /\ wish \in [Coins!Tasks -> Coins!Waits]
    /\ todo \in [Coins!Tasks -> Seq(CoinSymbols)]
    /\ answer \in [Coins!Tasks -> Seq(CoinSymbols)]
    /\ needs \in [Coins!Tasks -> BOOLEAN]
    /\ failed \in Seq(CoinSymbols)
    /\ \A t \in Coins!Tasks : pc[t] \in Busy => todo[t] # <<>>
    /\ \A t \in Coins!Tasks : pc[t] = "refused" => t \in Requests

\* No task's last request is more recent than the last of all, and one that sleeps has
\* left to sleep what its own last request still asks for.
Spaced ==
    /\ age \in 0 .. Delay
    /\ left \in [Coins!Tasks -> 0 .. Delay] /\ own \in [Coins!Tasks -> 0 .. Delay]
    /\ \A t \in Coins!Tasks : age <= own[t]
    /\ \A t \in Coins!Tasks : pc[t] = "limit" => own[t] + left[t] >= Delay

CoinsInv == StoreTyped /\ TasksTyped /\ Spaced

\* What is asked of a step, besides that it keeps the invariant.
SendsSpaced ==
    \A t \in Coins!Tasks :
        (pc'[t] \in Coins!Waits /\ pc'[t] # pc[t]) => own[t] >= Delay

LEMMA CoinsParameters ==
  /\ KnownIds \subseteq CoinSymbols /\ Listed \subseteq CoinSymbols
  /\ Assets \in Seq(CoinSymbols)
  /\ \A ask \in Asks : ask.first \in Seq(CoinSymbols)
  /\ Delay \in Nat
BY ParametersAssumption DEF Coins!Parameters, Coins!Ask

\* Coins!Selected is Selected.
LEMMA CoinsSelectedType ==
  ASSUME NEW X, NEW seq \in Seq(X), NEW set
  PROVE  Coins!Selected(seq, set) \in Seq(X)
<1>1. Coins!Selected(seq, set) = Selected(seq, set)
  BY DEF Coins!Selected, Selected
<1>2. \A n \in 1 .. Len(seq) : seq[n] \in set => seq[n] \in X
  OBVIOUS
<1>3. QED
  BY <1>1, <1>2, SelectedType

LEMMA CoinsInit == ASSUME ServicesInit PROVE CoinsInv
<1>1. Coins!Init
  BY DEF ServicesInit, DataInit
<1>2. <<>> \in Seq(CoinSymbols) /\ Delay \in Nat
  BY CoinsParameters
<1>3. StoreTyped
  BY <1>1 DEF Coins!Init, StoreTyped, Known
<1>4. TasksTyped
  BY <1>1, <1>2 DEF Coins!Init, TasksTyped, Places, Busy, Coins!Waits
<1>5. Spaced
  BY <1>1, <1>2 DEF Coins!Init, Spaced
<1>6. QED
  BY <1>3, <1>4, <1>5 DEF CoinsInv

\* A request is sent when the last of all, and so the task's own, is long ago; otherwise
\* the task sleeps for as long as the last of all asks for.
LEMMA GetIsSpaced ==
  ASSUME CoinsInv, NEW t \in Coins!Tasks, NEW request \in Coins!Waits, todo[t] # <<>>,
         Coins!Get(t, request), UNCHANGED <<todo, needs, failed, answer>>
  PROVE  TasksTyped' /\ Spaced' /\ SendsSpaced
<1>1. /\ wish' = [wish EXCEPT ![t] = request]
      /\ age \in 0 .. Delay /\ Delay \in Nat
      /\ left \in [Coins!Tasks -> 0 .. Delay] /\ own \in [Coins!Tasks -> 0 .. Delay]
      /\ pc \in [Coins!Tasks -> Places]
      /\ request \in {"search", "fetch"}
  BY CoinsParameters DEF Coins!Get, CoinsInv, Spaced, TasksTyped, Coins!Waits
<1>2. CASE age < Delay
  <2>1. /\ pc' = [pc EXCEPT ![t] = "limit"]
        /\ left' = [left EXCEPT ![t] = Delay - age]
        /\ age' = age /\ own' = own
    BY <1>2 DEF Coins!Get
  <2>2. Delay - age \in 0 .. Delay
    BY <1>1
  <2>3. Spaced'
    BY <1>1, <2>1, <2>2 DEF CoinsInv, Spaced
  <2>4. TasksTyped'
    BY <1>1, <2>1 DEF CoinsInv, TasksTyped, Places, Busy, Coins!Waits
  <2>5. SendsSpaced
    BY <1>1, <2>1 DEF SendsSpaced, Coins!Waits
  <2>6. QED
    BY <2>3, <2>4, <2>5
<1>3. CASE ~(age < Delay)
  <2>1. /\ pc' = [pc EXCEPT ![t] = request]
        /\ age' = 0 /\ own' = [own EXCEPT ![t] = 0] /\ left' = left
    BY <1>3 DEF Coins!Get
  <2>2. own[t] = Delay
    BY <1>1, <1>3 DEF CoinsInv, Spaced
  <2>3. Spaced'
    BY <1>1, <2>1 DEF CoinsInv, Spaced
  <2>4. TasksTyped'
    BY <1>1, <2>1 DEF CoinsInv, TasksTyped, Places, Busy, Coins!Waits
  <2>5. SendsSpaced
    BY <1>1, <2>1, <2>2 DEF SendsSpaced
  <2>6. QED
    BY <2>3, <2>4, <2>5
<1>4. QED
  BY <1>2, <1>3

\* A task that goes on to its next symbol.
LEMMA ReturnedIsSpaced ==
  ASSUME CoinsInv, NEW t \in Coins!Tasks, NEW found \in BOOLEAN, todo[t] # <<>>,
         Coins!Returned(t, found), UNCHANGED <<wish, age, own, left>>
  PROVE  TasksTyped' /\ Spaced' /\ SendsSpaced
<1> DEFINE place == IF t = "init" THEN "pause"
                    ELSE IF needs[t] /\ ~(found /\ Coins!Symbol(t) \in priced) THEN "refused"
                    ELSE "look"
<1>1. /\ todo' = [todo EXCEPT ![t] = Tail(@)]
      /\ needs' = [needs EXCEPT ![t] = FALSE]
      /\ pc' = [pc EXCEPT ![t] = place]
      /\ failed' \in {failed, Append(failed, Coins!Symbol(t))}
      /\ answer' \in {answer, [answer EXCEPT ![t] = Append(@, Coins!Symbol(t))]}
  BY DEF Coins!Returned
<1>2. /\ place \in {"pause", "refused", "look"}
      /\ place = "refused" => t # "init"
  OBVIOUS
<1>3. place = "refused" => t \in Requests
  BY <1>2 DEF Coins!Tasks
<1> HIDE DEF place
<1>4. Coins!Symbol(t) \in CoinSymbols /\ Tail(todo[t]) \in Seq(CoinSymbols)
  BY DEF CoinsInv, TasksTyped, Coins!Symbol
<1>5. /\ failed' \in Seq(CoinSymbols) /\ answer' \in [Coins!Tasks -> Seq(CoinSymbols)]
      /\ todo' \in [Coins!Tasks -> Seq(CoinSymbols)]
      /\ needs' \in [Coins!Tasks -> BOOLEAN]
  <2>1. failed' \in Seq(CoinSymbols)
    <3>1. failed \in Seq(CoinSymbols)
      BY DEF CoinsInv, TasksTyped
    <3>2. Append(failed, Coins!Symbol(t)) \in Seq(CoinSymbols)
      BY <1>4, <3>1
    <3>3. QED
      BY <1>1, <3>1, <3>2
  <2>2. Append(answer[t], Coins!Symbol(t)) \in Seq(CoinSymbols)
    BY <1>4 DEF CoinsInv, TasksTyped
  <2>3. answer' \in [Coins!Tasks -> Seq(CoinSymbols)]
    BY <1>1, <2>2 DEF CoinsInv, TasksTyped
  <2>4. todo' \in [Coins!Tasks -> Seq(CoinSymbols)]
    BY <1>1, <1>4 DEF CoinsInv, TasksTyped
  <2>5. needs' \in [Coins!Tasks -> BOOLEAN]
    BY <1>1 DEF CoinsInv, TasksTyped
  <2>6. QED
    BY <2>1, <2>3, <2>4, <2>5
<1>6. \A s \in Coins!Tasks \ {t} : pc'[s] = pc[s] /\ todo'[s] = todo[s]
  BY <1>1 DEF CoinsInv, TasksTyped
<1>7. pc'[t] = place /\ pc' \in [Coins!Tasks -> Places]
  BY <1>1, <1>2 DEF CoinsInv, TasksTyped, Places
<1>8. TasksTyped'
  BY <1>2, <1>3, <1>5, <1>6, <1>7 DEF CoinsInv, TasksTyped, Busy, Coins!Waits
<1>9. Spaced'
  BY <1>2, <1>6, <1>7 DEF CoinsInv, Spaced
<1>10. SendsSpaced
  BY <1>2, <1>6, <1>7 DEF SendsSpaced, Coins!Waits
<1>11. QED
  BY <1>8, <1>9, <1>10

\* A step of a task that neither sends nor sleeps: it goes to a place where it is not
\* busy, with what it has to look at.
LEMMA MoveIsSpaced ==
  ASSUME CoinsInv, NEW t \in Coins!Tasks, NEW place \in Places \ (Busy \cup {"refused"}),
         pc' = [pc EXCEPT ![t] = place], NEW symbols \in Seq(CoinSymbols),
         todo' = [todo EXCEPT ![t] = symbols], failed' \in Seq(CoinSymbols),
         needs' \in [Coins!Tasks -> BOOLEAN],
         UNCHANGED <<wish, answer, age, left, own>>
  PROVE  TasksTyped' /\ Spaced' /\ SendsSpaced
<1>1. /\ pc' \in [Coins!Tasks -> Places] /\ todo' \in [Coins!Tasks -> Seq(CoinSymbols)]
      /\ pc'[t] = place
      /\ \A s \in Coins!Tasks \ {t} : pc'[s] = pc[s] /\ todo'[s] = todo[s]
  BY DEF CoinsInv, TasksTyped
<1>2. place \notin {"limit", "throttled", "refused"} \cup Coins!Waits
  BY DEF Busy
<1>3. TasksTyped'
  BY <1>1, <1>2 DEF CoinsInv, TasksTyped, Busy
<1>4. Spaced'
  BY <1>1, <1>2 DEF CoinsInv, Spaced
<1>5. SendsSpaced
  BY <1>1, <1>2 DEF SendsSpaced
<1>6. QED
  BY <1>3, <1>4, <1>5

LEMMA InitializationKeeps ==
  ASSUME CoinsInv, Coins!Initialize \/ Coins!Paused \/ Coins!RoundEnds \/ Coins!Retry
  PROVE  CoinsInv' /\ SendsSpaced
<1>1. "init" \in Coins!Tasks
  BY DEF Coins!Tasks
<1>2. {"look", "done", "retry"} \subseteq Places \ (Busy \cup {"refused"})
  BY DEF Places, Busy, Coins!Waits
<1>3. /\ todo \in [Coins!Tasks -> Seq(CoinSymbols)] /\ failed \in Seq(CoinSymbols)
      /\ needs \in [Coins!Tasks -> BOOLEAN] /\ <<>> \in Seq(CoinSymbols)
  BY DEF CoinsInv, TasksTyped
<1>4. todo = [todo EXCEPT !["init"] = todo["init"]]
  BY <1>1, <1>3
<1>5. todo["init"] \in Seq(CoinSymbols)
  BY <1>1, <1>3
<1>6. StoreTyped'
  BY DEF CoinsInv, StoreTyped, Coins!Initialize, Coins!Paused, Coins!RoundEnds, Coins!Retry,
         Coins!storeVars
<1>7. CASE Coins!Initialize
  <2> DEFINE stale == Coins!Selected(Assets, {s \in CoinSymbols : db[s] # "fresh"})
  <2>1. stale \in Seq(CoinSymbols)
    BY CoinsParameters, CoinsSelectedType
  <2>2. todo' = [todo EXCEPT !["init"] = stale]
    BY <1>7 DEF Coins!Initialize
  <2> HIDE DEF stale
  <2>3. TasksTyped' /\ Spaced' /\ SendsSpaced
    BY <1>1, <1>2, <1>3, <1>7, <2>1, <2>2, MoveIsSpaced DEF Coins!Initialize
  <2>4. QED
    BY <1>6, <2>3 DEF CoinsInv
<1>8. CASE Coins!Paused \/ Coins!Retry
  <2>1. TasksTyped' /\ Spaced' /\ SendsSpaced
    BY <1>1, <1>2, <1>3, <1>4, <1>5, <1>8, MoveIsSpaced DEF Coins!Paused, Coins!Retry
  <2>2. QED
    BY <1>6, <2>1 DEF CoinsInv
<1>9. CASE Coins!RoundEnds
  <2>1. /\ pc' = [pc EXCEPT !["init"] = IF failed = <<>> THEN "done" ELSE "retry"]
        /\ todo' = [todo EXCEPT !["init"] = failed] /\ failed' = <<>>
        /\ UNCHANGED <<age, wish, left, needs, answer, own>>
    BY <1>9 DEF Coins!RoundEnds
  <2>2. (IF failed = <<>> THEN "done" ELSE "retry") \in Places \ (Busy \cup {"refused"})
    BY <1>2
  <2>3. TasksTyped' /\ Spaced' /\ SendsSpaced
    BY <1>1, <1>3, <2>1, <2>2, MoveIsSpaced
  <2>4. QED
    BY <1>6, <2>3 DEF CoinsInv
<1>10. QED
  BY <1>7, <1>8, <1>9

LEMMA RouteKeeps ==
  ASSUME CoinsInv, NEW r \in Requests, Coins!Call(r) \/ Coins!Answers(r)
  PROVE  CoinsInv' /\ SendsSpaced
<1>1. r \in Coins!Tasks
  BY DEF Coins!Tasks
<1>2. {"look", "done"} \subseteq Places \ (Busy \cup {"refused"})
  BY DEF Places, Busy, Coins!Waits
<1>3. /\ todo \in [Coins!Tasks -> Seq(CoinSymbols)] /\ failed \in Seq(CoinSymbols)
      /\ needs \in [Coins!Tasks -> BOOLEAN] /\ <<>> \in Seq(CoinSymbols)
  BY DEF CoinsInv, TasksTyped
<1>4. StoreTyped'
  BY DEF CoinsInv, StoreTyped, Coins!Call, Coins!Answers, Coins!storeVars
<1>5. CASE Coins!Call(r)
  <2>1. PICK ask \in Asks :
          /\ todo' = [todo EXCEPT ![r] = ask.first \o IF ask.all THEN Assets ELSE <<>>]
          /\ needs' = [needs EXCEPT ![r] = ask.first # <<>>]
    BY <1>5 DEF Coins!Call
  <2> DEFINE symbols == ask.first \o IF ask.all THEN Assets ELSE <<>>
  <2>2. symbols \in Seq(CoinSymbols)
    BY <1>3, CoinsParameters
  <2>3. needs' \in [Coins!Tasks -> BOOLEAN]
    BY <1>3, <2>1
  <2>4. todo' = [todo EXCEPT ![r] = symbols]
    BY <2>1
  <2> HIDE DEF symbols
  <2>5. TasksTyped' /\ Spaced' /\ SendsSpaced
    BY <1>1, <1>2, <1>3, <1>5, <2>2, <2>3, <2>4, MoveIsSpaced DEF Coins!Call
  <2>6. QED
    BY <1>4, <2>5 DEF CoinsInv
<1>6. CASE Coins!Answers(r)
  <2>1. todo = [todo EXCEPT ![r] = todo[r]] /\ todo[r] \in Seq(CoinSymbols)
    BY <1>1, <1>3
  <2>2. TasksTyped' /\ Spaced' /\ SendsSpaced
    BY <1>1, <1>2, <1>3, <1>6, <2>1, MoveIsSpaced DEF Coins!Answers
  <2>3. QED
    BY <1>4, <2>2 DEF CoinsInv
<1>7. QED
  BY <1>5, <1>6

\* A task that waits for an answer, or to ask again.
LEMMA RequestKeeps ==
  ASSUME CoinsInv, NEW t \in Coins!Tasks,
         Coins!Look(t) \/ Coins!Send(t) \/ Coins!GetAgain(t) \/ Coins!Found(t)
           \/ Coins!Throttled(t)
  PROVE  CoinsInv' /\ SendsSpaced
<1>1. {"fetch", "search"} = Coins!Waits
  BY DEF Coins!Waits
<1>2. /\ pc \in [Coins!Tasks -> Places] /\ wish \in [Coins!Tasks -> Coins!Waits]
      /\ (pc[t] \in Busy => todo[t] # <<>>)
      /\ age \in 0 .. Delay /\ Delay \in Nat
      /\ left \in [Coins!Tasks -> 0 .. Delay] /\ own \in [Coins!Tasks -> 0 .. Delay]
  BY CoinsParameters DEF CoinsInv, TasksTyped, Spaced
<1>3. CASE Coins!Look(t)
  <2>1. StoreTyped'
    BY <1>3 DEF CoinsInv, StoreTyped, Coins!Look, Coins!storeVars
  <2>2. todo[t] # <<>>
    BY <1>3 DEF Coins!Look
  <2>3. CASE Coins!Returned(t, TRUE) /\ UNCHANGED <<age, own, wish, left>>
    <3>1. TasksTyped' /\ Spaced' /\ SendsSpaced
      BY <2>2, <2>3, ReturnedIsSpaced
    <3>2. QED
      BY <2>1, <3>1 DEF CoinsInv
  <2>4. CASE /\ Coins!Get(t, IF Coins!Symbol(t) \in ids THEN "fetch" ELSE "search")
             /\ UNCHANGED <<todo, needs, failed, answer>>
    <3>1. (IF Coins!Symbol(t) \in ids THEN "fetch" ELSE "search") \in Coins!Waits
      BY <1>1
    <3>2. TasksTyped' /\ Spaced' /\ SendsSpaced
      BY <2>2, <2>4, <3>1, GetIsSpaced
    <3>3. QED
      BY <2>1, <3>2 DEF CoinsInv
  <2>5. QED
    BY <1>3, <2>3, <2>4 DEF Coins!Look
<1>4. CASE Coins!Send(t)
  <2>1. /\ pc[t] = "limit" /\ left[t] = 0
        /\ pc' = [pc EXCEPT ![t] = wish[t]]
        /\ age' = 0
        /\ own' = [own EXCEPT ![t] = 0]
        /\ UNCHANGED <<priced, wish, left, todo, needs, failed, answer>>
    BY <1>4 DEF Coins!Send
  <2>2. StoreTyped'
    BY <1>4 DEF CoinsInv, StoreTyped, Coins!Send, Coins!storeVars
  <2>3. own[t] >= Delay
    BY <1>2, <2>1 DEF CoinsInv, Spaced
  <2>4. wish[t] \in {"fetch", "search"}
    BY <1>1, <1>2
  <2>5. Spaced'
    BY <1>2, <2>1, <2>4 DEF CoinsInv, Spaced
  <2>6. TasksTyped'
    BY <2>1, <2>4 DEF CoinsInv, TasksTyped, Places, Busy, Coins!Waits
  <2>7. SendsSpaced
    BY <1>2, <2>1, <2>3 DEF SendsSpaced
  <2>8. QED
    BY <2>2, <2>5, <2>6, <2>7 DEF CoinsInv
<1>5. CASE Coins!GetAgain(t)
  <2>1. StoreTyped'
    BY <1>5 DEF CoinsInv, StoreTyped, Coins!GetAgain, Coins!storeVars
  <2>2. todo[t] # <<>> /\ wish[t] \in Coins!Waits
    BY <1>2, <1>5 DEF Coins!GetAgain, Busy
  <2>3. TasksTyped' /\ Spaced' /\ SendsSpaced
    BY <1>5, <2>2, GetIsSpaced DEF Coins!GetAgain
  <2>4. QED
    BY <2>1, <2>3 DEF CoinsInv
<1>6. CASE Coins!Found(t)
  <2>1. StoreTyped'
    BY <1>6 DEF CoinsInv, StoreTyped, Coins!Found
  <2>2. todo[t] # <<>> /\ "fetch" \in Coins!Waits
    BY <1>1, <1>2, <1>6 DEF Coins!Found, Busy
  <2>3. TasksTyped' /\ Spaced' /\ SendsSpaced
    BY <1>6, <2>2, GetIsSpaced DEF Coins!Found
  <2>4. QED
    BY <2>1, <2>3 DEF CoinsInv
<1>7. CASE Coins!Throttled(t)
  <2>1. /\ pc[t] \in Coins!Waits /\ pc' = [pc EXCEPT ![t] = "throttled"]
        /\ UNCHANGED <<priced, age, wish, left, todo, needs, failed, answer, own>>
    BY <1>7 DEF Coins!Throttled
  <2>2. StoreTyped'
    BY <1>7 DEF CoinsInv, StoreTyped, Coins!Throttled, Coins!storeVars
  <2>3. Spaced'
    BY <1>2, <2>1 DEF CoinsInv, Spaced
  <2>4. TasksTyped'
    BY <2>1 DEF CoinsInv, TasksTyped, Places, Busy, Coins!Waits
  <2>5. SendsSpaced
    BY <1>2, <2>1 DEF SendsSpaced, Coins!Waits
  <2>6. QED
    BY <2>2, <2>3, <2>4, <2>5 DEF CoinsInv
<1>8. QED
  BY <1>3, <1>4, <1>5, <1>6, <1>7

\* A task that is done with a symbol, its coin fetched or not.
LEMMA AnswerKeeps ==
  ASSUME CoinsInv, NEW t \in Coins!Tasks,
         Coins!NotFound(t) \/ Coins!Fetched(t) \/ Coins!Fails(t)
  PROVE  CoinsInv' /\ SendsSpaced
<1>1. todo[t] # <<>>
  BY DEF CoinsInv, TasksTyped, Busy, Coins!Waits, Coins!NotFound, Coins!Fetched, Coins!Fails
<1>2. /\ Coins!Returned(t, TRUE) \/ Coins!Returned(t, FALSE)
      /\ UNCHANGED <<wish, age, own, left>>
  BY DEF Coins!NotFound, Coins!Fetched, Coins!Fails
<1>3. TasksTyped' /\ Spaced' /\ SendsSpaced
  BY <1>1, <1>2, ReturnedIsSpaced
<1>4. StoreTyped'
  <2>1. CASE Coins!NotFound(t) \/ Coins!Fails(t)
    BY <2>1 DEF CoinsInv, StoreTyped, Coins!NotFound, Coins!Fails, Coins!storeVars
  <2>2. CASE Coins!Fetched(t)
    <3>1. /\ db' \in {db, [db EXCEPT ![Coins!Symbol(t)] = "fresh"]}
          /\ file' \in {db', Coins!Torn}
          /\ UNCHANGED <<ids, priced>>
      BY <2>2 DEF Coins!Fetched
    <3>2. Coins!Torn \in [CoinSymbols -> Known]
      BY DEF Coins!Torn, Coins!Blank, Known
    <3>3. db' \in [CoinSymbols -> Known]
      BY <3>1 DEF CoinsInv, StoreTyped, Known
    <3>4. QED
      BY <3>1, <3>2, <3>3 DEF CoinsInv, StoreTyped
  <2>3. QED
    BY <2>1, <2>2
<1>5. QED
  BY <1>3, <1>4 DEF CoinsInv

LEMMA TickKeeps == ASSUME CoinsInv, Coins!Tick PROVE CoinsInv' /\ SendsSpaced
<1> DEFINE later(n) == IF n < Delay THEN n + 1 ELSE n
<1>1. /\ age' = later(age)
      /\ own' = [t \in Coins!Tasks |-> later(own[t])]
      /\ left' = [t \in Coins!Tasks |-> IF left[t] > 0 THEN left[t] - 1 ELSE 0]
      /\ UNCHANGED <<db, file, ids, priced, pc, wish, todo, needs, failed, answer>>
  BY DEF Coins!Tick, Coins!storeVars
<1>2. Delay \in Nat /\ Spaced
  BY CoinsParameters DEF CoinsInv
<1>3. Spaced'
  BY <1>1, <1>2 DEF Spaced
<1>4. StoreTyped' /\ TasksTyped'
  BY <1>1 DEF CoinsInv, StoreTyped, TasksTyped
<1>5. SendsSpaced
  BY <1>1 DEF SendsSpaced
<1>6. QED
  BY <1>3, <1>4, <1>5 DEF CoinsInv

LEMMA CoinsRestartKeeps == ASSUME CoinsInv, Coins!Restart PROVE CoinsInv' /\ SendsSpaced
<1>1. /\ file' \in {file, Coins!Torn} /\ db' = file' /\ ids' = KnownIds /\ priced' = {}
      /\ age' = 0
      /\ pc' = [t \in Coins!Tasks |-> IF t = "init" THEN "new" ELSE "refused"]
      /\ left' = [t \in Coins!Tasks |-> 0]
      /\ todo' = [t \in Coins!Tasks |-> <<>>]
      /\ needs' = [t \in Coins!Tasks |-> FALSE]
      /\ failed' = <<>>
      /\ own' = [t \in Coins!Tasks |-> Delay]
      /\ UNCHANGED <<wish, answer>>
  BY DEF Coins!Restart
<1>2. Delay \in Nat /\ <<>> \in Seq(CoinSymbols)
  BY CoinsParameters
<1>3. StoreTyped'
  BY <1>1 DEF CoinsInv, StoreTyped, Coins!Torn, Coins!Blank, Known
<1>4. TasksTyped'
  BY <1>1, <1>2 DEF CoinsInv, TasksTyped, Places, Busy, Coins!Waits, Coins!Tasks
<1>5. Spaced'
  BY <1>1, <1>2 DEF Spaced
<1>6. SendsSpaced
  BY <1>1 DEF SendsSpaced, Coins!Waits
<1>7. QED
  BY <1>3, <1>4, <1>5, <1>6 DEF CoinsInv

LEMMA CoinsActionKeeps ==
  ASSUME CoinsInv, Coins!Next
  PROVE  CoinsInv' /\ SendsSpaced
<1>1. ASSUME NEW s \in Coins!Range(Assets), Coins!PriceArrives(s) \/ Coins!Expire(s)
      PROVE  CoinsInv' /\ SendsSpaced
  <2>1. /\ UNCHANGED <<file, ids, age, pc, wish, left, todo, needs, failed, answer, own>>
        /\ db' \in {db, [db EXCEPT ![s] = "stale"]}
        /\ priced' \in {priced, priced \cup {s}}
    BY <1>1 DEF Coins!PriceArrives, Coins!Expire, Coins!storeVars, Coins!taskVars
  <2>2. StoreTyped'
    BY <2>1 DEF CoinsInv, StoreTyped, Known
  <2>3. TasksTyped' /\ Spaced' /\ SendsSpaced
    BY <2>1 DEF CoinsInv, TasksTyped, Spaced, SendsSpaced
  <2>4. QED
    BY <2>2, <2>3 DEF CoinsInv
<1>2. ASSUME NEW t \in Coins!Tasks, Coins!Step(t) \/ Coins!Throttled(t) \/ Coins!Fails(t)
      PROVE  CoinsInv' /\ SendsSpaced
  BY <1>2, RequestKeeps, AnswerKeeps, InitializationKeeps, RouteKeeps DEF Coins!Step
<1>3. QED
  BY <1>1, <1>2, TickKeeps, CoinsRestartKeeps, RouteKeeps DEF Coins!Next

LEMMA CoinsStepKeeps ==
  ASSUME CoinsInv, [ServicesNext]_servicesVars
  PROVE  CoinsInv' /\ [SendsSpaced]_Coins!vars
<1>1. CASE UNCHANGED coinsVars
  <2>1. CoinsInv'
    BY <1>1 DEF coinsVars, CoinsInv, StoreTyped, TasksTyped, Spaced
  <2>2. UNCHANGED Coins!vars
    BY <1>1 DEF coinsVars, Coins!vars, Coins!storeVars, Coins!taskVars, Coins!boundVars
  <2>3. QED
    BY <2>1, <2>2
<1>2. CASE Coins!Next
  BY <1>2, CoinsActionKeeps
<1>3. UNCHANGED coinsVars \/ Coins!Next
  BY DEF ServicesNext, CatalogueStep, SnapshotStep, NonceStep, UploadStep, servicesVars,
         dataVars, DataNext, PricesStep, NewsStep, CoinsStep
<1>4. QED
  BY <1>1, <1>2, <1>3

\* The invariant of the coin descriptions holds in every reachable state.
THEOREM CoinsInvariance == ServicesSpec => []CoinsInv
  BY CoinsInit, CoinsStepKeeps, PTL DEF ServicesSpec

\* A task's own requests to CoinGecko are spaced, for every delay, however many other
\* tasks send requests meanwhile and whatever is throttled, fails or restarts.
THEOREM RequestsAreSpaced == ServicesSpec => OwnRequestsAreSpaced
<1>1. CoinsInv /\ [ServicesNext]_servicesVars
        => [\A t \in Coins!Tasks :
              (pc'[t] \in Coins!Waits /\ pc'[t] # pc[t]) => own[t] >= Delay]_Coins!vars
  BY CoinsStepKeeps DEF SendsSpaced
<1>2. QED
  BY <1>1, CoinsInvariance, PTL DEF ServicesSpec, OwnRequestsAreSpaced,
     Coins!OwnRequestsAreSpaced

-----------------------------------------------------------------------------
(* All data services together *)

\* The price feed behaves as in MarketFeed, whose theorems so hold here too.
THEOREM ServicesRunTheFeed == ServicesSpec => Spec
<1>1. ServicesInit => Init
  BY DEF ServicesInit, DataInit
<1>2. [ServicesNext]_servicesVars => [Next]_vars
  BY DEF ServicesNext, CatalogueStep, SnapshotStep, NonceStep, UploadStep, servicesVars,
         dataVars, DataNext, PricesStep, NewsStep, CoinsStep
<1>3. QED
  BY <1>1, <1>2, PTL DEF ServicesSpec, Spec

LEMMA NewsTypesFollow == NewsInv => News!TypeOK
<1> SUFFICES ASSUME NewsInv PROVE News!TypeOK
  OBVIOUS
<1>1. \A i \in DOMAIN log : News!Range(log[i]) \subseteq News!Items
  <2>1. TAKE i \in DOMAIN log
  <2>2. log[i] \in Seq(News!Items)
    BY DEF NewsInv, NewsTyped
  <2>3. QED
    BY <2>2, SeqOfItsRange
<1>2. \A c \in NewsClients :
         News!Range(queue[c]) \cup got[c] \cup dropped[c] \subseteq DOMAIN log
  <2>1. TAKE c \in NewsClients
  <2>2. /\ joined[c] \in 0 .. Len(log) /\ Len(log) \in Nat /\ DOMAIN log = 1 .. Len(log)
        /\ News!Range(queue[c]) \cup got[c] \cup dropped[c] \subseteq joined[c] + 1 .. Len(log)
    BY DEF NewsInv, NewsTyped, NewsReached, Reached
  <2>3. joined[c] + 1 .. Len(log) \subseteq 1 .. Len(log)
    BY <2>2
  <2>4. QED
    BY <2>2, <2>3
<1>3. QED
  BY <1>1, <1>2 DEF NewsInv, NewsTyped, NewsMarked, News!TypeOK

LEMMA CoinsTypesFollow == CoinsInv => Coins!TypeOK
<1> SUFFICES ASSUME CoinsInv PROVE Coins!TypeOK
  OBVIOUS
<1>1. \A seq \in Seq(CoinSymbols) : Coins!Range(seq) \subseteq CoinSymbols
  BY DEF Coins!Range
<1>2. \A t \in Coins!Tasks : todo[t] \in Seq(CoinSymbols) /\ answer[t] \in Seq(CoinSymbols)
  BY DEF CoinsInv, TasksTyped
<1>3. /\ \A t \in Coins!Tasks : Coins!Range(todo[t]) \cup Coins!Range(answer[t])
                                   \subseteq CoinSymbols
      /\ Coins!Range(failed) \subseteq CoinSymbols
  BY <1>1, <1>2 DEF CoinsInv, TasksTyped
<1>4. StoreTyped /\ TasksTyped /\ Spaced
  BY DEF CoinsInv
<1>5. QED
  BY <1>3, <1>4 DEF StoreTyped, TasksTyped, Spaced, Known, Places, Coins!TypeOK

\* Every variable of the three data services has its type.
THEOREM ServicesTypeCorrectness == ServicesSpec => []TypesOK
<1>1. NewsInv /\ CoinsInv /\ TypeOK => TypesOK
  BY NewsTypesFollow, CoinsTypesFollow DEF TypesOK
<1>2. QED
  BY <1>1, NewsInvariance, CoinsInvariance, ServicesRunTheFeed, FeedTypeCorrectness, PTL

=============================================================================

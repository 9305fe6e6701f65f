-------------------------------- MODULE Services --------------------------------
(***************************************************************************)
(* The data services of DataServices and four stores of the process, the   *)
(* model catalogue, the on-chain registry snapshot, the sign-in nonces and *)
(* the uploads.  They share no state: a behaviour is of the data services  *)
(* or of the one store it is about.                                        *)
(***************************************************************************)
EXTENDS DataServices

\* What the stores are instantiated with.
CONSTANTS
    Models, Offers, Calls, MaxMoves, CatalogueFaults, CatalogueRestarts,
    Readers, Ttl, MaxTime,
    Nonces, Wallets, NonceFaults, NonceRestarts,
    Files, UploadFaults, UploadRestarts

VARIABLES offer, memory, data, stamp, models, call, fetched, bill, cleared, moves
catalogueVars == <<offer, memory, data, stamp, models, call, fetched, bill, cleared, moves>>

VARIABLES time, cache, expires, reader
snapshotVars == <<time, cache, expires, reader>>

VARIABLES records, recordsFile, made, tokens
nonceVars == <<records, recordsFile, made, tokens>>

VARIABLES upload, disk, index, saved, excused
uploadVars == <<upload, disk, index, saved, excused>>

VARIABLES expired, writes, starts  \* each store's `expired`, `faults` and `restarts`
storeVars == <<expired, writes, starts>>

VARIABLE store  \* the store this behaviour is about, or "none"

Catalogue == INSTANCE ModelCatalogue
    WITH MaxFaults <- CatalogueFaults, MaxRestarts <- CatalogueRestarts,
         file <- models, faults <- writes, restarts <- starts

Snapshot == INSTANCE RegistrySnapshot

Wallet == INSTANCE WalletAuth
    WITH MaxFaults <- NonceFaults, MaxRestarts <- NonceRestarts,
         disk <- recordsFile, faults <- writes, restarts <- starts

Attachments == INSTANCE Uploads
    WITH MaxFaults <- UploadFaults, MaxRestarts <- UploadRestarts,
         faults <- writes, restarts <- starts

ASSUME StoreParametersAssumption ==
    Catalogue!Parameters /\ Snapshot!Parameters /\ Wallet!Parameters /\ Attachments!Parameters

-----------------------------------------------------------------------------

servicesVars == <<dataVars, catalogueVars, snapshotVars, nonceVars, uploadVars,
                  storeVars, store>>

\* The services and stores that do not run keep one initial state.
ServicesInit ==
    /\ store \in {"none", "catalogue", "snapshot", "nonces", "uploads"}
    /\ DataInit /\ (store # "none" => part = "prices")
    /\ Catalogue!Init /\ Snapshot!Init /\ Wallet!Init /\ Attachments!Init
    /\ store # "catalogue" => data = Catalogue!Empty /\ offer = CHOOSE o \in Offers : TRUE

CatalogueStep(A) ==
    store = "catalogue" /\ A
    /\ UNCHANGED <<dataVars, snapshotVars, nonceVars, uploadVars, expired, store>>
SnapshotStep(A) ==
    store = "snapshot" /\ A
    /\ UNCHANGED <<dataVars, catalogueVars, nonceVars, uploadVars, storeVars, store>>
NonceStep(A) ==
    store = "nonces" /\ A
    /\ UNCHANGED <<dataVars, catalogueVars, snapshotVars, uploadVars, store>>
UploadStep(A) ==
    store = "uploads" /\ A
    /\ UNCHANGED <<dataVars, catalogueVars, snapshotVars, nonceVars, store>>

ServicesNext ==
    \/ /\ store = "none" /\ DataNext
       /\ UNCHANGED <<catalogueVars, snapshotVars, nonceVars, uploadVars, storeVars, store>>
    \/ CatalogueStep(Catalogue!Next) \/ SnapshotStep(Snapshot!Next)
    \/ NonceStep(Wallet!Next) \/ UploadStep(Attachments!Next)

ServicesSpec == ServicesInit /\ [][ServicesNext]_servicesVars /\ DataFairness

-----------------------------------------------------------------------------
(* The properties of the stores, where they are explained *)

\* The usage of a listed model is charged at its listed price.
ListedPricesAreCharged == Catalogue!ListedPricesAreCharged

\* No answer shows the registry as it was longer ago than the cache lives.
SnapshotsAreRecent == Snapshot!SnapshotsAreRecent

\* No nonce is good for two tokens.
NoncesSignInOnce == Wallet!NoncesSignInOnce

\* Only failed writes leave files nothing can delete.
UploadsAreNotStranded == Attachments!UploadsAreNotStranded

=============================================================================

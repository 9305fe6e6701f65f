-------------------------------- MODULE Uploads --------------------------------
(***************************************************************************)
(* The temporary attachments of a chat (src/agents/uploads/manager.py and  *)
(* its routes): files in a directory, an index of them in memory, and the  *)
(* index's own file.  A file is written before its record and unlinked     *)
(* before its record goes, and any of the writes may fail.                 *)
(***************************************************************************)
EXTENDS Naturals, FiniteSets

CONSTANTS
    Files,
    MaxFaults,      \* bound: writes and unlinks that fail
    MaxRestarts     \* bound

Parameters == MaxFaults \in Nat /\ MaxRestarts \in Nat

VARIABLES
    upload,     \* per file: "new", "reading" its contents, "kept" or "refused"
    disk,       \* files in storage_dir
    index,      \* _index
    saved,      \* index.json
    expired,    \* files whose record has expired
    excused,    \* ghost: files that a failed write or save may lose sight of
    faults, restarts

vars == <<upload, disk, index, saved, expired, excused, faults, restarts>>

Init ==
    /\ upload = [f \in Files |-> "new"]
    /\ disk = {} /\ index = {} /\ saved = {} /\ expired = {}
    /\ excused = {}
    /\ faults = 0 /\ restarts = 0

-----------------------------------------------------------------------------
(* The store *)

\* What is left of files and index: a call computes it and then, maybe, saves the index.
Left(d, i) == disk' = d /\ index' = i

\* _save_index: raises when index.json cannot be opened or, torn, written.  A record that
\* is then missing in the file is lost at a restart, its file with it.
SaveIndex(i) ==
    \/ saved' = i /\ UNCHANGED <<faults, excused>>
    \/ /\ faults < MaxFaults /\ faults' = faults + 1
       /\ saved' \in {saved, {}}
       /\ excused' = excused \cup (i \ saved')

Unsaved == UNCHANGED <<saved, excused>>

MutAfterFailure(f) == index \ {f}

\* What the index holds when f cannot be unlinked: _delete_record unlinks before it pops.
AfterFailure(f) == index

\* _delete_record of every file of E, then _save_index; an unlink that raises ends it, and
\* the records gone before it are not saved.
DeleteRecords(E) ==
    \/ Left(disk \ E, index \ E) /\ SaveIndex(index \ E)
    \/ \E f \in E \cap disk : \E gone \in SUBSET (E \ {f}) :
          /\ faults < MaxFaults /\ faults' = faults + 1
          /\ Left(disk \ gone, AfterFailure(f) \ gone) /\ Unsaved

-----------------------------------------------------------------------------
(* The routes *)

\* POST /agent/uploads, to the await of the contents: cleanup_expired, then the type.
BeginUpload(f) ==
    LET old == index \cap expired IN
    /\ upload[f] = "new"
    /\ \/ old = {} /\ Left(disk, index) /\ Unsaved /\ UNCHANGED faults
       \/ old # {} /\ DeleteRecords(old)
    /\ \/ upload' = [upload EXCEPT ![f] = "refused"]  \* the type, or the clean-up raised
       \/ faults' = faults /\ upload' = [upload EXCEPT ![f] = "reading"]
    /\ UNCHANGED <<expired, restarts>>

\* The contents are there: empty or too large, or written, recorded and saved.
StoreUpload(f) ==
    /\ upload[f] = "reading"
    /\ \/ /\ upload' = [upload EXCEPT ![f] = "refused"]
          /\ Left(disk, index) /\ Unsaved /\ UNCHANGED faults
       \/ /\ upload' = [upload EXCEPT ![f] = "refused"]
          /\ faults < MaxFaults /\ faults' = faults + 1  \* write_bytes raises midway
          /\ Left(disk \cup {f}, index)
          /\ excused' = excused \cup {f} /\ UNCHANGED saved
       \/ /\ upload' = [upload EXCEPT ![f] = "kept"]
          /\ Left(disk \cup {f}, index \cup {f}) /\ SaveIndex(index \cup {f})
    /\ UNCHANGED <<expired, restarts>>

\* DELETE /agent/uploads/{file_id}
DeleteUpload(f) ==
    /\ f \in index
    /\ DeleteRecords({f})
    /\ UNCHANGED <<upload, expired, restarts>>

\* A chat's attachment is resolved before its turn: get_record drops a record that is
\* expired or has no file.  (The turn reads the file after further awaits, from its path.)
Resolve(f) ==
    /\ f \in index
    /\ \/ f \in expired /\ DeleteRecords({f})
       \/ /\ f \notin expired /\ f \notin disk
          /\ Left(disk, index \ {f}) /\ SaveIndex(index \ {f})
    /\ UNCHANGED <<upload, expired, restarts>>

Expire(f) ==
    /\ f \in (index \cup saved) \ expired /\ expired' = expired \cup {f}
    /\ UNCHANGED <<upload, disk, index, saved, excused, faults, restarts>>

\* A crash and a restart, between two steps or, after a failed write, in the middle of one.
Restart ==
    /\ restarts < MaxRestarts /\ restarts' = restarts + 1
    /\ index' = saved
    /\ upload' = [f \in Files |-> IF upload[f] = "reading" THEN "refused" ELSE upload[f]]
    /\ UNCHANGED <<disk, saved, expired, excused, faults>>

Next ==
    \/ \E f \in Files :
          BeginUpload(f) \/ StoreUpload(f) \/ DeleteUpload(f) \/ Resolve(f) \/ Expire(f)
    \/ Restart

-----------------------------------------------------------------------------
(* Properties *)

\* Only the index knows what may be deleted: a file it does not name stays for ever.  Such
\* a file is one whose own write or a save of whose record failed; no unlink that fails, no
\* clean-up that stops half way, no restart and no deletion strands another.
UploadsAreNotStranded == disk \ index \subseteq excused

=============================================================================

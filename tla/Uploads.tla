------------------------------ MODULE Uploads --------------------------------
(***************************************************************************)
(* Resumable uploads (services/upload/upload.go, store.go): a row with the *)
(* committed offset in SQLite, a staging file, and a mutex per upload that *)
(* Patch and Sweep take and Delete does not.  Requests, the sweeper and a  *)
(* crash interleave at every statement and file operation.                 *)
(*                                                                         *)
(* A staging file is the sequence of the source's byte positions: it is    *)
(* right when it is 1, 2, ..., Length.  Ids are ULIDs and never come back. *)
(* All uploads have one owner and one length.                              *)
(***************************************************************************)
EXTENDS Integers, Sequences, FiniteSetsExt

CONSTANTS
  Uploads,       \* ids
  Length,        \* declared size
  Hashed,        \* uploads whose whole-file SHA-256 was declared
  MaxIncomplete, \* MaxIncompletePerOwner
  Clients,       \* bound: requests under way
  MaxPatches,    \* bound: PATCH requests ever begun
  UploadFaults   \* the failures of a run: "body", "crash", "sink"

ASSUME UploadConstants ==
  /\ Length \in Nat
  /\ Hashed \subseteq Uploads
  /\ MaxIncomplete \in Nat \ {0}
  /\ MaxPatches \in Nat

VARIABLES
  row,      \* resumable_uploads: state, committed offset
  staged,   \* staging files
  lockGen,  \* Manager.locks: which mutex an id maps to, counting replacements
  stale,    \* updated_at is older than the TTL
  client,   \* requests under way
  patches,  \* how many PATCHes have begun
  sweep,    \* SweepLoop: the id it is at, with its mutex
  promoted  \* history: what Sink.Store has been given for each upload

uploadVars == <<row, staged, lockGen, stale, client, patches, sweep, promoted>>

NoFile  == [exists |-> FALSE, bytes |-> <<>>]
NoRow   == [state |-> "none", offset |-> 0]
Resting == [pc |-> "idle", up |-> "", gen |-> 0, offset |-> 0, open |-> <<>>]

UploadInit ==
  /\ row = [u \in Uploads |-> NoRow]
  /\ staged = [u \in Uploads |-> NoFile]
  /\ lockGen = [u \in Uploads |-> 0]
  /\ stale = [u \in Uploads |-> FALSE]
  /\ client = [c \in Clients |-> Resting]
  /\ patches = 0
  /\ sweep = Resting
  /\ promoted = [u \in Uploads |-> {}]

Incomplete == {u \in Uploads : row[u].state = "open"}
Known(u)   == row[u].state \in {"open", "complete"}

Goes(c, r) == client' = [client EXCEPT ![c] = r]
Ends(c)    == Goes(c, Resting)

\* Who is inside the section that the mutexes of u guard.
Inside == {"get", "append", "offset", "finalize", "sink", "complete", "remove"}
Holds(r, u, g) == r.pc \in Inside \cup {"recheck", "expire"} /\ r.up = u /\ r.gen = g
Free(u, g) == ~Holds(sweep, u, g) /\ \A c \in Clients : ~Holds(client[c], u, g)
-----------------------------------------------------------------------------
(* Create: the cap is looked up, then the file and the row are made        *)

CreateCheck(c, u) ==
  /\ client[c].pc = "idle"
  /\ row[u].state = "none"
  /\ ~staged[u].exists
  /\ \A d \in Clients : client[d].up # u
  /\ Cardinality(Incomplete) < MaxIncomplete
  /\ Goes(c, [Resting EXCEPT !.pc = "create", !.up = u])
  /\ UNCHANGED <<row, staged, lockGen, stale, patches, sweep, promoted>>

CreateFile(c) ==
  /\ client[c].pc = "create"
  /\ staged' = [staged EXCEPT ![client[c].up] = [exists |-> TRUE, bytes |-> <<>>]]
  /\ Goes(c, [client[c] EXCEPT !.pc = "insert"])
  /\ UNCHANGED <<row, lockGen, stale, patches, sweep, promoted>>

CreateRow(c) ==
  /\ client[c].pc = "insert"
  /\ row' = [row EXCEPT ![client[c].up] = [state |-> "open", offset |-> 0]]
  /\ Ends(c)
  /\ UNCHANGED <<staged, lockGen, stale, patches, sweep, promoted>>
-----------------------------------------------------------------------------
(* Patch                                                                   *)

\* lockFor: the mutex the map has for the id at this moment.
PatchBegin(c, u) ==
  /\ client[c].pc = "idle"
  /\ row[u].state # "none"
  /\ patches < MaxPatches
  /\ patches' = patches + 1
  /\ Goes(c, [Resting EXCEPT !.pc = "lock", !.up = u, !.gen = lockGen[u]])
  /\ UNCHANGED <<row, staged, lockGen, stale, sweep, promoted>>

\* Fault: the section is entered without waiting.
MayEnter_Always(u, g) == TRUE

MayEnter(u, g) == Free(u, g)

PatchLock(c) ==
  /\ client[c].pc = "lock"
  /\ MayEnter(client[c].up, client[c].gen)
  /\ Goes(c, [client[c] EXCEPT !.pc = "get"])
  /\ UNCHANGED <<row, staged, lockGen, stale, patches, sweep, promoted>>

\* The row must be there and open; the client's offset is the committed one,
\* else ErrOffsetConflict ends the request.
PatchGet(c) ==
  LET u == client[c].up IN
  /\ client[c].pc = "get"
  /\ \/ Ends(c)
     \/ /\ row[u].state = "open"
        /\ Goes(c, [client[c] EXCEPT !.pc = "append", !.offset = row[u].offset])
  /\ UNCHANGED <<row, staged, lockGen, stale, patches, sweep, promoted>>

\* OpenFile without O_CREATE.
StagingOpens(u) == staged[u].exists

Fits(off, n) == n <= Length - off

\* n bytes of the source from the committed offset on.
Chunk(offset, n) == [i \in 1..n |-> offset + i]

\* appendChunk: the body is appended and synced.
PatchAppend(c, n) ==
  LET u == client[c].up  off == client[c].offset IN
  /\ client[c].pc = "append"
  /\ StagingOpens(u)
  /\ Fits(off, n)
  /\ staged' = [staged EXCEPT ![u] = [exists |-> TRUE, bytes |-> @.bytes \o Chunk(off, n)]]
  /\ Goes(c, [client[c] EXCEPT !.pc = "offset", !.offset = off + n])
  /\ UNCHANGED <<row, lockGen, stale, patches, sweep, promoted>>

\* The body breaks off after n bytes, or is too long and n is all that fits:
\* what was appended stays up to the offset plus n, and the request fails.
PatchAppendBreaks(c, n) ==
  LET u == client[c].up  off == client[c].offset IN
  /\ "body" \in UploadFaults
  /\ client[c].pc = "append"
  /\ StagingOpens(u)
  /\ Fits(off, n)
  /\ staged' = [staged EXCEPT ![u] = [exists |-> TRUE, bytes |-> SubSeq(@.bytes \o Chunk(off, n), 1, off + n)]]
  /\ Ends(c)
  /\ UNCHANGED <<row, lockGen, stale, patches, sweep, promoted>>

\* The staging file is gone, or the chunk's checksum does not match.
PatchAppendRefused(c) ==
  /\ client[c].pc = "append"
  /\ Ends(c)
  /\ UNCHANGED <<row, staged, lockGen, stale, patches, sweep, promoted>>

\* setOffset: an UPDATE, without effect when the row is gone.
PatchOffset(c) ==
  LET u == client[c].up IN
  /\ client[c].pc = "offset"
  /\ row' = [row EXCEPT ![u].offset = IF Known(u) THEN client[c].offset ELSE @]
  /\ stale' = [stale EXCEPT ![u] = FALSE]
  /\ IF client[c].offset >= Length THEN Goes(c, [client[c] EXCEPT !.pc = "finalize"])
                                   ELSE Ends(c)
  /\ UNCHANGED <<staged, lockGen, patches, sweep, promoted>>

Source == Chunk(0, Length)

\* Fault: the declared hash is not compared.
HashAccepts_Always(u) == TRUE

\* finalize compares the hash of the whole staging file, if one was declared.
HashAccepts(u) == u \in Hashed => staged[u].bytes = Source

FinalizeOpen(c) ==
  LET u == client[c].up IN
  /\ client[c].pc = "finalize"
  /\ IF staged[u].exists /\ HashAccepts(u)
     THEN Goes(c, [client[c] EXCEPT !.pc = "sink", !.open = staged[u].bytes])
     ELSE Ends(c)
  /\ UNCHANGED <<row, staged, lockGen, stale, patches, sweep, promoted>>

\* Sink.Store gets the open file, which a Delete may have unlinked, and the
\* declared length; see Drive.
FinalizeStore(c) ==
  LET b == client[c].open IN
  /\ client[c].pc = "sink"
  /\ promoted' = [promoted EXCEPT ![client[c].up] = @ \cup
       {SubSeq(b, 1, Min({Len(b), Length}))}]
  /\ Goes(c, [client[c] EXCEPT !.pc = "complete", !.open = <<>>])
  /\ UNCHANGED <<row, staged, lockGen, stale, patches, sweep>>

FinalizeStoreFails(c) ==
  /\ "sink" \in UploadFaults
  /\ client[c].pc = "sink"
  /\ Ends(c)
  /\ UNCHANGED <<row, staged, lockGen, stale, patches, sweep, promoted>>

FinalizeComplete(c) ==
  LET u == client[c].up IN
  /\ client[c].pc = "complete"
  /\ row' = [row EXCEPT ![u].state = IF Known(u) THEN "complete" ELSE @]
  /\ stale' = [stale EXCEPT ![u] = FALSE]
  /\ Goes(c, [client[c] EXCEPT !.pc = "remove"])
  /\ UNCHANGED <<staged, lockGen, patches, sweep, promoted>>

FinalizeRemove(c) ==
  /\ client[c].pc = "remove"
  /\ staged' = [staged EXCEPT ![client[c].up] = NoFile]
  /\ Ends(c)
  /\ UNCHANGED <<row, lockGen, stale, patches, sweep, promoted>>
-----------------------------------------------------------------------------
(* Delete and Sweep: deleteInternal removes the file, the row, the mutex   *)

DeleteFile(c, u) ==
  /\ client[c].pc = "idle"
  /\ Known(u)
  /\ staged' = [staged EXCEPT ![u] = NoFile]
  /\ Goes(c, [Resting EXCEPT !.pc = "delete", !.up = u])
  /\ UNCHANGED <<row, lockGen, stale, patches, sweep, promoted>>

DeleteRow(c) ==
  LET u == client[c].up IN
  /\ client[c].pc = "delete"
  /\ row' = [row EXCEPT ![u] = [state |-> "gone", offset |-> 0]]
  /\ Goes(c, [client[c] EXCEPT !.pc = "unmap"])
  /\ UNCHANGED <<staged, lockGen, stale, patches, sweep, promoted>>

DeleteLock(c) ==
  /\ client[c].pc = "unmap"
  /\ lockGen' = [lockGen EXCEPT ![client[c].up] = @ + 1]
  /\ Ends(c)
  /\ UNCHANGED <<row, staged, stale, patches, sweep, promoted>>

\* Time passes.
Age(u) ==
  /\ Known(u)
  /\ ~stale[u]
  /\ stale' = [stale EXCEPT ![u] = TRUE]
  /\ UNCHANGED <<row, staged, lockGen, client, patches, sweep, promoted>>

\* staleIDs, then the mutex of the next id.
SweepPick(u) ==
  /\ sweep.pc = "idle"
  /\ Known(u)
  /\ stale[u]
  /\ sweep' = [Resting EXCEPT !.pc = "lock", !.up = u, !.gen = lockGen[u]]
  /\ UNCHANGED <<row, staged, lockGen, stale, client, patches, promoted>>

SweepLock ==
  /\ sweep.pc = "lock"
  /\ Free(sweep.up, sweep.gen)
  /\ sweep' = [sweep EXCEPT !.pc = "recheck"]
  /\ UNCHANGED <<row, staged, lockGen, stale, client, patches, promoted>>

StillStale(u) == Known(u) /\ stale[u]

SweepRecheck ==
  /\ sweep.pc = "recheck"
  /\ sweep' = IF StillStale(sweep.up) THEN [sweep EXCEPT !.pc = "expire"] ELSE Resting
  /\ UNCHANGED <<row, staged, lockGen, stale, client, patches, promoted>>

\* deleteInternal under the mutex; only unlocked Deletes can see its middle.
SweepExpire ==
  LET u == sweep.up IN
  /\ sweep.pc = "expire"
  /\ staged' = [staged EXCEPT ![u] = NoFile]
  /\ row' = [row EXCEPT ![u] = [state |-> "gone", offset |-> 0]]
  /\ lockGen' = [lockGen EXCEPT ![u] = @ + 1]
  /\ sweep' = Resting
  /\ UNCHANGED <<stale, client, patches, promoted>>

\* The process dies: requests, the sweep and the map of mutexes are gone.
UploadCrash ==
  /\ "crash" \in UploadFaults
  /\ \E c \in Clients : client[c] # Resting
  /\ client' = [c \in Clients |-> Resting]
  /\ sweep' = Resting
  /\ lockGen' = [u \in Uploads |-> 0]
  /\ UNCHANGED <<row, staged, stale, patches, promoted>>

UploadNext ==
  \/ \E c \in Clients :
       \/ \E u \in Uploads : CreateCheck(c, u) \/ PatchBegin(c, u) \/ DeleteFile(c, u)
       \/ \E n \in 0..Length : PatchAppend(c, n) \/ PatchAppendBreaks(c, n)
       \/ CreateFile(c)
       \/ CreateRow(c)
       \/ PatchLock(c)
       \/ PatchGet(c)
       \/ PatchAppendRefused(c)
       \/ PatchOffset(c)
       \/ FinalizeOpen(c)
       \/ FinalizeStore(c)
       \/ FinalizeStoreFails(c)
       \/ FinalizeComplete(c)
       \/ FinalizeRemove(c)
       \/ DeleteRow(c)
       \/ DeleteLock(c)
  \/ \E u \in Uploads : Age(u) \/ SweepPick(u)
  \/ SweepLock
  \/ SweepRecheck
  \/ SweepExpire
  \/ UploadCrash

UploadSpec == UploadInit /\ [][UploadNext]_uploadVars
-----------------------------------------------------------------------------
\* Types; the committed offset stays within the declared length.
UploadTypeOK ==
  /\ \A u \in Uploads :
       /\ row[u].state \in {"none", "open", "complete", "gone"}
       /\ row[u].offset \in 0..Length
       /\ staged[u].exists \in BOOLEAN
       /\ staged[u].bytes \in Seq(1..Length)
       /\ lockGen[u] \in Nat
       /\ stale[u] \in BOOLEAN
  /\ patches \in 0..MaxPatches
  /\ sweep.pc \in {"idle", "lock", "recheck", "expire"}

\* A request that has found its upload open under the mutex and works on it.
Working(c, u) == client[c].pc \in Inside \ {"get"} /\ client[c].up = u

\* One request at a time works on an upload, and the sweeper, which "never races
\* an in-flight PATCH", removes none that a request works on: although
\* deleteInternal drops the mutex from the map while others hold it or wait for it.
OneAtATime ==
  \A u \in Uploads, c \in Clients :
    Working(c, u) =>
      /\ \A d \in Clients : Working(d, u) => c = d
      /\ ~(sweep.pc = "expire" /\ sweep.up = u)

\* With a declared hash the Drive only ever gets the file the client has,
\* whatever broke off, crashed or was retried on the way.
HashedArrivesWhole ==
  \A u \in Hashed : promoted[u] \subseteq {Source}

\* An upload is promoted before it is complete, and a complete one keeps
\* answering so until it is deleted.
CompleteIsPromoted ==
  \A u \in Uploads : row[u].state = "complete" => promoted[u] # {}

\* Staged bytes never outlive their row: the sweeper finds them by it.
NoOrphanedBytes ==
  \A u \in Uploads : staged[u].bytes # <<>> => Known(u)

\* upload.go: "the staging length always equals the committed offset".
StagingMatchesOffset ==
  \A u \in Uploads :
    row[u].state = "open" /\ staged[u].exists /\ (\A c \in Clients : client[c].up # u) =>
      Len(staged[u].bytes) = row[u].offset
=============================================================================

------------------------------ MODULE FileSync ------------------------------
(***************************************************************************)
(* The file syncer of services/sync: every node watches its data directory *)
(* and uploads what changes, and pulls the bucket on a timer.  The module  *)
(* follows one path of the bucket.  An object is two keys, the file and    *)
(* its .meta sidecar, written by two PUTs and read by two GETs; the        *)
(* watcher goroutine and the pull goroutine of a node interleave, and so   *)
(* do the nodes and the applications that edit the file.                   *)
(*                                                                         *)
(* Contents are the numbers 1..MaxEdits, the edits in the order in which   *)
(* they are made: the hash of a content is the content.  A pull's own      *)
(* write is a write like any other to fsnotify, so it is uploaded again    *)
(* under the puller's name.                                                *)
(***************************************************************************)
EXTENDS Integers, Functions

CONSTANTS
  FileNodes,   \* the boxes that share the bucket
  MaxEdits,    \* bound: application writes
  MaxUploads   \* bound: sidecars written, which also numbers their timestamps

None == 0

VARIABLES
  file,      \* file[n]: the file on node n's disk, or None
  lastHash,  \* lastHash[n]: the content node n holds to be in step, or None
  event,     \* event[n]: the kinds of fsnotify events waiting for the path
  object,    \* the bucket's files/<path>
  sidecar,   \* the bucket's files/<path>.meta: {} or one sidecar
  upload,    \* upload[n]: the upload under way: {} or [at, data]
  pull,      \* pull[n]: the pull under way: {} or [at, meta, data, local]
  copies,    \* copies[n]: the conflict copies, by the name they are saved under
  edits,     \* application writes so far
  replaced   \* the contents an application itself wrote over or removed

fileVars == <<file, lastHash, event, object, sidecar, upload, pull, copies, edits, replaced>>

FileInit ==
  /\ file = [n \in FileNodes |-> None]
  /\ lastHash = [n \in FileNodes |-> None]
  /\ event = [n \in FileNodes |-> {}]
  /\ object = None
  /\ sidecar = {}
  /\ upload = [n \in FileNodes |-> {}]
  /\ pull = [n \in FileNodes |-> {}]
  /\ copies = [n \in FileNodes |-> <<>>]
  /\ edits = 0
  /\ replaced = {None}

-----------------------------------------------------------------------------
(* The applications. *)

Edit(n) ==
  /\ edits < MaxEdits
  /\ edits' = edits + 1
  /\ file' = [file EXCEPT ![n] = edits + 1]
  /\ replaced' = replaced \union {file[n]}
  /\ event' = [event EXCEPT ![n] = @ \union {"write"}]
  /\ UNCHANGED <<lastHash, object, sidecar, upload, pull, copies>>

Remove(n) ==
  /\ file[n] # None
  /\ file' = [file EXCEPT ![n] = None]
  /\ replaced' = replaced \union {file[n]}
  /\ event' = [event EXCEPT ![n] = @ \union {"remove"}]
  /\ UNCHANGED <<lastHash, object, sidecar, upload, pull, copies, edits>>

-----------------------------------------------------------------------------
(* The watcher goroutine: one event at a time, an upload that fails is     *)
(* logged and not tried again.  A removal uploads nothing; its hash is     *)
(* forgotten.                                                              *)

HandleRemove(n) ==
  /\ "remove" \in event[n] /\ upload[n] = {}
  /\ event' = [event EXCEPT ![n] = @ \ {"remove"}]
  /\ lastHash' = [lastHash EXCEPT ![n] = None]
  /\ UNCHANGED <<file, object, sidecar, upload, pull, copies, edits, replaced>>

HandleEvent(n) ==
  /\ "write" \in event[n] /\ upload[n] = {}
  /\ event' = [event EXCEPT ![n] = @ \ {"write"}]
  /\ upload' = [upload EXCEPT ![n] = IF file[n] = None THEN {}
                                     ELSE {[at |-> "read", data |-> file[n]]}]
  /\ UNCHANGED <<file, lastHash, object, sidecar, pull, copies, edits, replaced>>

PutFile(n) == \E u \in upload[n] :
  /\ u.at = "read"
  /\ object' = u.data
  /\ upload' = [upload EXCEPT ![n] = {[u EXCEPT !.at = "put"]}]
  /\ UNCHANGED <<file, lastHash, event, sidecar, pull, copies, edits, replaced>>

NextStamp == IF sidecar = {} THEN 1 ELSE (CHOOSE s \in sidecar : TRUE).ts + 1

PutMeta(n) == \E u \in upload[n] :
  /\ u.at = "put"
  /\ NextStamp <= MaxUploads
  /\ sidecar' = {[node |-> n, ts |-> NextStamp, hash |-> u.data]}
  /\ upload' = [upload EXCEPT ![n] = {}]
  /\ lastHash' = [lastHash EXCEPT ![n] = u.data]
  /\ UNCHANGED <<file, event, object, pull, copies, edits, replaced>>

UploadFails(n) ==
  /\ upload[n] # {}
  /\ upload' = [upload EXCEPT ![n] = {}]
  /\ UNCHANGED <<file, lastHash, event, object, sidecar, pull, copies, edits, replaced>>

-----------------------------------------------------------------------------
(* The pull goroutine: sidecar, file, local file, then the writes. *)

GetMeta(n) == \E s \in sidecar :
  /\ pull[n] = {}
  /\ s.node # n                       \* skips what this node uploaded
  /\ pull' = [pull EXCEPT ![n] = {[at |-> "meta", meta |-> s, data |-> None, local |-> None]}]
  /\ UNCHANGED <<file, lastHash, event, object, sidecar, upload, copies, edits, replaced>>

GetFile(n) == \E p \in pull[n] :
  /\ p.at = "meta"
  /\ pull' = [pull EXCEPT ![n] = {[p EXCEPT !.at = "data", !.data = object]}]
  /\ UNCHANGED <<file, lastHash, event, object, sidecar, upload, copies, edits, replaced>>

NeedsConflict(local, meta, known) ==
  /\ local # None
  /\ local # meta.hash
  /\ local # known

(* conflictCopyPath: the name holds the sidecar's node and second, so two  *)
(* conflicts with one sidecar share a name.                                *)
CopyName(meta) == <<meta.node, meta.ts>>

DecideConflict(n) == \E p \in pull[n] :
  /\ p.at = "data"
  /\ copies' = IF NeedsConflict(file[n], p.meta, lastHash[n])
               THEN [copies EXCEPT ![n] = [x \in DOMAIN @ \union {CopyName(p.meta)} |->
                                             IF x = CopyName(p.meta) THEN file[n] ELSE @[x]]]
               ELSE copies
  /\ pull' = [pull EXCEPT ![n] = {[p EXCEPT !.at = "write", !.local = file[n]]}]
  /\ UNCHANGED <<file, lastHash, event, object, sidecar, upload, edits, replaced>>

WriteCanonical(n) == \E p \in pull[n] :
  /\ p.at = "write"
  /\ file' = [file EXCEPT ![n] = p.data]
  /\ lastHash' = [lastHash EXCEPT ![n] = p.meta.hash]
  /\ event' = [event EXCEPT ![n] = @ \union {"write"}]
  /\ pull' = [pull EXCEPT ![n] = {}]
  /\ UNCHANGED <<object, sidecar, upload, copies, edits, replaced>>

PullFails(n) ==
  /\ pull[n] # {}
  /\ pull' = [pull EXCEPT ![n] = {}]
  /\ UNCHANGED <<file, lastHash, event, object, sidecar, upload, copies, edits, replaced>>

-----------------------------------------------------------------------------
FileNext == \E n \in FileNodes :
  \/ Edit(n) \/ Remove(n)
  \/ HandleRemove(n) \/ HandleEvent(n) \/ PutFile(n) \/ PutMeta(n) \/ UploadFails(n)
  \/ GetMeta(n) \/ GetFile(n) \/ DecideConflict(n) \/ WriteCanonical(n) \/ PullFails(n)

FileSpec == FileInit /\ [][FileNext]_fileVars

-----------------------------------------------------------------------------
(* Where the content of an edit can still be found. *)
Held == Range(file) \union {object} \union UNION {Range(copies[n]) : n \in FileNodes}
        \union UNION {{u.data : u \in upload[n]} \union {p.data : p \in pull[n]} : n \in FileNodes}

(* What the comment in Start promises of Pull, that it "writes a           *)
(* .conflict-<node>-<ts> copy before letting a remote version win, so a    *)
(* local edit is never silently destroyed": an edit that no application    *)
(* itself replaced or removed is still in a file, in the bucket or in a    *)
(* conflict copy.                                                          *)
LocalEditSurvives == 1..edits \subseteq Held \union replaced
=============================================================================

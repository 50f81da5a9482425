------------------------------ MODULE Ingestion ------------------------------
(***************************************************************************)
(* Uploads of documents (application/ingestion.py, api/http_app.py):       *)
(* concurrent executions of ingest(), over the tables of Documents and the *)
(* object store (adapters/object_store.py).                                *)
(*                                                                         *)
(* An upload draws the UUID of the version it creates, which is a part of  *)
(* its object key: an upload, its version and its object share one name.   *)
(* Each transaction and each call of MinIO is one step that may fail.      *)
(***************************************************************************)
EXTENDS Documents

CONSTANT
  KeywordOnly  \* an upload without vectors is accepted (no embedding service
               \* is configured, or allow_extractive_fallback)

VARIABLES
  objects,   \* the objects in the bucket
  stage,     \* where each upload is
  target,    \* the document it names, or the fresh one it creates
  embedded   \* whether its chunks have vectors

uploadVars == <<tables, objects, stage, target, embedded>>

Underway == {"embed", "put", "save", "cleanup"}

UploadsOK ==
  /\ TablesOK
  /\ objects \subseteq Objects
  /\ stage \in [Objects -> {"idle", "created", "failed"} \cup Underway]
  /\ target \in [Objects -> Docs \cup {None}]
  /\ embedded \in [Objects -> BOOLEAN]

InitUploads ==
  /\ InitTables
  /\ objects = {}
  /\ stage = [u \in Objects |-> "idle"]
  /\ target = [u \in Objects |-> None]
  /\ embedded = [u \in Objects |-> FALSE]

Proceed(u, label) == stage' = [stage EXCEPT ![u] = label]

-----------------------------------------------------------------------------
(* Steps of one upload u.                                                  *)

\* The file is received; its text is extracted and split, or it is rejected.
ReceiveUpload(u, d) ==
  /\ stage[u] = "idle"
  /\ \E label \in {"embed", "failed"} : Proceed(u, label)
  /\ target' = [target EXCEPT ![u] = d]
  /\ UNCHANGED <<tables, objects, embedded>>

\* _embed_in_batches; without vectors the upload goes on only if KeywordOnly.
Embed(u) ==
  /\ stage[u] = "embed"
  /\ \/ /\ \E e \in IF KeywordOnly THEN BOOLEAN ELSE {TRUE} :
             embedded' = [embedded EXCEPT ![u] = e]
        /\ Proceed(u, "put")
     \/ Proceed(u, "failed") /\ UNCHANGED embedded
  /\ UNCHANGED <<tables, objects, target>>

\* Mutant of PutObject: its error is not noticed.
PutIgnoresError(u) ==
  /\ stage[u] = "put"
  /\ objects' \in {objects, objects \cup {u}}
  /\ Proceed(u, "save")
  /\ UNCHANGED <<tables, target, embedded>>

\* The object is put before the rows are written.  An error, or a cancellation,
\* may leave it in the bucket.
PutObject(u) ==
  /\ stage[u] = "put"
  /\ \/ objects' = objects \cup {u} /\ Proceed(u, "save")
     \/ objects' \in {objects, objects \cup {u}} /\ Proceed(u, "failed")
  /\ UNCHANGED <<tables, target, embedded>>

\* save_document: done; or an error, which the commit may have preceded.
SaveRows(u) ==
  /\ stage[u] = "save"
  /\ \/ /\ SaveDocument(target[u], u, embedded[u])
        /\ \E label \in {"created", "cleanup"} : Proceed(u, label)
     \/ Proceed(u, "cleanup") /\ UNCHANGED tables
  /\ UNCHANGED <<objects, target, embedded>>

\* The object of a failed upload is deleted, errors being ignored.
DeleteObject(u) ==
  /\ stage[u] = "cleanup"
  /\ objects' \in {objects, objects \ {u}}
  /\ Proceed(u, "failed")
  /\ UNCHANGED <<tables, target, embedded>>

\* The request is cancelled or the process dies: nothing is cleaned up.
AbortUpload(u) ==
  /\ stage[u] \in Underway
  /\ Proceed(u, "failed")
  /\ UNCHANGED <<tables, objects, target, embedded>>

Upload(u) == Embed(u) \/ PutObject(u) \/ SaveRows(u) \/ DeleteObject(u)

UploadNext ==
  \/ \E u \in Objects :
       \/ \E d \in Docs : ReceiveUpload(u, d)
       \/ Upload(u)
       \/ AbortUpload(u)
  \/ Administrate /\ UNCHANGED <<objects, stage, target, embedded>>

UploadSpec == InitUploads /\ [][UploadNext]_uploadVars

-----------------------------------------------------------------------------
(* Properties.                                                             *)

\* Version v of document d was written by upload u.
Written(u, d, v) == v \in Versions(d) /\ version[d][v].object = u

\* An upload that was answered with 201 has its one version and its object, for
\* good, whatever other uploads of the document fail and clean up.  An upload
\* whose commit reports an error has its object deleted all the same: only
\* this promise to the caller remains, not one for every version.
CreatedIsStored ==
  \A u \in Objects :
    stage[u] = "created" =>
      /\ u \in objects
      /\ \E v \in 1..MaxVersions :
           /\ Written(u, target[u], v)
           /\ \A d \in Docs, w \in 1..MaxVersions : Written(u, d, w) => d = target[u] /\ w = v

\* docs/system-detailed-design-v1.0.md:262: the old version serves queries until
\* the new one takes over in the same transaction.  A document that can be found
\* is found ever after, in the same or a newer version, unless an administrator
\* disables it or the index version of the knowledge base changes.
NeverOutOfService ==
  [][\A d \in Docs : \A v \in Retrievable(d) :
       \/ document'[d].status = "DISABLED"
       \/ activeIndex' # activeIndex
       \/ \E w \in Retrievable(d)' : v <= w]_tables
=============================================================================

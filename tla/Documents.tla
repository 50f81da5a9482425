------------------------------ MODULE Documents ------------------------------
(***************************************************************************)
(* The tables knowledge_bases, documents, document_versions and chunks of  *)
(* one knowledge base, and the transactions of adapters/repository.py that *)
(* change them.  Each of them locks the row of its document, so each is    *)
(* one step.                                                               *)
(*                                                                         *)
(* Every statement on chunks touches all chunks of a version alike, so a   *)
(* version stands for its chunks as well.                                  *)
(***************************************************************************)
EXTENDS Naturals

CONSTANTS
  Docs,           \* documents
  Objects,        \* keys of the object store
  IndexVersions,  \* values of active_index_version
  MaxVersions,    \* bound: versions of a document
  None

\* index is document_versions.index_version, chunkIndex that of the chunks.
VersionRow ==
  [object : Objects, index : IndexVersions, chunkIndex : IndexVersions,
   isCurrent : BOOLEAN, active : BOOLEAN, embedded : BOOLEAN]

ASSUME VersionsAssumption == MaxVersions \in Nat
ASSUME NoneAssumption == None \notin Objects \cup IndexVersions \cup VersionRow

VARIABLES
  activeIndex,  \* knowledge_bases.active_index_version
  document,     \* documents: status ("ABSENT" without a row), number of the current version
  version       \* document_versions and their chunks, by version number

tables == <<activeIndex, document, version>>

TablesOK ==
  /\ activeIndex \in IndexVersions
  /\ document \in [Docs -> [status : {"ABSENT", "READY", "DISABLED"}, current : 0..MaxVersions]]
  /\ version \in [Docs -> [1..MaxVersions -> VersionRow \cup {None}]]

InitTables ==
  /\ activeIndex \in IndexVersions
  /\ document = [d \in Docs |-> [status |-> "ABSENT", current |-> 0]]
  /\ version = [d \in Docs |-> [v \in 1..MaxVersions |-> None]]

Versions(d) == {v \in 1..MaxVersions : version[d][v] # None}

\* COALESCE(max(version_number), 0) + 1
NextVersion(d) ==
  CHOOSE n \in 1..MaxVersions + 1 :
    /\ \A v \in Versions(d) : v < n
    /\ n = 1 \/ n - 1 \in Versions(d)

\* What _RETRIEVAL_FROM finds of document d, access rights aside.
Retrievable(d) ==
  {v \in Versions(d) :
     /\ version[d][v].active
     /\ version[d][v].chunkIndex = activeIndex
     /\ document[d].status = "READY"
     /\ document[d].current = v
     /\ version[d][v].isCurrent}

-----------------------------------------------------------------------------
(* Transactions.                                                           *)

\* A version, or a number without one, that is retired by a newer version; and
\* one whose chunks are made active or not.
Retired(row) ==
  IF row = None THEN None ELSE [row EXCEPT !.isCurrent = FALSE, !.active = FALSE]
Activated(row, active) ==
  IF row = None THEN None ELSE [row EXCEPT !.active = active]

\* The rows an upload inserts.
NewVersion(object, embedded) ==
  [object |-> object, index |-> activeIndex, chunkIndex |-> activeIndex,
   isCurrent |-> TRUE, active |-> TRUE, embedded |-> embedded]

\* Mutant of SaveDocument: the last UPDATE of the status is missing.
SaveLeavesIndexing(d, object, embedded) ==
  /\ NextVersion(d) <= MaxVersions
  /\ document' = [document EXCEPT ![d] = [status |-> "INDEXING", current |-> NextVersion(d)]]
  /\ UNCHANGED <<activeIndex, version>>

\* Mutant of SaveDocument: the chunks wait to be enabled.
SaveInsertsInactive(d, object, embedded) ==
  LET n == NextVersion(d) IN
  /\ n <= MaxVersions
  /\ document' = [document EXCEPT ![d] = [status |-> "READY", current |-> n]]
  /\ version' = [version EXCEPT ![d] = [v \in 1..MaxVersions |->
       IF v = n THEN Activated(NewVersion(object, embedded), FALSE)
       ELSE Retired(version[d][v])]]
  /\ UNCHANGED activeIndex

\* Mutant of SaveDocument: the chunks of the version before stay active.
SaveKeepsOldChunks(d, object, embedded) ==
  LET n == NextVersion(d) IN
  /\ n <= MaxVersions
  /\ document' = [document EXCEPT ![d] = [status |-> "READY", current |-> n]]
  /\ version' = [version EXCEPT ![d] = [v \in 1..MaxVersions |->
       IF v = n THEN NewVersion(object, embedded)
       ELSE IF version[d][v] = None THEN None ELSE [version[d][v] EXCEPT !.isCurrent = FALSE]]]
  /\ UNCHANGED activeIndex

\* save_document: the document is created, or its current version and chunks
\* are retired; the new version becomes the current one and the document READY,
\* even if it was DISABLED.
SaveDocument(d, object, embedded) ==
  LET n == NextVersion(d) IN
  /\ n <= MaxVersions
  /\ document' = [document EXCEPT ![d] = [status |-> "READY", current |-> n]]
  /\ version' = [version EXCEPT ![d] = [v \in 1..MaxVersions |->
       IF v = n THEN NewVersion(object, embedded)
       ELSE Retired(version[d][v])]]
  /\ UNCHANGED activeIndex

\* set_document_active, with active = true: refused for an outdated index.
EnableDocument(d) ==
  LET current == document[d].current IN
  /\ document[d].status # "ABSENT"
  /\ version[d][current].index = activeIndex
  /\ document' = [document EXCEPT ![d].status = "READY"]
  /\ version' = [version EXCEPT ![d] = [v \in 1..MaxVersions |-> Activated(version[d][v], v = current)]]
  /\ UNCHANGED activeIndex

\* set_document_active, with active = false.
DisableDocument(d) ==
  /\ document[d].status # "ABSENT"
  /\ document' = [document EXCEPT ![d].status = "DISABLED"]
  /\ version' = [version EXCEPT ![d] = [v \in 1..MaxVersions |-> Activated(version[d][v], FALSE)]]
  /\ UNCHANGED activeIndex

\* Mutant of ApplyEmbeddings: the current version is not looked at again.
ApplyUnchecked(d, v, x) ==
  /\ version' = [version EXCEPT ![d][v] = [@ EXCEPT !.index = x, !.chunkIndex = x, !.embedded = TRUE]]
  /\ UNCHANGED <<activeIndex, document>>

\* Mutant of ApplyEmbeddings: document_versions is not updated.
ApplyToChunksOnly(d, v, x) ==
  /\ document[d].current = v
  /\ version' = [version EXCEPT ![d][v] = [@ EXCEPT !.chunkIndex = x, !.embedded = TRUE]]
  /\ UNCHANGED <<activeIndex, document>>

\* apply_document_embeddings, for version v of document d, which is still the
\* current one, with index version x.
ApplyEmbeddings(d, v, x) ==
  /\ document[d].current = v
  /\ version' = [version EXCEPT ![d][v] = [@ EXCEPT !.index = x, !.chunkIndex = x, !.embedded = TRUE]]
  /\ UNCHANGED <<activeIndex, document>>

\* An administrator switches the knowledge base to another index version with
\* SQL: no code does.
SwitchIndex(x) ==
  /\ activeIndex' = x
  /\ UNCHANGED <<document, version>>

Administrate ==
  \/ \E d \in Docs : EnableDocument(d) \/ DisableDocument(d)
  \/ \E x \in IndexVersions : SwitchIndex(x)

-----------------------------------------------------------------------------
(* Properties.                                                             *)

\* The four tables tell one story, whichever transactions met: versions are
\* numbered without gaps, the newest one is current by both records of it, its
\* chunks are the only active ones, exactly while the document is READY, and the
\* chunks carry the index version of their version.
TablesAgree ==
  \A d \in Docs :
    /\ Versions(d) = 1..document[d].current
    /\ document[d].status = "ABSENT" <=> document[d].current = 0
    /\ \A v \in Versions(d) :
         LET row == version[d][v] IN
         /\ row.isCurrent <=> v = document[d].current
         /\ row.active <=> row.isCurrent /\ document[d].status = "READY"
         /\ row.chunkIndex = row.index
=============================================================================

--------------------------- MODULE DocumentsProofs ---------------------------
(***************************************************************************)
(* Proofs about the tables of Documents and about the two components that  *)
(* change them, the uploads (Ingestion) and the jobs (ReindexJobs).  Each  *)
(* transaction keeps the tables well-typed and in agreement, which is      *)
(* inductive as it stands; the lemmas on the transactions serve both.      *)
(***************************************************************************)
EXTENDS Ingestion, ReindexJobs, TLAPS

TablesInv == TablesOK /\ TablesAgree

\* TablesAgree, for one document.
AgreeOn(d) ==
  /\ Versions(d) = 1..document[d].current
  /\ document[d].status = "ABSENT" <=> document[d].current = 0
  /\ \A v \in Versions(d) :
       LET row == version[d][v] IN
       /\ row.isCurrent <=> v = document[d].current
       /\ row.active <=> row.isCurrent /\ document[d].status = "READY"
       /\ row.chunkIndex = row.index

\* Agreement is a matter of one document at a time.
LEMMA AgreeFact == TablesAgree <=> \A d \in Docs : AgreeOn(d)
BY DEF TablesAgree, AgreeOn

\* The empty tables agree.
LEMMA InitTablesFact == InitTables => TablesInv
<1> SUFFICES ASSUME InitTables PROVE TablesInv
  OBVIOUS
<1> USE VersionsAssumption DEF InitTables
<1>1. TablesOK
  BY DEF TablesOK
<1>2. ASSUME NEW d \in Docs PROVE AgreeOn(d)
  <2>1. document[d].status = "ABSENT" /\ document[d].current = 0
    OBVIOUS
  <2>2. Versions(d) = {}
    BY DEF Versions
  <2> QED
    BY <2>1, <2>2 DEF AgreeOn
<1> QED
  BY <1>1, <1>2, AgreeFact DEF TablesInv

\* The next version number follows the current one.
LEMMA NextVersionFact ==
  ASSUME TablesInv, NEW d \in Docs
  PROVE  NextVersion(d) = document[d].current + 1
<1> DEFINE current == document[d].current
<1>1. current \in 0..MaxVersions /\ Versions(d) = 1..current
  BY DEF TablesInv, TablesOK, TablesAgree
<1>2. \A n \in 1..MaxVersions + 1 :
        (\A v \in 1..current : v < n) /\ (n = 1 \/ n - 1 \in 1..current) <=> n = current + 1
  BY <1>1, VersionsAssumption
<1>3. current + 1 \in 1..MaxVersions + 1
  BY <1>1, VersionsAssumption
<1> QED
  BY <1>1, <1>2, <1>3 DEF NextVersion

\* A transaction on document d keeps the tables in agreement if the new rows of
\* d agree with each other.
LEMMA OneDocumentFact ==
  ASSUME TablesInv, NEW d \in Docs, TablesOK',
         \A e \in Docs \ {d} : document'[e] = document[e] /\ version'[e] = version[e],
         document'[d].status = "ABSENT" <=> document'[d].current = 0,
         \A v \in 1..MaxVersions : version'[d][v] # None <=> v <= document'[d].current,
         \A v \in 1..document'[d].current :
           /\ version'[d][v].isCurrent <=> v = document'[d].current
           /\ version'[d][v].active <=> version'[d][v].isCurrent /\ document'[d].status = "READY"
           /\ version'[d][v].chunkIndex = version'[d][v].index
  PROVE  TablesInv'
<1>1. ASSUME NEW e \in Docs PROVE AgreeOn(e)'
  <2>1. CASE e # d
    <3>1. document'[e] = document[e] /\ version'[e] = version[e] /\ AgreeOn(e)
      BY <2>1, AgreeFact DEF TablesInv
    <3> QED
      BY <3>1 DEF AgreeOn, Versions
  <2>2. CASE e = d
    <3>1. document'[d].current \in 0..MaxVersions
      BY DEF TablesOK
    <3>2. Versions(d)' = 1..document'[d].current
      BY <3>1, VersionsAssumption DEF Versions
    <3> QED
      BY <2>2, <3>2 DEF AgreeOn
  <2> QED
    BY <2>1, <2>2
<1>2. TablesAgree'
  BY <1>1 DEF TablesAgree, AgreeOn
<1> QED
  BY <1>2 DEF TablesInv

\* What the tables say of a document and its rows.
LEMMA RowsFact ==
  ASSUME TablesInv, NEW d \in Docs
  PROVE  /\ activeIndex \in IndexVersions
         /\ document[d].status \in {"ABSENT", "READY", "DISABLED"}
         /\ document[d].current \in 0..MaxVersions
         /\ version[d] \in [1..MaxVersions -> VersionRow \cup {None}]
         /\ document[d].status = "ABSENT" <=> document[d].current = 0
         /\ \A v \in 1..MaxVersions : version[d][v] # None <=> v <= document[d].current
         /\ \A v \in 1..document[d].current :
              /\ v \in 1..MaxVersions /\ version[d][v] \in VersionRow
              /\ version[d][v].isCurrent <=> v = document[d].current
              /\ version[d][v].active <=> version[d][v].isCurrent /\ document[d].status = "READY"
              /\ version[d][v].chunkIndex = version[d][v].index
<1>1. AgreeOn(d)
  BY AgreeFact DEF TablesInv
<1>2. /\ activeIndex \in IndexVersions
      /\ document[d].status \in {"ABSENT", "READY", "DISABLED"}
      /\ document[d].current \in 0..MaxVersions
      /\ version[d] \in [1..MaxVersions -> VersionRow \cup {None}]
  BY DEF TablesInv, TablesOK
<1>3. \A v \in 1..MaxVersions : version[d][v] # None <=> v \in 1..document[d].current
  BY <1>1 DEF AgreeOn, Versions
<1>4. \A v \in 1..MaxVersions : v \in 1..document[d].current <=> v <= document[d].current
  BY <1>2, VersionsAssumption
<1>5. \A v \in 1..document[d].current : v \in 1..MaxVersions
  BY <1>2, VersionsAssumption
<1>6. \A v \in 1..document[d].current : version[d][v] \in VersionRow
  BY <1>2, <1>3, <1>5
<1> QED
  BY <1>1, <1>2, <1>3, <1>4, <1>5, <1>6 DEF AgreeOn

\* Retiring and activating rows.
LEMMA RetiredFact ==
  ASSUME NEW row \in VersionRow \cup {None}
  PROVE  /\ Retired(row) \in VersionRow \cup {None}
         /\ Retired(row) = None <=> row = None
         /\ row # None => /\ ~Retired(row).isCurrent /\ ~Retired(row).active
                          /\ Retired(row).index = row.index /\ Retired(row).chunkIndex = row.chunkIndex
BY NoneAssumption DEF Retired, VersionRow

\* Switching a row's chunks on or off changes nothing else of it.
LEMMA ActivatedFact ==
  ASSUME NEW row \in VersionRow \cup {None}, NEW active \in BOOLEAN
  PROVE  /\ Activated(row, active) \in VersionRow \cup {None}
         /\ Activated(row, active) = None <=> row = None
         /\ row # None => /\ Activated(row, active).isCurrent = row.isCurrent
                          /\ Activated(row, active).active = active
                          /\ Activated(row, active).index = row.index
                          /\ Activated(row, active).chunkIndex = row.chunkIndex
BY NoneAssumption DEF Activated, VersionRow

\* save_document keeps the tables in agreement.
LEMMA SaveFact ==
  ASSUME TablesInv, NEW d \in Docs, NEW object \in Objects, NEW vectors \in BOOLEAN,
         SaveDocument(d, object, vectors)
  PROVE  TablesInv'
<1> DEFINE n == document[d].current + 1
           new == NewVersion(object, vectors)
           rows == [v \in 1..MaxVersions |-> IF v = n THEN new ELSE Retired(version[d][v])]
<1>1. /\ n \in 1..MaxVersions
      /\ document' = [document EXCEPT ![d] = [status |-> "READY", current |-> n]]
      /\ version' = [version EXCEPT ![d] = rows]
      /\ activeIndex' = activeIndex /\ activeIndex \in IndexVersions
  <2>1. NextVersion(d) = n /\ document[d].current \in 0..MaxVersions /\ activeIndex \in IndexVersions
    BY NextVersionFact, RowsFact
  <2>2. n <= MaxVersions
    BY <2>1 DEF SaveDocument
  <2>3. n \in 1..MaxVersions
    BY <2>1, <2>2, VersionsAssumption
  <2> QED
    BY <2>1, <2>3 DEF SaveDocument
<1>2. /\ new \in VersionRow /\ new # None
      /\ new.isCurrent /\ new.active /\ new.chunkIndex = new.index
  <2>1. new \in VersionRow
    BY <1>1 DEF NewVersion, VersionRow
  <2> QED
    BY <2>1, NoneAssumption DEF NewVersion
<1>3. ASSUME NEW v \in 1..MaxVersions
      PROVE  /\ rows[v] \in VersionRow \cup {None}
             /\ rows[v] # None <=> v <= n
             /\ v <= n => /\ rows[v].isCurrent <=> v = n
                          /\ rows[v].active <=> rows[v].isCurrent
                          /\ rows[v].chunkIndex = rows[v].index
  <2>1. CASE v = n
    BY <2>1, <1>1, <1>2
  <2>2. CASE v # n
    <3>1. rows[v] = Retired(version[d][v]) /\ version[d][v] \in VersionRow \cup {None}
      BY <2>2, RowsFact
    <3>2. version[d][v] # None <=> v <= n
      BY <2>2, <1>1, RowsFact, VersionsAssumption
    <3>3. v <= n => v \in 1..document[d].current
      BY <2>2, <1>1, RowsFact, VersionsAssumption
    <3>4. v <= n => version[d][v].chunkIndex = version[d][v].index
      BY <3>3, RowsFact
    <3> HIDE DEF rows
    <3> QED
      BY <2>2, <3>1, <3>2, <3>4, RetiredFact
  <2> QED
    BY <2>1, <2>2
<1>4. rows \in [1..MaxVersions -> VersionRow \cup {None}]
  BY <1>3
<1> HIDE DEF rows
<1>5. /\ \A v \in 1..MaxVersions : rows[v] # None <=> v <= n
      /\ \A v \in 1..n : /\ rows[v].isCurrent <=> v = n
                         /\ rows[v].active <=> rows[v].isCurrent /\ "READY" = "READY"
                         /\ rows[v].chunkIndex = rows[v].index
  BY <1>1, <1>3, VersionsAssumption
<1>6. n \in 0..MaxVersions /\ n # 0
  BY <1>1, VersionsAssumption
<1>7. /\ TablesOK'
      /\ \A e \in Docs \ {d} : document'[e] = document[e] /\ version'[e] = version[e]
      /\ document'[d].status = "READY" /\ document'[d].current = n
      /\ version'[d] = rows
  BY <1>1, <1>4, <1>6 DEF TablesInv, TablesOK
<1> HIDE DEF n
<1> QED
  BY <1>5, <1>6, <1>7, OneDocumentFact

\* set_document_active makes chunks active exactly where it makes the document
\* READY.
LEMMA ActivateFact ==
  ASSUME TablesInv, NEW d \in Docs, NEW status \in {"READY", "DISABLED"},
         document[d].status # "ABSENT",
         document' \in [Docs -> [status : {"ABSENT", "READY", "DISABLED"}, current : 0..MaxVersions]],
         \A e \in Docs \ {d} : document'[e] = document[e],
         document'[d].status = status, document'[d].current = document[d].current,
         version' = [e \in Docs |-> version'[e]],
         \A e \in Docs \ {d} : version'[e] = version[e],
         version'[d] = [v \in 1..MaxVersions |->
            Activated(version[d][v], v = document[d].current /\ status = "READY")],
         activeIndex' = activeIndex
  PROVE  TablesInv'
<1> DEFINE n == document[d].current
           rows == [v \in 1..MaxVersions |->
                      Activated(version[d][v], v = document[d].current /\ status = "READY")]
<1>2. ASSUME NEW v \in 1..MaxVersions
      PROVE  /\ rows[v] \in VersionRow \cup {None}
             /\ rows[v] # None <=> v <= n
             /\ v \in 1..n => /\ rows[v].isCurrent <=> v = n
                              /\ rows[v].active <=> rows[v].isCurrent /\ status = "READY"
                              /\ rows[v].chunkIndex = rows[v].index
  <2> DEFINE active == v = document[d].current /\ status = "READY"
  <2>1. /\ rows[v] = Activated(version[d][v], active) /\ active \in BOOLEAN
        /\ version[d][v] \in VersionRow \cup {None}
        /\ version[d][v] # None <=> v <= n
    BY RowsFact
  <2>2. v \in 1..n => /\ version[d][v] # None
                      /\ version[d][v].isCurrent <=> v = n
                      /\ version[d][v].chunkIndex = version[d][v].index
    BY RowsFact, NoneAssumption
  <2>3. /\ rows[v] \in VersionRow \cup {None}
        /\ rows[v] = None <=> version[d][v] = None
        /\ version[d][v] # None => /\ rows[v].isCurrent = version[d][v].isCurrent
                                   /\ rows[v].active = active
                                   /\ rows[v].index = version[d][v].index
                                   /\ rows[v].chunkIndex = version[d][v].chunkIndex
    <3>1. CASE active = TRUE
      <4>1. rows[v] = Activated(version[d][v], TRUE)
        BY <2>1, <3>1
      <4>2. /\ Activated(version[d][v], TRUE) \in VersionRow \cup {None}
            /\ Activated(version[d][v], TRUE) = None <=> version[d][v] = None
            /\ version[d][v] # None =>
                 /\ Activated(version[d][v], TRUE).isCurrent = version[d][v].isCurrent
                 /\ Activated(version[d][v], TRUE).active = TRUE
                 /\ Activated(version[d][v], TRUE).index = version[d][v].index
                 /\ Activated(version[d][v], TRUE).chunkIndex = version[d][v].chunkIndex
        BY <2>1, ActivatedFact
      <4> HIDE DEF active, rows
      <4> QED
        BY <3>1, <4>1, <4>2
    <3>2. CASE active = FALSE
      <4>1. rows[v] = Activated(version[d][v], FALSE)
        BY <2>1, <3>2
      <4>2. /\ Activated(version[d][v], FALSE) \in VersionRow \cup {None}
            /\ Activated(version[d][v], FALSE) = None <=> version[d][v] = None
            /\ version[d][v] # None =>
                 /\ Activated(version[d][v], FALSE).isCurrent = version[d][v].isCurrent
                 /\ Activated(version[d][v], FALSE).active = FALSE
                 /\ Activated(version[d][v], FALSE).index = version[d][v].index
                 /\ Activated(version[d][v], FALSE).chunkIndex = version[d][v].chunkIndex
        BY <2>1, ActivatedFact
      <4> HIDE DEF active, rows
      <4> QED
        BY <3>2, <4>1, <4>2
    <3> QED
      BY <2>1, <3>1, <3>2
  <2> HIDE DEF rows
  <2> QED
    BY <2>1, <2>2, <2>3
<1>3. rows \in [1..MaxVersions -> VersionRow \cup {None}]
  BY <1>2
<1>4. version'[d] = rows
  OBVIOUS
<1> HIDE DEF rows
<1>5. \A v \in 1..n : v \in 1..MaxVersions
  BY RowsFact
<1>6. n \in 0..MaxVersions /\ n # 0 /\ activeIndex' \in IndexVersions
  BY RowsFact
<1>7. \A v \in 1..MaxVersions : rows[v] # None <=> v <= n
  BY <1>2
<1>8. \A v \in 1..n : /\ rows[v].isCurrent <=> v = n
                      /\ rows[v].active <=> rows[v].isCurrent /\ status = "READY"
                      /\ rows[v].chunkIndex = rows[v].index
  BY <1>2, <1>5
<1>9. /\ TablesOK'
      /\ \A e \in Docs \ {d} : document'[e] = document[e] /\ version'[e] = version[e]
      /\ document'[d].status = status /\ document'[d].current = n
      /\ version'[d] = rows
  <2>1. \A e \in Docs : version'[e] \in [1..MaxVersions -> VersionRow \cup {None}]
    BY <1>3, <1>4 DEF TablesInv, TablesOK
  <2>2. /\ document \in [Docs -> [status : {"ABSENT", "READY", "DISABLED"}, current : 0..MaxVersions]]
        /\ version \in [Docs -> [1..MaxVersions -> VersionRow \cup {None}]]
    BY DEF TablesInv, TablesOK
  <2> HIDE DEF n
  <2>3. document' \in [Docs -> [status : {"ABSENT", "READY", "DISABLED"}, current : 0..MaxVersions]]
    BY <2>2, <1>6
  <2>4. version' \in [Docs -> [1..MaxVersions -> VersionRow \cup {None}]]
    BY <2>1, <2>2
  <2>5. TablesOK'
    BY <1>6, <2>3, <2>4 DEF TablesOK
  <2> QED
    BY <1>4, <2>5 DEF n
<1> HIDE DEF n
<1>10. /\ document'[d].status = "ABSENT" <=> document'[d].current = 0
       /\ \A v \in 1..MaxVersions : version'[d][v] # None <=> v <= document'[d].current
       /\ \A v \in 1..document'[d].current :
            /\ version'[d][v].isCurrent <=> v = document'[d].current
            /\ version'[d][v].active <=> version'[d][v].isCurrent /\ document'[d].status = "READY"
            /\ version'[d][v].chunkIndex = version'[d][v].index
  BY <1>6, <1>7, <1>8, <1>9
<1> QED
  BY <1>9, <1>10, OneDocumentFact

\* set_document_active keeps the tables in agreement, with active = true,
LEMMA EnableFact ==
  ASSUME TablesInv, NEW d \in Docs, EnableDocument(d)
  PROVE  TablesInv'
<1>1. /\ document' \in [Docs -> [status : {"ABSENT", "READY", "DISABLED"}, current : 0..MaxVersions]]
      /\ \A e \in Docs \ {d} : document'[e] = document[e]
      /\ document'[d].status = "READY" /\ document'[d].current = document[d].current
  BY DEF EnableDocument, TablesInv, TablesOK
<1>2. /\ version' = [e \in Docs |-> version'[e]]
      /\ \A e \in Docs \ {d} : version'[e] = version[e]
      /\ version'[d] = [v \in 1..MaxVersions |->
                          Activated(version[d][v], v = document[d].current /\ "READY" = "READY")]
      /\ document[d].status # "ABSENT" /\ activeIndex' = activeIndex
  BY DEF EnableDocument, TablesInv, TablesOK
<1> QED
  BY <1>1, <1>2, ActivateFact

\* and with active = false.
LEMMA DisableFact ==
  ASSUME TablesInv, NEW d \in Docs, DisableDocument(d)
  PROVE  TablesInv'
<1>1. /\ document' \in [Docs -> [status : {"ABSENT", "READY", "DISABLED"}, current : 0..MaxVersions]]
      /\ \A e \in Docs \ {d} : document'[e] = document[e]
      /\ document'[d].status = "DISABLED" /\ document'[d].current = document[d].current
  BY DEF DisableDocument, TablesInv, TablesOK
<1>2. /\ version' = [e \in Docs |-> version'[e]]
      /\ \A e \in Docs \ {d} : version'[e] = version[e]
      /\ version'[d] = [v \in 1..MaxVersions |->
                          Activated(version[d][v], v = document[d].current /\ "DISABLED" = "READY")]
      /\ document[d].status # "ABSENT" /\ activeIndex' = activeIndex
  BY DEF DisableDocument, TablesInv, TablesOK
<1> QED
  BY <1>1, <1>2, ActivateFact

\* apply_document_embeddings writes one index version to chunks and version.
LEMMA ApplyFact ==
  ASSUME TablesInv, NEW d \in Docs, document[d].status # "ABSENT",
         NEW v, NEW x \in IndexVersions, ApplyEmbeddings(d, v, x)
  PROVE  TablesInv'
<1> DEFINE n == document[d].current
           new == [version[d][v] EXCEPT !.index = x, !.chunkIndex = x, !.embedded = TRUE]
           rows == [version[d] EXCEPT ![v] = new]
<1>1. n = v /\ n \in 1..n /\ n \in 1..MaxVersions /\ version[d][v] \in VersionRow
  BY RowsFact, VersionsAssumption DEF ApplyEmbeddings
<1>2. /\ new \in VersionRow /\ new # None
      /\ new.isCurrent = version[d][v].isCurrent /\ new.active = version[d][v].active
      /\ new.chunkIndex = new.index
  BY <1>1, NoneAssumption DEF VersionRow
<1>3. /\ document' = document
      /\ document \in [Docs -> [status : {"ABSENT", "READY", "DISABLED"}, current : 0..MaxVersions]]
      /\ version' = [version EXCEPT ![d] = rows]
      /\ activeIndex' = activeIndex
  BY DEF ApplyEmbeddings, TablesInv, TablesOK
<1> HIDE DEF new
<1>4. rows \in [1..MaxVersions -> VersionRow \cup {None}]
  BY <1>2, RowsFact
<1>5. \A u \in 1..MaxVersions : rows[u] = IF u = n THEN new ELSE version[d][u]
  BY <1>1, RowsFact
<1> HIDE DEF rows
<1>6. \A u \in 1..MaxVersions : rows[u] # None <=> u <= n
  BY <1>1, <1>2, <1>5, RowsFact
<1>7. \A u \in 1..n : /\ rows[u].isCurrent <=> u = n
                      /\ rows[u].active <=> rows[u].isCurrent /\ document[d].status = "READY"
                      /\ rows[u].chunkIndex = rows[u].index
  BY <1>1, <1>2, <1>5, RowsFact
<1>8. /\ TablesOK'
      /\ \A e \in Docs \ {d} : document'[e] = document[e] /\ version'[e] = version[e]
      /\ document'[d] = document[d] /\ version'[d] = rows
  BY <1>3, <1>4 DEF TablesInv, TablesOK
<1>9. document[d].status = "ABSENT" <=> n = 0
  BY RowsFact
<1> QED
  BY <1>6, <1>7, <1>8, <1>9, OneDocumentFact

-----------------------------------------------------------------------------
(* What no transaction undoes.                                             *)

\* Documents and versions stay, and vectors too.
DocumentsGrow ==
  \A d \in Docs :
    /\ document[d].status # "ABSENT" => document'[d].status # "ABSENT"
    /\ document[d].current <= document'[d].current
    /\ \A v \in Versions(d) :
         v \in Versions(d)' /\ (version[d][v].embedded => version'[d][v].embedded)

\* The vectors of every version, and their index version, stay as they are.
VectorsStay ==
  \A d \in Docs : \A v \in Versions(d) :
    /\ version'[d][v] # None
    /\ version'[d][v].embedded = version[d][v].embedded
    /\ version'[d][v].index = version[d][v].index

\* A retired row keeps its vectors,
LEMMA RetiredStays ==
  ASSUME NEW row \in VersionRow
  PROVE  /\ Retired(row) # None
         /\ Retired(row).embedded = row.embedded /\ Retired(row).index = row.index
<1>1. Retired(row) \in VersionRow /\ row # None
  BY NoneAssumption DEF Retired, VersionRow
<1> QED
  BY <1>1, NoneAssumption DEF Retired, VersionRow

\* and so does one that is switched on or off.
LEMMA ActivatedStays ==
  ASSUME NEW row \in VersionRow, NEW active \in BOOLEAN
  PROVE  /\ Activated(row, active) # None
         /\ Activated(row, active).embedded = row.embedded /\ Activated(row, active).index = row.index
<1>1. Activated(row, active) \in VersionRow /\ row # None
  BY NoneAssumption DEF Activated, VersionRow
<1> QED
  BY <1>1, NoneAssumption DEF Activated, VersionRow

\* Whatever keeps the vectors makes the documents grow.
LEMMA VectorsGrow ==
  ASSUME TablesInv, VectorsStay,
         \A d \in Docs : /\ document[d].status # "ABSENT" => document'[d].status # "ABSENT"
                         /\ document[d].current <= document'[d].current
  PROVE  DocumentsGrow
BY DEF VectorsStay, DocumentsGrow, Versions

\* save_document leaves the vectors of older versions alone.
LEMMA SaveGrows ==
  ASSUME TablesInv, NEW d \in Docs, NEW object, NEW vectors, SaveDocument(d, object, vectors)
  PROVE  VectorsStay /\ DocumentsGrow
<1> DEFINE n == document[d].current + 1
<1>1. /\ document[d].current \in 0..MaxVersions
      /\ document' = [document EXCEPT ![d] = [status |-> "READY", current |-> n]]
      /\ version' = [version EXCEPT ![d] = [v \in 1..MaxVersions |->
           IF v = n THEN NewVersion(object, vectors) ELSE Retired(version[d][v])]]
  <2>1. NextVersion(d) = n /\ document[d].current \in 0..MaxVersions
    BY NextVersionFact, RowsFact
  <2> QED
    BY <2>1 DEF SaveDocument
<1>2. \A e \in Docs : /\ document[e].status # "ABSENT" => document'[e].status # "ABSENT"
                      /\ document[e].current <= document'[e].current
  BY <1>1, RowsFact DEF TablesInv, TablesOK
<1>3. ASSUME NEW e \in Docs, NEW v \in Versions(e)
      PROVE  /\ version'[e][v] # None
             /\ version'[e][v].embedded = version[e][v].embedded
             /\ version'[e][v].index = version[e][v].index
  <2>1. CASE e # d
    BY <2>1, <1>1 DEF Versions, TablesInv, TablesOK
  <2>2. CASE e = d
    <3>1. v \in 1..MaxVersions /\ version[d][v] # None /\ version[d][v] \in VersionRow
      BY <2>2, RowsFact DEF Versions
    <3>2. v # n
      BY <3>1, <1>1, RowsFact
    <3>3. version'[d][v] = Retired(version[d][v])
      BY <3>1, <3>2, <1>1 DEF TablesInv, TablesOK
    <3> QED
      BY <2>2, <3>1, <3>3, RetiredStays
  <2> QED
    BY <2>1, <2>2
<1>4. VectorsStay
  BY <1>3 DEF VectorsStay
<1> QED
  BY <1>2, <1>4, VectorsGrow

\* An administrator does not touch vectors.
LEMMA AdministrateGrows ==
  ASSUME TablesInv, Administrate
  PROVE  VectorsStay /\ DocumentsGrow
<1>1. ASSUME NEW d \in Docs, EnableDocument(d) \/ DisableDocument(d)
      PROVE  VectorsStay /\ DocumentsGrow
  <2>1. \A e \in Docs : /\ document[e].status # "ABSENT" => document'[e].status # "ABSENT"
                        /\ document[e].current <= document'[e].current
    <3>1. PICK status \in {"READY", "DISABLED"} : document' = [document EXCEPT ![d].status = status]
      BY <1>1 DEF EnableDocument, DisableDocument
    <3>2. \A e \in Docs : /\ document[e].status # "ABSENT" => document'[e].status # "ABSENT"
                          /\ document'[e].current = document[e].current
      BY <3>1 DEF TablesInv, TablesOK
    <3>3. ASSUME NEW e \in Docs PROVE document[e].current \in Nat
      <4>1. document[e].current \in 0..MaxVersions
        BY RowsFact
      <4> QED
        BY <4>1
    <3> QED
      BY <3>2, <3>3
  <2>2. ASSUME NEW e \in Docs, NEW v \in Versions(e)
        PROVE  /\ version'[e][v] # None
               /\ version'[e][v].embedded = version[e][v].embedded
               /\ version'[e][v].index = version[e][v].index
    <3>1. CASE e # d
      BY <3>1, <1>1 DEF Versions, EnableDocument, DisableDocument, TablesInv, TablesOK
    <3>2. CASE e = d
      <4>1. v \in 1..MaxVersions /\ version[d][v] # None /\ version[d][v] \in VersionRow
        BY <3>2, RowsFact DEF Versions
      <4>2. PICK active \in BOOLEAN : version'[d][v] = Activated(version[d][v], active)
        <5>1. CASE EnableDocument(d)
          <6>1. version'[d][v] = Activated(version[d][v], v = document[d].current)
            BY <4>1, <5>1 DEF EnableDocument, TablesInv, TablesOK
          <6>2. (v = document[d].current) \in BOOLEAN
            OBVIOUS
          <6> QED
            BY <6>1, <6>2, Zenon
        <5>2. CASE DisableDocument(d)
          <6>1. version'[d][v] = Activated(version[d][v], FALSE)
            BY <4>1, <5>2 DEF DisableDocument, TablesInv, TablesOK
          <6> QED
            BY <6>1
        <5> QED
          BY <1>1, <5>1, <5>2
      <4> QED
        BY <3>2, <4>1, <4>2, ActivatedStays
    <3> QED
      BY <3>1, <3>2
  <2>3. VectorsStay
    BY <2>2 DEF VectorsStay
  <2> QED
    BY <2>1, <2>3, VectorsGrow
<1>2. ASSUME NEW x \in IndexVersions, SwitchIndex(x)
      PROVE  VectorsStay /\ DocumentsGrow
  <2>1. VectorsStay
    BY <1>2 DEF SwitchIndex, VectorsStay, Versions
  <2>2. \A e \in Docs : /\ document[e].status # "ABSENT" => document'[e].status # "ABSENT"
                        /\ document[e].current <= document'[e].current
    BY <1>2, RowsFact DEF SwitchIndex
  <2> QED
    BY <2>1, <2>2, VectorsGrow
<1> QED
  BY <1>1, <1>2 DEF Administrate

\* apply_document_embeddings gives vectors to the current version and takes
\* none from any.
LEMMA ApplyGrows ==
  ASSUME TablesInv, NEW d \in Docs, document[d].status # "ABSENT",
         NEW v, NEW x \in IndexVersions, ApplyEmbeddings(d, v, x)
  PROVE  /\ DocumentsGrow
         /\ v \in Versions(d)' /\ version'[d][v].embedded
         /\ \A e \in Docs : \A u \in Versions(e) :
              <<e, u>> # <<d, document[d].current>> => version'[e][u] = version[e][u]
<1>1. document' = document /\ v = document[d].current
  BY DEF ApplyEmbeddings
<1>2. v \in 1..MaxVersions /\ version[d][v] \in VersionRow
  BY <1>1, RowsFact, VersionsAssumption
<1> DEFINE new == [version[d][v] EXCEPT !.index = x, !.chunkIndex = x, !.embedded = TRUE]
<1>3. new \in VersionRow /\ new # None /\ new.embedded
  BY <1>2, NoneAssumption DEF VersionRow
<1>4. version' = [version EXCEPT ![d][v] = new]
  BY DEF ApplyEmbeddings
<1> HIDE DEF new
<1>5. \A e \in Docs : \A u \in 1..MaxVersions :
        version'[e][u] = IF e = d /\ u = v THEN new ELSE version[e][u]
  BY <1>2, <1>4 DEF TablesInv, TablesOK
<1>6. ASSUME NEW e \in Docs PROVE document[e].current \in Nat
  <2>1. document[e].current \in 0..MaxVersions
    BY RowsFact
  <2> QED
    BY <2>1
<1> QED
  BY <1>1, <1>2, <1>3, <1>5, <1>6 DEF DocumentsGrow, Versions

-----------------------------------------------------------------------------

\* Whatever an administrator does keeps the tables in agreement.
LEMMA AdministrateFact ==
  ASSUME TablesInv, Administrate
  PROVE  TablesInv'
<1>1. ASSUME NEW x \in IndexVersions, SwitchIndex(x) PROVE TablesInv'
  BY <1>1 DEF SwitchIndex, TablesInv, TablesOK, TablesAgree, Versions
<1> QED
  BY <1>1, EnableFact, DisableFact DEF Administrate

\* Steps that leave the tables alone.
LEMMA SameTablesFact ==
  ASSUME TablesInv, UNCHANGED tables
  PROVE  TablesInv'
BY DEF tables, TablesInv, TablesOK, TablesAgree, Versions

-----------------------------------------------------------------------------
(* The uploads.  The inductive invariant says of each upload what it knows *)
(* at each step: that no version is its own before it saves the rows, that *)
(* its object is stored from the put to the end unless it fails, and that  *)
(* its version is its own and the only one afterwards.                     *)

\* Version v of document d is the one upload u has written.
Owns(u, d, v) == version[d][v] # None /\ version[d][v].object = u

\* Upload u has written one version, of its document.
Saved(u) ==
  \E v \in 1..MaxVersions :
    /\ Owns(u, target[u], v)
    /\ \A d \in Docs, w \in 1..MaxVersions : Owns(u, d, w) => d = target[u] /\ w = v

UploadOk(u) ==
  /\ stage[u] # "idle" => target[u] \in Docs
  /\ stage[u] \in {"idle", "embed", "put", "save"} =>
       \A d \in Docs, v \in 1..MaxVersions : ~Owns(u, d, v)
  /\ stage[u] \in {"save", "created"} => u \in objects
  /\ stage[u] = "created" => Saved(u)

UploadsInv ==
  /\ TablesInv
  /\ UploadsOK
  /\ \A u \in Objects : UploadOk(u)

\* The invariant holds at first.
LEMMA InitUploadsInv == InitUploads => UploadsInv
<1> SUFFICES ASSUME InitUploads PROVE UploadsInv
  OBVIOUS
<1>1. TablesInv
  BY InitTablesFact DEF InitUploads
<1>2. UploadsOK
  BY <1>1 DEF InitUploads, UploadsOK, TablesInv
<1>3. \A u \in Objects : UploadOk(u)
  BY DEF InitUploads, InitTables, UploadOk, Owns
<1> QED
  BY <1>1, <1>2, <1>3 DEF UploadsInv

\* No version changes its object or disappears, and none appears.
ObjectsStay ==
  \A u \in Objects, d \in Docs, v \in 1..MaxVersions : Owns(u, d, v)' <=> Owns(u, d, v)

\* Retiring, enabling and disabling leave the object of a version alone.
LEMMA RowObjectFact ==
  ASSUME NEW row \in VersionRow \cup {None}, NEW active \in BOOLEAN
  PROVE  /\ Retired(row) = None <=> row = None
         /\ Activated(row, active) = None <=> row = None
         /\ row # None => Retired(row).object = row.object /\ Activated(row, active).object = row.object
<1>1. CASE row = None
  BY <1>1 DEF Retired, Activated
<1>2. CASE row # None
  <2>1. row \in VersionRow /\ row # None
    BY <1>2
  <2>2. Retired(row) \in VersionRow /\ Activated(row, active) \in VersionRow
    BY <2>1 DEF Retired, Activated, VersionRow
  <2>3. Retired(row).object = row.object /\ Activated(row, active).object = row.object
    BY <2>1 DEF Retired, Activated, VersionRow
  <2> QED
    BY <2>1, <2>2, <2>3, NoneAssumption
<1> QED
  BY <1>1, <1>2

\* An administrator leaves the objects alone.
LEMMA AdministrateObjects ==
  ASSUME TablesInv, Administrate
  PROVE  ObjectsStay
<1>1. ASSUME NEW d \in Docs, EnableDocument(d) \/ DisableDocument(d),
             NEW u \in Objects, NEW e \in Docs, NEW v \in 1..MaxVersions
      PROVE  Owns(u, e, v)' <=> Owns(u, e, v)
  <2>1. version[d][v] \in VersionRow \cup {None}
    BY RowsFact
  <2>2. CASE e = d
    <3>1. CASE EnableDocument(d)
      <4>1. version'[d][v] = Activated(version[d][v], v = document[d].current)
        BY <3>1 DEF EnableDocument, TablesInv, TablesOK
      <4>2. (v = document[d].current) \in BOOLEAN
        OBVIOUS
      <4> QED
        BY <2>1, <2>2, <4>1, <4>2, RowObjectFact DEF Owns
    <3>2. CASE DisableDocument(d)
      <4>1. version'[d][v] = Activated(version[d][v], FALSE)
        BY <3>2 DEF DisableDocument, TablesInv, TablesOK
      <4> QED
        BY <2>1, <2>2, <4>1, RowObjectFact DEF Owns
    <3> QED
      BY <1>1, <3>1, <3>2
  <2>3. CASE e # d
    BY <1>1, <2>3 DEF EnableDocument, DisableDocument, TablesInv, TablesOK, Owns
  <2> QED
    BY <2>2, <2>3
<1>2. ASSUME NEW x \in IndexVersions, SwitchIndex(x) PROVE ObjectsStay
  BY <1>2 DEF SwitchIndex, ObjectsStay, Owns
<1> QED
  BY <1>1, <1>2 DEF Administrate, ObjectsStay

\* save_document adds one version, which has the object it is given.
LEMMA SaveObjects ==
  ASSUME TablesInv, NEW d \in Docs, NEW o \in Objects, NEW e \in BOOLEAN, SaveDocument(d, o, e)
  PROVE  \E n \in 1..MaxVersions :
           /\ Owns(o, d, n)' /\ \A u \in Objects \ {o} : ~Owns(u, d, n)'
           /\ \A u \in Objects, b \in Docs, v \in 1..MaxVersions :
                <<b, v>> # <<d, n>> => (Owns(u, b, v)' <=> Owns(u, b, v))
           /\ \A u \in Objects : ~Owns(u, d, n)
<1> DEFINE n == document[d].current + 1
<1>1. /\ n \in 1..MaxVersions /\ activeIndex \in IndexVersions
      /\ version' = [version EXCEPT ![d] = [v \in 1..MaxVersions |->
           IF v = n THEN NewVersion(o, e) ELSE Retired(version[d][v])]]
  <2>1. NextVersion(d) = n /\ document[d].current \in 0..MaxVersions /\ activeIndex \in IndexVersions
    BY NextVersionFact, RowsFact
  <2>2. n <= MaxVersions
    BY <2>1 DEF SaveDocument
  <2> QED
    BY <2>1, <2>2, VersionsAssumption DEF SaveDocument
<1>2. NewVersion(o, e) # None /\ NewVersion(o, e).object = o
  <2>1. NewVersion(o, e) \in VersionRow
    BY <1>1 DEF NewVersion, VersionRow
  <2> QED
    BY <2>1, NoneAssumption DEF NewVersion
<1>3. version'[d][n] = NewVersion(o, e)
  BY <1>1 DEF TablesInv, TablesOK
<1>4. version[d][n] = None
  BY <1>1, RowsFact
<1>5. ASSUME NEW u \in Objects, NEW b \in Docs, NEW v \in 1..MaxVersions, <<b, v>> # <<d, n>>
      PROVE  Owns(u, b, v)' <=> Owns(u, b, v)
  <2>1. CASE b # d
    BY <2>1, <1>1 DEF TablesInv, TablesOK, Owns
  <2>2. CASE b = d
    <3>1. version'[d][v] = Retired(version[d][v]) /\ version[d][v] \in VersionRow \cup {None}
      BY <2>2, <1>1, <1>5, RowsFact DEF TablesInv, TablesOK
    <3> QED
      BY <2>2, <3>1, RowObjectFact DEF Owns
  <2> QED
    BY <2>1, <2>2
<1> HIDE DEF n
<1> QED
  BY <1>1, <1>2, <1>3, <1>4, <1>5 DEF Owns

-----------------------------------------------------------------------------
(* Every step keeps the invariant.                                         *)

\* The part of the invariant about one upload is kept by steps of others that
\* leave the tables and its object alone.
LEMMA OtherFact ==
  ASSUME UploadsInv, ObjectsStay, NEW u \in Objects,
         stage'[u] = stage[u], target'[u] = target[u], u \in objects => u \in objects'
  PROVE  UploadOk(u)'
<1>1. UploadOk(u) /\ target[u] \in Docs \cup {None}
  BY DEF UploadsInv, UploadsOK
<1>2. stage[u] = "created" => Saved(u)'
  <2>1. SUFFICES ASSUME stage[u] = "created" PROVE Saved(u)'
    OBVIOUS
  <2>2. target[u] \in Docs /\ Saved(u)
    BY <1>1, <2>1 DEF UploadOk
  <2> QED
    BY <2>2 DEF Saved, ObjectsStay
<1> QED
  BY <1>1, <1>2 DEF UploadOk, ObjectsStay

\* The steps of an upload that leave the tables alone.
LEMMA LocalFact ==
  ASSUME UploadsInv, NEW u \in Objects, UNCHANGED tables, UploadsOK',
         \A o \in Objects \ {u} : /\ stage'[o] = stage[o] /\ target'[o] = target[o]
                                  /\ o \in objects => o \in objects',
         UploadOk(u)'
  PROVE  UploadsInv'
<1>1. TablesInv' /\ ObjectsStay
  BY SameTablesFact DEF UploadsInv, ObjectsStay, Owns, tables
<1>2. \A o \in Objects \ {u} : UploadOk(o)'
  BY <1>1, OtherFact
<1> QED
  BY <1>1, <1>2 DEF UploadsInv

LEMMA ReceiveStep ==
  ASSUME UploadsInv, NEW u \in Objects, NEW d \in Docs, ReceiveUpload(u, d)
  PROVE  UploadsInv'
<1>1. UploadsOK /\ UploadOk(u) /\ stage[u] = "idle"
  BY DEF UploadsInv, ReceiveUpload
<1>2. UploadsOK'
  BY <1>1 DEF ReceiveUpload, Proceed, UploadsOK, TablesOK, tables, Underway
<1>3. target'[u] = d /\ stage'[u] \in {"embed", "failed"} /\ UNCHANGED <<tables, objects>>
  BY <1>1 DEF ReceiveUpload, Proceed, UploadsOK
<1>4. UploadOk(u)'
  BY <1>1, <1>3 DEF UploadOk, Owns, tables
<1>5. \A o \in Objects \ {u} : stage'[o] = stage[o] /\ target'[o] = target[o]
  BY <1>1 DEF ReceiveUpload, Proceed, UploadsOK
<1> QED
  BY <1>2, <1>3, <1>4, <1>5, LocalFact

LEMMA EmbedStep ==
  ASSUME UploadsInv, NEW u \in Objects, Embed(u)
  PROVE  UploadsInv'
<1>1. UploadsOK /\ UploadOk(u) /\ stage[u] = "embed"
  BY DEF UploadsInv, Embed
<1>2. UploadsOK'
  BY <1>1 DEF Embed, Proceed, UploadsOK, TablesOK, tables, Underway
<1>3. stage'[u] \in {"put", "failed"} /\ UNCHANGED <<tables, objects, target>>
  BY <1>1 DEF Embed, Proceed, UploadsOK
<1>4. UploadOk(u)'
  BY <1>1, <1>3 DEF UploadOk, Owns, tables
<1>5. \A o \in Objects \ {u} : stage'[o] = stage[o]
  BY <1>1 DEF Embed, Proceed, UploadsOK
<1> QED
  BY <1>2, <1>3, <1>4, <1>5, LocalFact

LEMMA PutObjectStep ==
  ASSUME UploadsInv, NEW u \in Objects, PutObject(u)
  PROVE  UploadsInv'
<1>1. UploadsOK /\ UploadOk(u) /\ stage[u] = "put"
  BY DEF UploadsInv, PutObject
<1>2. UploadsOK'
  BY <1>1 DEF PutObject, Proceed, UploadsOK, TablesOK, tables, Underway
<1>3. /\ stage'[u] = "failed" \/ (stage'[u] = "save" /\ u \in objects')
      /\ objects \subseteq objects' /\ UNCHANGED <<tables, target>>
  BY <1>1 DEF PutObject, Proceed, UploadsOK
<1>4. UploadOk(u)'
  BY <1>1, <1>3 DEF UploadOk, Owns, tables
<1>5. \A o \in Objects \ {u} : stage'[o] = stage[o]
  BY <1>1 DEF PutObject, Proceed, UploadsOK
<1> QED
  BY <1>2, <1>3, <1>4, <1>5, LocalFact

LEMMA DeleteObjectStep ==
  ASSUME UploadsInv, NEW u \in Objects, DeleteObject(u)
  PROVE  UploadsInv'
<1>1. UploadsOK /\ UploadOk(u) /\ stage[u] = "cleanup"
  BY DEF UploadsInv, DeleteObject
<1>2. UploadsOK'
  BY <1>1 DEF DeleteObject, Proceed, UploadsOK, TablesOK, tables, Underway
<1>3. /\ stage'[u] = "failed" /\ UNCHANGED <<tables, target>>
      /\ \A o \in Objects \ {u} : stage'[o] = stage[o] /\ (o \in objects => o \in objects')
  BY <1>1 DEF DeleteObject, Proceed, UploadsOK
<1>4. UploadOk(u)'
  BY <1>1, <1>3 DEF UploadOk, Owns, tables
<1> QED
  BY <1>2, <1>3, <1>4, LocalFact

LEMMA AbortStep ==
  ASSUME UploadsInv, NEW u \in Objects, AbortUpload(u)
  PROVE  UploadsInv'
<1>1. UploadsOK /\ UploadOk(u) /\ stage[u] \in Underway
  BY DEF UploadsInv, AbortUpload
<1>2. UploadsOK'
  BY <1>1 DEF AbortUpload, Proceed, UploadsOK, TablesOK, tables
<1>3. /\ stage'[u] = "failed" /\ UNCHANGED <<tables, objects, target>>
      /\ \A o \in Objects \ {u} : stage'[o] = stage[o]
  BY <1>1 DEF AbortUpload, Proceed, UploadsOK
<1>4. UploadOk(u)'
  BY <1>1, <1>3 DEF UploadOk, Owns, tables, Underway
<1> QED
  BY <1>2, <1>3, <1>4, LocalFact

\* The step that creates the version.
LEMMA SaveRowsStep ==
  ASSUME UploadsInv, NEW u \in Objects, SaveRows(u)
  PROVE  UploadsInv'
<1>1. /\ UploadsOK /\ TablesInv /\ UploadOk(u) /\ stage[u] = "save"
      /\ target[u] \in Docs /\ embedded[u] \in BOOLEAN /\ u \in objects
      /\ \A d \in Docs, v \in 1..MaxVersions : ~Owns(u, d, v)
  BY DEF UploadsInv, SaveRows, UploadOk, UploadsOK
<1>2. /\ stage'[u] \in {"created", "cleanup"} /\ UNCHANGED <<objects, target, embedded>>
      /\ \A o \in Objects \ {u} : stage'[o] = stage[o]
      /\ stage' \in [Objects -> {"idle", "created", "failed"} \cup Underway]
  BY <1>1 DEF SaveRows, Proceed, UploadsOK, Underway
<1>3. CASE UNCHANGED tables
  <2>1. stage'[u] = "created" => SaveDocument(target[u], u, embedded[u])
    BY <1>1 DEF SaveRows, Proceed, UploadsOK
  <2>2. ~SaveDocument(target[u], u, embedded[u])
    BY <1>1, <1>3, SaveObjects DEF Owns, tables
  <2>3. UploadsOK'
    BY <1>1, <1>2, <1>3 DEF UploadsOK, TablesOK, tables
  <2>4. UploadOk(u)'
    BY <1>1, <1>2, <2>1, <2>2 DEF UploadOk
  <2> QED
    BY <1>2, <1>3, <2>3, <2>4, LocalFact
<1>4. CASE SaveDocument(target[u], u, embedded[u])
  <2>1. TablesInv'
    BY <1>1, <1>4, SaveFact
  <2>2. UploadsOK'
    BY <1>1, <1>2, <2>1 DEF UploadsOK, TablesInv
  <2> DEFINE Added(d, n) ==
        /\ Owns(u, d, n)' /\ \A o \in Objects \ {u} : ~Owns(o, d, n)'
        /\ \A o \in Objects, b \in Docs, v \in 1..MaxVersions :
             <<b, v>> # <<d, n>> => (Owns(o, b, v)' <=> Owns(o, b, v))
        /\ \A o \in Objects : ~Owns(o, d, n)
  <2>3. PICK d \in Docs, n \in 1..MaxVersions : d = target[u] /\ Added(d, n)
    <3>1. PICK d \in Docs : d = target[u]
      BY <1>1
    <3>2. SaveDocument(d, u, embedded[u])
      BY <1>4, <3>1
    <3> QED
      BY <1>1, <3>1, <3>2, SaveObjects
  <2>4. Saved(u)'
    BY <1>1, <1>2, <2>3 DEF Saved
  <2>5. UploadOk(u)'
    BY <1>1, <1>2, <2>4 DEF UploadOk
  <2>6. ASSUME NEW o \in Objects \ {u} PROVE UploadOk(o)'
    <3>1. \A b \in Docs, v \in 1..MaxVersions : Owns(o, b, v)' <=> Owns(o, b, v)
      BY <2>3
    <3>2. UploadOk(o) /\ stage'[o] = stage[o] /\ target'[o] = target[o] /\ objects' = objects
      BY <1>2 DEF UploadsInv
    <3>3. stage[o] = "created" => target[o] \in Docs /\ Saved(o)
      BY <3>2 DEF UploadOk
    <3>4. stage[o] = "created" => Saved(o)'
      BY <3>1, <3>2, <3>3 DEF Saved
    <3> QED
      BY <3>1, <3>2, <3>4 DEF UploadOk
  <2> QED
    BY <2>1, <2>2, <2>5, <2>6 DEF UploadsInv
<1> QED
  BY <1>1, <1>3, <1>4 DEF SaveRows

\* Administration meets uploads at any step.
LEMMA AdministrateStep ==
  ASSUME UploadsInv, Administrate, UNCHANGED <<objects, stage, target, embedded>>
  PROVE  UploadsInv'
<1>1. TablesInv' /\ ObjectsStay
  BY AdministrateFact, AdministrateObjects DEF UploadsInv
<1>2. UploadsOK'
  BY <1>1 DEF UploadsInv, UploadsOK, TablesInv
<1> QED
  BY <1>1, <1>2, OtherFact DEF UploadsInv

LEMMA NextUploadsInv == UploadsInv /\ [UploadNext]_uploadVars => UploadsInv'
<1> SUFFICES ASSUME UploadsInv, [UploadNext]_uploadVars PROVE UploadsInv'
  OBVIOUS
<1>1. CASE UNCHANGED uploadVars
  <2>1. TablesInv' /\ ObjectsStay
    BY <1>1, SameTablesFact DEF UploadsInv, uploadVars, tables, ObjectsStay, Owns
  <2>2. UploadsOK'
    BY <1>1, <2>1 DEF UploadsInv, UploadsOK, TablesInv, uploadVars
  <2> QED
    BY <1>1, <2>1, <2>2, OtherFact DEF UploadsInv, uploadVars
<1> QED
  BY <1>1, ReceiveStep, EmbedStep, PutObjectStep, SaveRowsStep, DeleteObjectStep, AbortStep,
     AdministrateStep DEF UploadNext, Upload

-----------------------------------------------------------------------------
(* Theorems.                                                               *)

\* The invariant holds in every behaviour.
THEOREM UploadsInductive == UploadSpec => []UploadsInv
BY InitUploadsInv, NextUploadsInv, PTL DEF UploadSpec

\* Every variable keeps its type, whatever uploads fail or are aborted.
THEOREM UploadsTypeCorrect == UploadSpec => []UploadsOK
BY UploadsInductive, PTL DEF UploadsInv

\* The tables agree after every upload and administration.
THEOREM UploadsTablesAgree == UploadSpec => []TablesAgree
BY UploadsInductive, PTL DEF UploadsInv, TablesInv

\* An upload answered with 201 keeps its object and its one version.
THEOREM CreatedStays == UploadSpec => []CreatedIsStored
<1>1. UploadsInv => CreatedIsStored
  <2> SUFFICES ASSUME UploadsInv, NEW u \in Objects, stage[u] = "created"
      PROVE  /\ u \in objects
             /\ \E v \in 1..MaxVersions :
                  /\ Written(u, target[u], v)
                  /\ \A d \in Docs, w \in 1..MaxVersions : Written(u, d, w) => d = target[u] /\ w = v
    BY DEF CreatedIsStored
  <2>1. u \in objects /\ target[u] \in Docs /\ Saved(u)
    BY DEF UploadsInv, UploadOk
  <2> QED
    BY <2>1 DEF Saved, Written, Owns, Versions
<1> QED
  BY <1>1, UploadsInductive, PTL

\* A document that queries can find is found ever after, in the same or a newer
\* version: save_document leaves no gap between two versions.
THEOREM ServiceGoesOn == UploadSpec => NeverOutOfService
<1> DEFINE Found ==
      \A d \in Docs : \A v \in Retrievable(d) :
        \/ document'[d].status = "DISABLED"
        \/ activeIndex' # activeIndex
        \/ \E w \in Retrievable(d)' : v <= w
<1>1. ASSUME UploadsInv, [UploadNext]_uploadVars PROVE [Found]_tables
  <2> SUFFICES ASSUME NEW d \in Docs, NEW v \in Retrievable(d), ~UNCHANGED tables,
                      document'[d].status # "DISABLED", activeIndex' = activeIndex
               PROVE  \E w \in Retrievable(d)' : v <= w
    OBVIOUS
  <2>1. /\ TablesInv /\ UploadsOK /\ v \in 1..MaxVersions /\ v = document[d].current
        /\ version[d][v] \in VersionRow /\ version[d][v].active /\ version[d][v].isCurrent
        /\ version[d][v].chunkIndex = activeIndex /\ document[d].status = "READY"
        /\ activeIndex \in IndexVersions
    BY <1>1, RowsFact DEF UploadsInv, Retrievable, Versions
  <2>2. ASSUME document'[d] = document[d], version'[d][v] = version[d][v] PROVE v \in Retrievable(d)'
    BY <2>1, <2>2, NoneAssumption DEF Retrievable, Versions
  <2>3. ASSUME NEW e \in Docs, NEW u \in Objects, SaveDocument(e, u, embedded[u])
        PROVE  \E w \in Retrievable(d)' : v <= w
    <3>1. CASE e # d
      BY <2>1, <2>2, <2>3, <3>1 DEF SaveDocument, TablesInv, TablesOK
    <3>2. CASE e = d
      <4> DEFINE n == v + 1
      <4>1. NextVersion(d) = n
        BY <2>1, NextVersionFact
      <4>2. n \in 1..MaxVersions
        BY <2>1, <2>3, <3>2, <4>1, VersionsAssumption DEF SaveDocument
      <4>3. document'[d] = [status |-> "READY", current |-> n] /\ version'[d][n] = NewVersion(u, embedded[u])
        BY <2>1, <2>3, <3>2, <4>1, <4>2 DEF SaveDocument, TablesInv, TablesOK
      <4>4. NewVersion(u, embedded[u]) \in VersionRow
        BY <2>1 DEF NewVersion, VersionRow, UploadsOK
      <4> HIDE DEF n
      <4>5. n \in Retrievable(d)'
        BY <4>2, <4>3, <4>4, NoneAssumption DEF Retrievable, Versions, NewVersion
      <4> QED
        BY <2>1, <4>5 DEF n
    <3> QED
      BY <3>1, <3>2
  <2>4. ASSUME NEW e \in Docs, EnableDocument(e) PROVE \E w \in Retrievable(d)' : v <= w
    <3>1. CASE e # d
      BY <2>1, <2>2, <2>4, <3>1 DEF EnableDocument, TablesInv, TablesOK
    <3>2. CASE e = d
      <4>1. /\ document'[d] = [document[d] EXCEPT !.status = "READY"]
            /\ document[d] \in [status : {"ABSENT", "READY", "DISABLED"}, current : 0..MaxVersions]
        BY <2>1, <2>4, <3>2 DEF EnableDocument, TablesInv, TablesOK
      <4>2. document'[d] = document[d]
        BY <2>1, <4>1
      <4>3. version'[d][v] = Activated(version[d][v], TRUE)
        BY <2>1, <2>4, <3>2 DEF EnableDocument, TablesInv, TablesOK
      <4>4. Activated(version[d][v], TRUE) = version[d][v]
        BY <2>1, NoneAssumption DEF Activated, VersionRow
      <4> QED
        BY <2>1, <2>2, <4>2, <4>3, <4>4
    <3> QED
      BY <3>1, <3>2
  <2>5. ASSUME NEW e \in Docs, DisableDocument(e) PROVE \E w \in Retrievable(d)' : v <= w
    <3>1. e # d
      BY <2>1, <2>5 DEF DisableDocument, TablesInv, TablesOK
    <3>2. document'[d] = document[d] /\ version'[d] = version[d]
      BY <2>1, <2>5, <3>1 DEF DisableDocument, TablesInv, TablesOK
    <3> QED
      BY <2>1, <2>2, <3>2
  <2>6. ASSUME NEW x \in IndexVersions, SwitchIndex(x) PROVE FALSE
    BY <2>6 DEF SwitchIndex, tables
  <2>7. ASSUME NEW u \in Objects, SaveRows(u) PROVE \E w \in Retrievable(d)' : v <= w
    <3>1. SaveDocument(target[u], u, embedded[u]) /\ target[u] \in Docs
      BY <1>1, <2>7 DEF SaveRows, UploadsInv, UploadOk, tables
    <3> QED
      BY <2>3, <3>1
  <2>8. CASE Administrate
    BY <2>4, <2>5, <2>6, <2>8 DEF Administrate
  <2> QED
    BY <1>1, <2>7, <2>8
       DEF UploadNext, Upload, ReceiveUpload, Embed, PutObject, DeleteObject, AbortUpload, uploadVars, tables
<1> QED
  BY <1>1, UploadsInductive, PTL DEF UploadSpec, NeverOutOfService

-----------------------------------------------------------------------------
(* The reindex jobs.  The inductive invariant says of each job that its    *)
(* document exists, and of each worker what it knows at each step: the     *)
(* version it has read, which is no older than the job, and that it has    *)
(* vectors once they were applied.                                         *)

JobOk(j) ==
  job[j].status # "NONE" =>
    /\ job[j].doc \in Docs
    /\ document[job[j].doc].status # "ABSENT"
    /\ job[j].since <= document[job[j].doc].current

WorkerOk(w) ==
  LET j == mine[w].job v == source[w].version IN
  pc[w] # "idle" =>
    /\ j \in Jobs /\ job[j].status # "NONE"
    /\ pc[w] \in {"embed", "wait", "apply", "complete"} =>
         job[j].since <= v /\ source[w].index \in IndexVersions
    /\ pc[w] = "wait" => batches[w] > 0
    /\ pc[w] = "complete" => v \in Versions(job[j].doc) /\ version[job[j].doc][v].embedded

SuccessOk(j) ==
  job[j].status = "SUCCEEDED" =>
    \E v \in Versions(job[j].doc) : job[j].since <= v /\ version[job[j].doc][v].embedded

IInv ==
  /\ TablesInv
  /\ TypeOK
  /\ \A j \in Jobs : JobOk(j) /\ SuccessOk(j)
  /\ \A w \in Workers : WorkerOk(w)

\* The values of job, as TypeOK has them.
JobRow ==
  [status : {"NONE", "SUCCEEDED", "FAILED"} \cup Active,
   doc : Docs \cup {None}, since : 0..MaxVersions,
   attempt : 0..MaxAttempts, lease : 0..Lease, worker : Workers \cup {None}]

\* The invariant holds at first.
LEMMA InitIInv == Init => IInv
<1> SUFFICES ASSUME Init PROVE IInv
  OBVIOUS
<1>1. TablesInv
  BY InitTablesFact DEF Init
<1>2. TypeOK
  <2> USE TimeAssumption, CountAssumption, VersionsAssumption
  <2>1. NoJob \in JobRow
    BY DEF NoJob, JobRow
  <2>2. job \in [Jobs -> JobRow]
    BY <2>1 DEF Init
  <2>3. silent \in [Workers -> 0..StepLimit] /\ batches \in [Workers -> 0..Batches]
    BY DEF Init
  <2>4. source \in [Workers -> [version : 0..MaxVersions, index : IndexVersions \cup {None}]]
    BY DEF Init, NoSource
  <2>5. mine \in [Workers -> [job : Jobs \cup {None}, attempt : 0..MaxAttempts]]
    BY DEF Init
  <2>6. pc \in [Workers -> {"idle", "retry", "refuse", "release"} \cup Trying]
    BY DEF Init
  <2> QED
    BY <1>1, <2>2, <2>3, <2>4, <2>5, <2>6 DEF TypeOK, TablesInv, JobRow
<1> QED
  BY <1>1, <1>2 DEF Init, IInv, JobOk, SuccessOk, WorkerOk, NoJob

-----------------------------------------------------------------------------
(* Frames.                                                                 *)

\* A job that exists stays, with its document.
JobsStay ==
  \A j \in Jobs :
    job[j].status # "NONE" =>
      /\ job'[j].status # "NONE"
      /\ job'[j].doc = job[j].doc /\ job'[j].since = job[j].since

LocalsStay(w) ==
  /\ pc'[w] = pc[w] /\ mine'[w] = mine[w]
  /\ source'[w] = source[w] /\ batches'[w] = batches[w]

\* Steps that leave the tables alone let the documents grow, by nothing.
LEMMA SameTablesGrow ==
  ASSUME TablesInv, UNCHANGED tables
  PROVE  DocumentsGrow
<1>1. ASSUME NEW d \in Docs PROVE document[d].current \in Nat
  <2>1. document[d].current \in 0..MaxVersions
    BY RowsFact
  <2> QED
    BY <2>1
<1> QED
  BY <1>1 DEF tables, DocumentsGrow, Versions

\* What the invariant says of a job survives a step that keeps the job.
LEMMA JobFrame ==
  ASSUME TypeOK, TypeOK', NEW j \in Jobs, JobOk(j), SuccessOk(j), JobsStay, DocumentsGrow,
         job[j].status # "NONE"
  PROVE  /\ JobOk(j)'
         /\ (job'[j].status = "SUCCEEDED" => job[j].status = "SUCCEEDED") => SuccessOk(j)'
<1> DEFINE d == job[j].doc
<1>1. /\ d \in Docs /\ document[d].status # "ABSENT" /\ job[j].since <= document[d].current
      /\ job'[j].doc = d /\ job'[j].since = job[j].since
  BY DEF JobOk, JobsStay
<1>2. /\ document'[d].status # "ABSENT" /\ document[d].current <= document'[d].current
      /\ \A v \in Versions(d) : v \in Versions(d)' /\ (version[d][v].embedded => version'[d][v].embedded)
  BY <1>1 DEF DocumentsGrow
<1>3. /\ job[j].since \in 0..MaxVersions
      /\ document[d].current \in 0..MaxVersions /\ document'[d].current \in 0..MaxVersions
  BY <1>1 DEF TypeOK, TablesOK
<1>4. job[j].since <= document'[d].current
  BY <1>1, <1>2, <1>3, VersionsAssumption
<1>5. JobOk(j)'
  BY <1>1, <1>2, <1>4 DEF JobOk
<1>6. ASSUME job'[j].status = "SUCCEEDED" => job[j].status = "SUCCEEDED"
      PROVE  SuccessOk(j)'
  BY <1>1, <1>2, <1>6 DEF SuccessOk
<1> QED
  BY <1>5, <1>6

\* What it says of a worker survives the steps of others.
LEMMA WorkerFrame ==
  ASSUME NEW w \in Workers, WorkerOk(w), LocalsStay(w), JobsStay, DocumentsGrow,
         \A j \in Jobs : JobOk(j)
  PROVE  WorkerOk(w)'
<1> SUFFICES ASSUME pc[w] # "idle" PROVE WorkerOk(w)'
  BY DEF WorkerOk, LocalsStay
<1> DEFINE j == mine[w].job
           d == job[j].doc
           v == source[w].version
<1>1. /\ j \in Jobs /\ job[j].status # "NONE"
      /\ pc[w] \in {"embed", "wait", "apply", "complete"} =>
           job[j].since <= v /\ source[w].index \in IndexVersions
      /\ pc[w] = "wait" => batches[w] > 0
      /\ pc[w] = "complete" => v \in Versions(d) /\ version[d][v].embedded
  BY DEF WorkerOk
<1>2. job'[j].status # "NONE" /\ job'[j].doc = d /\ job'[j].since = job[j].since /\ d \in Docs
  BY <1>1 DEF JobsStay, JobOk
<1>3. pc[w] = "complete" => v \in Versions(d)' /\ version'[d][v].embedded
  <2>1. \A u \in Versions(d) : u \in Versions(d)' /\ (version[d][u].embedded => version'[d][u].embedded)
    BY <1>2 DEF DocumentsGrow, LocalsStay
  <2> QED
    BY <1>1, <2>1
<1> QED
  BY <1>1, <1>2, <1>3 DEF WorkerOk, LocalsStay

\* TypeOK in three parts.
WorkersOK ==
  /\ pc \in [Workers -> {"idle", "retry", "refuse", "release"} \cup Trying]
  /\ mine \in [Workers -> [job : Jobs \cup {None}, attempt : 0..MaxAttempts]]
  /\ source \in [Workers -> [version : 0..MaxVersions, index : IndexVersions \cup {None}]]
  /\ batches \in [Workers -> 0..Batches]
  /\ silent \in [Workers -> 0..StepLimit]

\* TypeOK is the conjunction of its parts,
LEMMA TypeFact == TypeOK <=> TablesOK /\ job \in [Jobs -> JobRow] /\ WorkersOK
BY DEF TypeOK, JobRow, WorkersOK

\* also after a step.
LEMMA TypeFactNext ==
  ASSUME TablesInv', job' \in [Jobs -> JobRow], WorkersOK'
  PROVE  TypeOK'
BY DEF TypeOK, JobRow, WorkersOK, TablesInv

\* The row of a job that has succeeded.
LEMMA SucceededFact ==
  ASSUME NEW row \in JobRow, NEW new, new = [row EXCEPT !.status = "SUCCEEDED", !.lease = 0]
  PROVE  /\ new \in JobRow /\ new.status = "SUCCEEDED"
         /\ new.doc = row.doc /\ new.since = row.since
<1>1. 0 \in 0..Lease
  BY TimeAssumption
<1> QED
  BY <1>1 DEF JobRow

\* A worker that becomes idle.
LEMMA IdleFact ==
  ASSUME TypeOK, NEW w \in Workers, Idle(w)
  PROVE  /\ WorkersOK' /\ pc'[w] = "idle" /\ WorkerOk(w)'
         /\ \A v \in Workers \ {w} : LocalsStay(v)
<1> USE TimeAssumption, CountAssumption, VersionsAssumption DEF Idle, Goto
<1>1. WorkersOK
  BY TypeFact
<1>2. WorkersOK'
  <2>1. [job |-> None, attempt |-> 0] \in [job : Jobs \cup {None}, attempt : 0..MaxAttempts]
    OBVIOUS
  <2>2. NoSource \in [version : 0..MaxVersions, index : IndexVersions \cup {None}]
    BY DEF NoSource
  <2> QED
    BY <1>1, <2>1, <2>2 DEF WorkersOK
<1>3. pc'[w] = "idle" /\ \A v \in Workers \ {w} : LocalsStay(v)
  BY <1>1 DEF WorkersOK, LocalsStay
<1> QED
  BY <1>2, <1>3 DEF WorkerOk

\* A step that changes one job.
LEMMA OneJobFact ==
  ASSUME TypeOK, NEW j \in Jobs, NEW row \in JobRow, job' = [job EXCEPT ![j] = row],
         row.doc = job[j].doc, row.since = job[j].since,
         job[j].status # "NONE", row.status # "NONE"
  PROVE  /\ job' \in [Jobs -> JobRow] /\ JobsStay
         /\ job'[j] = row /\ \A i \in Jobs \ {j} : job'[i] = job[i]
BY TypeFact DEF JobsStay

\* A step of worker w, or of none, that creates no job.
LEMMA StepFact ==
  ASSUME IInv, TypeOK', TablesInv', DocumentsGrow, JobsStay,
         \A j \in Jobs : job'[j].status # "NONE" => job[j].status # "NONE",
         \A j \in Jobs :
           job'[j].status = "SUCCEEDED" => job[j].status = "SUCCEEDED" \/ SuccessOk(j)',
         \A w \in Workers : LocalsStay(w) \/ WorkerOk(w)'
  PROVE  IInv'
<1>1. ASSUME NEW w \in Workers PROVE WorkerOk(w)'
  BY WorkerFrame DEF IInv
<1>2. ASSUME NEW j \in Jobs PROVE JobOk(j)' /\ SuccessOk(j)'
  <2>1. CASE job[j].status = "NONE"
    BY <2>1 DEF JobOk, SuccessOk
  <2>2. CASE job[j].status # "NONE"
    BY <2>2, JobFrame DEF IInv
  <2> QED
    BY <2>1, <2>2
<1> QED
  BY <1>1, <1>2 DEF IInv

-----------------------------------------------------------------------------
(* Every step keeps the invariant.                                         *)

\* What a busy worker knows of its job.
LEMMA BusyFact ==
  ASSUME IInv, NEW w \in Workers, pc[w] # "idle"
  PROVE  LET j == mine[w].job IN
         /\ j \in Jobs /\ job[j] \in JobRow /\ job[j].status # "NONE"
         /\ job[j].doc \in Docs /\ document[job[j].doc].status # "ABSENT"
         /\ job[j].since <= document[job[j].doc].current
BY TypeFact DEF IInv, WorkerOk, JobOk

\* The parts of the invariant in one place.
LEMMA PartsFact ==
  IInv => TypeOK /\ TablesInv /\ WorkersOK /\ job \in [Jobs -> JobRow]
BY TypeFact DEF IInv

\* A step that changes nothing but the local variables of worker w.
LEMMA LocalStep ==
  ASSUME IInv, NEW w \in Workers, UNCHANGED <<tables, job>>, WorkersOK',
         \A v \in Workers \ {w} : LocalsStay(v), WorkerOk(w)'
  PROVE  IInv'
<1>1. TypeOK /\ TablesInv /\ job \in [Jobs -> JobRow]
  BY PartsFact
<1>2. TablesInv' /\ DocumentsGrow
  BY <1>1, SameTablesFact, SameTablesGrow
<1>3. TypeOK'
  BY <1>1, <1>2, TypeFactNext
<1>4. JobsStay
  BY DEF JobsStay
<1> QED
  BY <1>2, <1>3, <1>4, StepFact

\* A step of worker w that changes its local variables and job j.
LEMMA JobStep ==
  ASSUME IInv, NEW w \in Workers, UNCHANGED tables, WorkersOK',
         NEW j \in Jobs, NEW row \in JobRow, job' = [job EXCEPT ![j] = row],
         row.doc = job[j].doc, row.since = job[j].since,
         job[j].status # "NONE", row.status # "NONE",
         row.status = "SUCCEEDED" => job[j].status = "SUCCEEDED" \/ SuccessOk(j)',
         \A v \in Workers \ {w} : LocalsStay(v), WorkerOk(w)'
  PROVE  IInv'
<1>1. TypeOK /\ TablesInv
  BY PartsFact
<1>2. TablesInv' /\ DocumentsGrow
  BY <1>1, SameTablesFact, SameTablesGrow
<1>3. /\ job' \in [Jobs -> JobRow] /\ JobsStay
      /\ job'[j] = row /\ \A i \in Jobs \ {j} : job'[i] = job[i]
  BY <1>1, OneJobFact
<1>4. TypeOK'
  BY <1>2, <1>3, TypeFactNext
<1> QED
  BY <1>2, <1>3, <1>4, StepFact

\* claim_reindex_job keeps the invariant.
LEMMA ClaimStep ==
  ASSUME IInv, NEW w \in Workers, NEW j \in Jobs, Claim(w, j)
  PROVE  IInv'
<1> USE TimeAssumption, CountAssumption
<1>1. TypeOK /\ WorkersOK /\ job[j] \in JobRow /\ job[j].status \in Active /\ job \in [Jobs -> JobRow]
  BY PartsFact DEF Claim, Claimable
<1> DEFINE n == Increment(job[j].attempt)
           row == [job[j] EXCEPT !.status = "IN_PROGRESS", !.worker = w, !.attempt = n, !.lease = Lease]
<1>2. n \in 0..MaxAttempts
  BY <1>1 DEF JobRow, Increment
<1>3. /\ row \in JobRow /\ row.attempt = n
      /\ row.doc = job[j].doc /\ row.since = job[j].since /\ row.status = "IN_PROGRESS"
  <2>1. "IN_PROGRESS" \in Active /\ Lease \in 0..Lease /\ job[j] \in JobRow
    BY <1>1 DEF Active
  <2> HIDE DEF n
  <2> QED
    BY <1>2, <2>1 DEF JobRow
<1>4. job' = [job EXCEPT ![j] = row]
  BY DEF Claim
<1>5. job[j].status # "NONE"
  BY <1>1 DEF Active
<1>6. job'[j] = row
  BY <1>1, <1>4
<1>7. /\ source' = source /\ batches' = batches /\ silent' = silent /\ UNCHANGED tables
      /\ \/ /\ pc' = [pc EXCEPT ![w] = "source"]
            /\ mine' = [mine EXCEPT ![w] = [job |-> j, attempt |-> n]]
         \/ pc' = pc /\ mine' = mine
  <2>1. job'[j].attempt = n
    BY <1>3, <1>6
  <2> HIDE DEF n, row
  <2> QED
    BY <2>1 DEF Claim, Goto
<1> HIDE DEF n
<1>8. WorkersOK'
  <2>1. [job |-> j, attempt |-> n] \in [job : Jobs \cup {None}, attempt : 0..MaxAttempts]
    BY <1>2
  <2>2. mine' \in [Workers -> [job : Jobs \cup {None}, attempt : 0..MaxAttempts]]
    BY <2>1, <1>1, <1>7 DEF WorkersOK
  <2>3. pc' \in [Workers -> {"idle", "retry", "refuse", "release"} \cup Trying]
    BY <1>1, <1>7 DEF WorkersOK, Trying
  <2> QED
    BY <2>2, <2>3, <1>1, <1>7 DEF WorkersOK
<1>9. \A v \in Workers \ {w} : LocalsStay(v)
  BY <1>1, <1>7 DEF WorkersOK, LocalsStay
<1>10. WorkerOk(w)'
  <2>1. CASE pc' = pc /\ mine' = mine
    BY <2>1, <1>1 DEF Claim, WorkerOk
  <2>2. CASE pc' = [pc EXCEPT ![w] = "source"] /\ mine' = [mine EXCEPT ![w] = [job |-> j, attempt |-> n]]
    <3>1. pc'[w] = "source" /\ mine'[w].job = j
      BY <2>2, <1>1 DEF WorkersOK
    <3> QED
      BY <3>1, <1>6 DEF WorkerOk
  <2> QED
    BY <1>7, <2>1, <2>2
<1> HIDE DEF row
<1> QED
  BY <1>3, <1>4, <1>5, <1>7, <1>8, <1>9, <1>10, JobStep

\* get_reindex_source: the version read is no older than the job.
LEMMA ReadSourceStep ==
  ASSUME IInv, NEW w \in Workers, ReadSource(w)
  PROVE  IInv'
<1> USE CountAssumption DEF ReadSource, Goto
<1> DEFINE j == mine[w].job
           d == job[j].doc
<1>1. WorkersOK /\ TypeOK /\ pc[w] # "idle"
  BY PartsFact
<1>2. /\ j \in Jobs /\ job[j].status # "NONE" /\ d \in Docs
      /\ job[j].since <= document[d].current
  BY <1>1, BusyFact
<1>3. document[d].current \in 0..MaxVersions /\ activeIndex \in IndexVersions
  BY <1>1, <1>2 DEF TypeOK, TablesOK
<1>4. WorkersOK'
  BY <1>1, <1>3 DEF WorkersOK, Trying
<1>5. \A v \in Workers \ {w} : LocalsStay(v)
  BY <1>1 DEF WorkersOK, LocalsStay
<1>6. /\ pc'[w] = "embed" /\ mine'[w] = mine[w] /\ job' = job
      /\ source'[w].version = document[d].current /\ source'[w].index = activeIndex
  BY <1>1 DEF WorkersOK
<1>7. WorkerOk(w)'
  BY <1>2, <1>3, <1>6 DEF WorkerOk
<1> QED
  BY <1>4, <1>5, <1>7, LocalStep

\* update_reindex_job_stage: only the lease changes.
LEMMA HeartbeatStep ==
  ASSUME IInv, NEW w \in Workers, Heartbeat(w)
  PROVE  IInv'
<1> USE TimeAssumption, CountAssumption
<1> DEFINE j == mine[w].job
           row == IF job[j].status = "IN_PROGRESS" THEN [job[j] EXCEPT !.lease = Lease] ELSE job[j]
<1>1. TypeOK /\ WorkersOK /\ pc[w] = "embed" /\ WorkerOk(w) /\ job \in [Jobs -> JobRow]
  BY PartsFact DEF Heartbeat, IInv
<1>2. j \in Jobs /\ job[j] \in JobRow /\ job[j].status # "NONE"
  BY <1>1, BusyFact
<1>3. row \in JobRow /\ row.doc = job[j].doc /\ row.since = job[j].since /\ row.status = job[j].status
  BY <1>2 DEF JobRow
<1>4. job' = [job EXCEPT ![j] = row]
  BY <1>1, <1>2 DEF Heartbeat
<1>5. /\ UNCHANGED <<tables, mine, source, batches>>
      /\ silent' = [silent EXCEPT ![w] = 0]
      /\ pc' = [pc EXCEPT ![w] = IF batches[w] = 0 THEN "apply" ELSE "wait"]
  BY DEF Heartbeat, Goto
<1>6. WorkersOK' /\ \A v \in Workers \ {w} : LocalsStay(v)
  BY <1>1, <1>5 DEF WorkersOK, Trying, LocalsStay
<1>7. /\ pc'[w] = IF batches[w] = 0 THEN "apply" ELSE "wait"
      /\ batches[w] \in 0..Batches
      /\ job'[j] = row
  BY <1>1, <1>2, <1>4, <1>5 DEF WorkersOK
<1> HIDE DEF row
<1>8. WorkerOk(w)'
  BY <1>1, <1>2, <1>3, <1>5, <1>7 DEF WorkerOk
<1>9. row.status = "SUCCEEDED" => job[j].status = "SUCCEEDED"
  BY <1>3
<1> HIDE DEF j
<1> QED
  BY <1>2, <1>3, <1>4, <1>5, <1>6, <1>8, <1>9, JobStep

\* embed_documents: a batch less.
LEMMA EmbedBatchStep ==
  ASSUME IInv, NEW w \in Workers, EmbedBatch(w)
  PROVE  IInv'
<1> USE CountAssumption DEF EmbedBatch, Goto
<1>1. TypeOK /\ WorkersOK /\ pc[w] = "wait" /\ WorkerOk(w)
  BY PartsFact DEF IInv
<1>2. batches[w] > 0 /\ batches[w] \in 0..Batches
  BY <1>1 DEF WorkerOk, WorkersOK
<1>3. batches[w] - 1 \in 0..Batches
  BY <1>2
<1>4. WorkersOK' /\ \A v \in Workers \ {w} : LocalsStay(v)
  BY <1>1, <1>3 DEF WorkersOK, Trying, LocalsStay
<1>5. pc'[w] = "embed"
  BY <1>1 DEF WorkersOK
<1>6. WorkerOk(w)'
  BY <1>1, <1>5 DEF WorkerOk
<1> QED
  BY <1>4, <1>6, LocalStep

\* complete_reindex_job: the worker knows a version with vectors.
LEMMA CompleteStep ==
  ASSUME IInv, NEW w \in Workers, Complete(w)
  PROVE  IInv'
<1> USE TimeAssumption, CountAssumption
<1>0. PICK j \in Jobs : j = mine[w].job
  BY BusyFact DEF Complete
<1> DEFINE row == [job[j] EXCEPT !.status = "SUCCEEDED", !.lease = 0]
<1>1. TypeOK /\ WorkersOK /\ pc[w] = "complete" /\ WorkerOk(w) /\ job \in [Jobs -> JobRow]
  BY PartsFact DEF Complete, IInv
<1>2. job[j] \in JobRow /\ job[j].status # "NONE"
  BY <1>0, <1>1, BusyFact
<1>3. row \in JobRow /\ row.doc = job[j].doc /\ row.since = job[j].since /\ row.status = "SUCCEEDED"
  BY <1>2, SucceededFact
<1>4. job' = [job EXCEPT ![j] = row] /\ UNCHANGED tables
  BY <1>0 DEF Complete
<1> HIDE DEF row
<1>5. job'[j] = row
  BY <1>1, <1>2, <1>4
<1>6. WorkersOK' /\ WorkerOk(w)' /\ \A v \in Workers \ {w} : LocalsStay(v)
  <2>1. CASE Idle(w)
    BY <2>1, <1>1, IdleFact
  <2>2. ASSUME NEW label \in {"retry", "release"}, Goto(w, label),
               UNCHANGED <<mine, source, batches, silent>>
        PROVE  WorkersOK' /\ WorkerOk(w)' /\ \A v \in Workers \ {w} : LocalsStay(v)
    <3>1. WorkersOK' /\ \A v \in Workers \ {w} : LocalsStay(v)
      BY <2>2, <1>1 DEF WorkersOK, LocalsStay, Goto
    <3>2. pc'[w] = label
      BY <2>2, <1>1 DEF WorkersOK, Goto
    <3>3. WorkerOk(w)'
      BY <2>2, <3>2, <1>0, <1>2, <1>3, <1>5 DEF WorkerOk
    <3> QED
      BY <3>1, <3>3
  <2> QED
    BY <2>1, <2>2 DEF Complete
<1>7. SuccessOk(j)'
  <2>1. /\ job[j].since <= source[w].version
        /\ source[w].version \in Versions(job[j].doc)
        /\ version[job[j].doc][source[w].version].embedded
    BY <1>0, <1>1 DEF WorkerOk
  <2>2. PICK v, d : v = source[w].version /\ d = job[j].doc
    OBVIOUS
  <2>3. job'[j].doc = d /\ job'[j].since = job[j].since
    BY <2>2, <1>3, <1>5
  <2>4. v \in Versions(d)' /\ version'[d][v].embedded /\ job[j].since <= v
    BY <2>1, <2>2, <1>4 DEF tables, Versions
  <2>5. v \in Versions(job[j].doc)' /\ version'[job'[j].doc][v].embedded /\ job'[j].since <= v
    BY <2>3, <2>4 DEF Versions
  <2> QED
    BY <2>5 DEF SuccessOk
<1> QED
  BY <1>2, <1>3, <1>4, <1>6, <1>7, JobStep

\* apply_document_embeddings: the version has vectors now.
LEMMA ApplyStep ==
  ASSUME IInv, NEW w \in Workers, Apply(w)
  PROVE  IInv'
<1>0. PICK j, d, v, x : /\ j = mine[w].job /\ d = job[j].doc
                        /\ v = source[w].version /\ x = source[w].index
  OBVIOUS
<1>1. /\ TypeOK /\ TablesInv /\ WorkersOK /\ job \in [Jobs -> JobRow]
      /\ pc[w] = "apply" /\ WorkerOk(w)
  BY PartsFact DEF Apply, IInv
<1>2. /\ j \in Jobs /\ job[j].status # "NONE" /\ d \in Docs /\ document[d].status # "ABSENT"
      /\ job[j].since <= v /\ x \in IndexVersions
  BY <1>0, <1>1, BusyFact DEF WorkerOk
<1>3. CASE v # document[d].current /\ Goto(w, "refuse") /\ UNCHANGED tables
  <2>1. WorkersOK' /\ \A u \in Workers \ {w} : LocalsStay(u)
    BY <1>1, <1>3 DEF Apply, WorkersOK, LocalsStay, Goto
  <2>2. pc'[w] = "refuse"
    BY <1>1, <1>3 DEF WorkersOK, Goto
  <2>3. WorkerOk(w)'
    BY <2>2, <1>0, <1>2 DEF Apply, WorkerOk
  <2> QED
    BY <2>1, <2>3, <1>3, LocalStep DEF Apply
<1>4. ASSUME NEW label \in {"complete", "retry"}, Goto(w, label), ApplyEmbeddings(d, v, x)
      PROVE  IInv'
  <2>1. TablesInv'
    BY <1>1, <1>2, <1>4, ApplyFact
  <2>2. DocumentsGrow /\ v \in Versions(d)' /\ version'[d][v].embedded
    BY <1>1, <1>2, <1>4, ApplyGrows
  <2>3. WorkersOK' /\ \A u \in Workers \ {w} : LocalsStay(u)
    BY <1>1, <1>4 DEF Apply, WorkersOK, LocalsStay, Goto, Trying
  <2>4. pc'[w] = label /\ UNCHANGED <<job, mine, source, batches>>
    BY <1>1, <1>4 DEF Apply, WorkersOK, Goto
  <2>5. WorkerOk(w)'
    BY <2>2, <2>4, <1>0, <1>2 DEF WorkerOk
  <2>6. JobsStay /\ TypeOK'
    BY <2>1, <2>3, <2>4, <1>1, TypeFactNext DEF JobsStay
  <2> QED
    BY <2>1, <2>2, <2>3, <2>4, <2>5, <2>6, StepFact
<1> QED
  BY <1>0, <1>3, <1>4 DEF Apply

\* The steps that only say what comes next.
LEMMA GotoStep ==
  ASSUME IInv, NEW w \in Workers, NEW label \in {"retry", "release"}, pc[w] # "idle", Goto(w, label),
         UNCHANGED <<tables, job, mine, source, batches, silent>>
  PROVE  IInv'
<1>1. WorkersOK /\ WorkerOk(w)
  BY PartsFact DEF IInv
<1>2. WorkersOK' /\ \A u \in Workers \ {w} : LocalsStay(u)
  BY <1>1 DEF WorkersOK, LocalsStay, Goto
<1>3. pc'[w] = label
  BY <1>1 DEF WorkersOK, Goto
<1>4. WorkerOk(w)'
  BY <1>1, <1>3 DEF WorkerOk
<1> QED
  BY <1>2, <1>4, LocalStep

\* fail_reindex_job, from wherever it is called.
LEMMA WriteFailureStep ==
  ASSUME IInv, NEW w \in Workers, NEW status \in {"RETRYING", "FAILED"}, NEW lease \in 0..Lease,
         pc[w] # "idle", WriteFailure(w, status, lease)
  PROVE  IInv'
<1> DEFINE j == mine[w].job
           row == [job[j] EXCEPT !.status = status, !.lease = lease, !.worker = None]
<1>1. TypeOK /\ WorkersOK /\ job \in [Jobs -> JobRow]
  BY PartsFact
<1>2. j \in Jobs /\ job[j] \in JobRow /\ job[j].status # "NONE"
  BY BusyFact
<1>3. WorkersOK' /\ WorkerOk(w)' /\ \A v \in Workers \ {w} : LocalsStay(v)
  BY <1>1, IdleFact DEF WriteFailure
<1>4. row \in JobRow /\ row.doc = job[j].doc /\ row.since = job[j].since /\ row.status = status
  BY <1>2 DEF JobRow, Active
<1>5. CASE job' = [job EXCEPT ![j] = row]
  <2> HIDE DEF row, j
  <2> QED
    BY <1>2, <1>3, <1>4, <1>5, JobStep DEF WriteFailure
<1>6. CASE UNCHANGED job
  BY <1>3, <1>6, LocalStep DEF WriteFailure
<1> QED
  BY <1>5, <1>6 DEF WriteFailure

\* The three callers of fail_reindex_job.
LEMMA FailureStep ==
  ASSUME IInv, NEW w \in Workers, Retry(w) \/ Refuse(w) \/ Release(w)
  PROVE  IInv'
<1>1. 0 \in 0..Lease /\ RetryDelay \in 0..Lease /\ pc[w] # "idle"
  BY TimeAssumption DEF Retry, Refuse, Release
<1>2. \/ WriteFailure(w, "RETRYING", RetryDelay) \/ WriteFailure(w, "FAILED", 0)
      \/ WriteFailure(w, "RETRYING", 0)
  BY DEF Retry, Refuse, Release
<1> QED
  BY <1>1, <1>2, WriteFailureStep

\* A process dies.
LEMMA CrashStep ==
  ASSUME IInv, NEW w \in Workers, Crash(w)
  PROVE  IInv'
<1>1. WorkersOK' /\ WorkerOk(w)' /\ \A v \in Workers \ {w} : LocalsStay(v)
  BY PartsFact, IdleFact DEF Crash
<1> QED
  BY <1>1, LocalStep DEF Crash

\* Time passes.
LEMMA TickStep ==
  ASSUME IInv, Tick
  PROVE  IInv'
<1> USE TimeAssumption DEF Tick
<1>1. TypeOK /\ TablesInv /\ WorkersOK /\ job \in [Jobs -> JobRow]
  BY PartsFact
<1>2. ASSUME NEW j \in Jobs
      PROVE  /\ job'[j] \in JobRow
             /\ job'[j].status = job[j].status /\ job'[j].doc = job[j].doc
             /\ job'[j].since = job[j].since
  <2>1. job[j] \in JobRow
    BY <1>1
  <2>2. CASE job[j].lease = 0
    BY <2>1, <2>2
  <2>3. CASE job[j].lease # 0
    <3>1. job[j].lease - 1 \in 0..Lease
      BY <2>1, <2>3 DEF JobRow
    <3>2. job'[j] = [job[j] EXCEPT !.lease = job[j].lease - 1]
      BY <2>3
    <3> QED
      BY <2>1, <3>1, <3>2 DEF JobRow
  <2> QED
    BY <2>2, <2>3
<1>3. job' \in [Jobs -> JobRow]
  BY <1>2
<1>4. JobsStay
  BY <1>2 DEF JobsStay
<1>5. silent' \in [Workers -> 0..StepLimit]
  <2>1. ASSUME NEW w \in Workers, pc[w] # "idle" PROVE silent[w] + 1 \in 0..StepLimit
    BY <2>1, <1>1 DEF WorkersOK
  <2> QED
    BY <2>1
<1>6. WorkersOK'
  BY <1>1, <1>5 DEF WorkersOK, worker
<1>7. \A w \in Workers : LocalsStay(w)
  BY DEF worker, LocalsStay
<1>8. TablesInv' /\ DocumentsGrow
  BY <1>1, SameTablesFact, SameTablesGrow
<1>9. TypeOK'
  BY <1>3, <1>6, <1>8, TypeFactNext
<1> QED
  BY <1>2, <1>4, <1>7, <1>8, <1>9, StepFact

\* What a request leaves of each job, or makes of it.
LEMMA EnqueueFact ==
  ASSUME IInv, Enqueue, NEW j \in Jobs
  PROVE  \/ job'[j] = job[j]
         \/ /\ job[j].status = "NONE"
            /\ \E d \in Indexed : job'[j] = [NoJob EXCEPT !.status = "QUEUED", !.doc = d,
                                                         !.since = document[d].current]
<1>1. PICK D : D \in {{d} : d \in Indexed} \cup {Indexed, MissingVectors} /\ CreateJobs(D)
  BY DEF Enqueue
<1>2. D \subseteq Indexed
  BY <1>1 DEF MissingVectors
<1>3. PICK new \in [{d \in D : ActiveJobs(d) = {}} -> {i \in Jobs : job[i].status = "NONE"}] :
        job' = [i \in Jobs |->
                 IF \E d \in DOMAIN new : new[d] = i
                   THEN LET d == CHOOSE d \in DOMAIN new : new[d] = i
                        IN [NoJob EXCEPT !.status = "QUEUED", !.doc = d,
                                         !.since = document[d].current]
                   ELSE job[i]]
  BY <1>1 DEF CreateJobs
<1>4. CASE \E d \in DOMAIN new : new[d] = j
  <2>1. PICK d : d = CHOOSE e \in DOMAIN new : new[e] = j
    OBVIOUS
  <2>2. d \in DOMAIN new /\ new[d] = j
    BY <1>4, <2>1
  <2>3. d \in Indexed /\ job[j].status = "NONE"
    BY <2>2, <1>2, <1>3
  <2>4. job'[j] = [NoJob EXCEPT !.status = "QUEUED", !.doc = d, !.since = document[d].current]
    BY <1>3, <1>4, <2>1
  <2> QED
    BY <2>3, <2>4
<1>5. CASE ~\E d \in DOMAIN new : new[d] = j
  BY <1>3, <1>5
<1> QED
  BY <1>4, <1>5

\* Jobs are created, for documents that exist.
LEMMA EnqueueStep ==
  ASSUME IInv, Enqueue
  PROVE  IInv'
<1> USE CountAssumption, TimeAssumption
<1>1. TypeOK /\ TablesInv /\ WorkersOK /\ job \in [Jobs -> JobRow]
  BY PartsFact
<1>2. UNCHANGED <<tables, worker, silent>>
  BY DEF Enqueue
<1>3. TablesInv' /\ DocumentsGrow /\ document' = document
  BY <1>1, <1>2, SameTablesFact, SameTablesGrow DEF tables
<1>4. WorkersOK' /\ \A w \in Workers : LocalsStay(w)
  BY <1>1, <1>2 DEF WorkersOK, LocalsStay, worker
<1>5. ASSUME NEW d \in Indexed, NEW new,
             new = [NoJob EXCEPT !.status = "QUEUED", !.doc = d, !.since = document[d].current]
      PROVE  /\ new \in JobRow /\ new.status = "QUEUED" /\ new.doc = d
             /\ new.since = document[d].current /\ d \in Docs
             /\ new.since <= document'[d].current /\ document'[d].status # "ABSENT"
  <2>1. d \in Docs /\ document[d].status # "ABSENT" /\ document[d].current \in 0..MaxVersions
    BY <1>1, RowsFact DEF Indexed
  <2>2. new = [status |-> "QUEUED", doc |-> d, since |-> document[d].current,
               attempt |-> 0, lease |-> 0, worker |-> None]
    BY <1>5 DEF NoJob
  <2>3. "QUEUED" \in Active /\ 0 \in 0..Lease /\ 0 \in 0..MaxAttempts
    BY DEF Active
  <2>4. document[d].current <= document[d].current
    BY <2>1
  <2> QED
    BY <1>3, <2>1, <2>2, <2>3, <2>4 DEF JobRow
<1>6. ASSUME NEW j \in Jobs
      PROVE  \/ job'[j] = job[j]
             \/ /\ job[j].status = "NONE" /\ job'[j] \in JobRow /\ job'[j].status = "QUEUED"
                /\ job'[j].doc \in Docs /\ document'[job'[j].doc].status # "ABSENT"
                /\ job'[j].since <= document'[job'[j].doc].current
  <2>1. CASE job'[j] = job[j]
    BY <2>1
  <2>2. ASSUME NEW d \in Indexed, job[j].status = "NONE",
               job'[j] = [NoJob EXCEPT !.status = "QUEUED", !.doc = d, !.since = document[d].current]
        PROVE  /\ job'[j] \in JobRow /\ job'[j].status = "QUEUED"
               /\ job'[j].doc \in Docs /\ document'[job'[j].doc].status # "ABSENT"
               /\ job'[j].since <= document'[job'[j].doc].current
    <3> DEFINE new == job'[j]
    <3>1. new = [NoJob EXCEPT !.status = "QUEUED", !.doc = d, !.since = document[d].current]
      BY <2>2
    <3> HIDE DEF new
    <3>2. /\ new \in JobRow /\ new.status = "QUEUED" /\ new.doc = d
          /\ new.since = document[d].current /\ d \in Docs
          /\ new.since <= document'[d].current /\ document'[d].status # "ABSENT"
      BY <3>1, <1>5
    <3> QED
      BY <3>2 DEF new
  <2>3. QED
    <3>1. \/ job'[j] = job[j]
          \/ \E d \in Indexed : /\ job[j].status = "NONE"
                               /\ job'[j] = [NoJob EXCEPT !.status = "QUEUED", !.doc = d,
                                                          !.since = document[d].current]
      BY EnqueueFact
    <3> QED
      BY <2>1, <2>2, <3>1
<1>7. JobsStay
  BY <1>6 DEF JobsStay
<1>8. job' \in [Jobs -> JobRow]
  <2>1. job' = [j \in Jobs |-> job'[j]]
    BY DEF Enqueue, CreateJobs
  <2> QED
    BY <2>1, <1>1, <1>6
<1>9. TypeOK'
  BY <1>3, <1>4, <1>8, TypeFactNext
<1>10. ASSUME NEW j \in Jobs PROVE JobOk(j)' /\ SuccessOk(j)'
  <2>1. CASE job[j].status = "NONE"
    BY <2>1, <1>6 DEF JobOk, SuccessOk
  <2>2. CASE job[j].status # "NONE"
    BY <2>2, <1>1, <1>3, <1>6, <1>7, <1>9, JobFrame DEF IInv
  <2> QED
    BY <2>1, <2>2
<1>11. \A w \in Workers : WorkerOk(w)'
  BY <1>3, <1>4, <1>7, WorkerFrame DEF IInv
<1> QED
  BY <1>3, <1>9, <1>10, <1>11 DEF IInv

\* Uploads and administration: versions stay, and their vectors.
LEMMA ChangeDocumentsStep ==
  ASSUME IInv, ChangeDocuments
  PROVE  IInv'
<1>1. TypeOK /\ TablesInv /\ WorkersOK /\ job \in [Jobs -> JobRow]
  BY PartsFact
<1>2. TablesInv' /\ DocumentsGrow
  BY <1>1, SaveFact, SaveGrows, AdministrateFact, AdministrateGrows DEF ChangeDocuments
<1>3. UNCHANGED <<job, worker, silent>>
  BY DEF ChangeDocuments
<1>4. WorkersOK' /\ \A w \in Workers : LocalsStay(w)
  BY <1>1, <1>3 DEF WorkersOK, LocalsStay, worker
<1>5. TypeOK'
  BY <1>1, <1>2, <1>3, <1>4, TypeFactNext
<1> QED
  BY <1>2, <1>3, <1>4, <1>5, StepFact DEF JobsStay

\* Every step keeps the invariant.
LEMMA NextIInv == IInv /\ [Next]_vars => IInv'
<1> SUFFICES ASSUME IInv, [Next]_vars PROVE IInv'
  OBVIOUS
<1>1. ASSUME NEW w \in Workers, Work(w) PROVE IInv'
  <2>1. ASSUME StepFails(w) PROVE IInv'
    BY <2>1, GotoStep DEF StepFails, Trying
  <2> QED
    BY <1>1, <2>1, ClaimStep, ReadSourceStep, HeartbeatStep, EmbedBatchStep, ApplyStep, CompleteStep,
       FailureStep DEF Work
<1>2. ASSUME NEW w \in Workers, Stop(w) PROVE IInv'
  BY <1>2, GotoStep DEF Stop, Trying
<1>3. CASE UNCHANGED vars
  <2>1. UNCHANGED <<tables, job, worker, silent>>
    BY <1>3 DEF vars
  <2>2. TypeOK /\ TablesInv /\ WorkersOK /\ job \in [Jobs -> JobRow]
    BY PartsFact
  <2>3. TablesInv' /\ DocumentsGrow
    BY <2>1, <2>2, SameTablesFact, SameTablesGrow
  <2>4. WorkersOK' /\ \A w \in Workers : LocalsStay(w)
    BY <2>1, <2>2 DEF WorkersOK, LocalsStay, worker
  <2>5. TypeOK'
    BY <2>1, <2>2, <2>3, <2>4, TypeFactNext
  <2> QED
    BY <2>1, <2>3, <2>4, <2>5, StepFact DEF JobsStay
<1> QED
  BY <1>1, <1>2, <1>3, EnqueueStep, CrashStep, TickStep, ChangeDocumentsStep DEF Next

-----------------------------------------------------------------------------
(* Theorems.                                                               *)

\* The invariant holds in every behaviour.
THEOREM Invariant == Spec => []IInv
BY InitIInv, NextIInv, PTL DEF Spec

\* Every variable keeps to its type: no version number, attempt or lease leaves
\* its range, whichever steps fail.
THEOREM TypeCorrect == Spec => []TypeOK
<1>1. IInv => TypeOK
  BY DEF IInv
<1> QED
  BY <1>1, Invariant, PTL

\* Versions, chunks, documents and the knowledge base agree after every
\* transaction, those of reindexing workers among them (TablesAgree).
THEOREM TablesAlwaysAgree == Spec => []TablesAgree
<1>1. IInv => TablesAgree
  BY DEF IInv, TablesInv
<1> QED
  BY <1>1, Invariant, PTL

\* A job that succeeded has left vectors in a version no older than itself
\* (complete_reindex_job writes the status without a condition).
THEOREM SuccessLeavesVectors == Spec => []SucceededHasVectors
<1>1. IInv => SucceededHasVectors
  BY DEF IInv, SuccessOk, SucceededHasVectors
<1> QED
  BY <1>1, Invariant, PTL

\* Only current versions are given new vectors, although the chunks were read
\* before (apply_document_embeddings looks again under the lock).
THEOREM OldVersionsStay == Spec => OnlyCurrentReindexed
<1> DEFINE Kept == \A d \in Docs : \A v \in Versions(d) :
             LET old == version[d][v] new == version'[d][v] IN
             <<new.embedded, new.index>> # <<old.embedded, old.index>> => document[d].current = v
<1>1. IInv /\ [Next]_vars => Kept \/ UNCHANGED vars
  <2> SUFFICES ASSUME IInv, Next PROVE Kept
    BY DEF vars
  <2>1. CASE UNCHANGED version
    BY <2>1
  <2>2. CASE VectorsStay
    BY <2>2 DEF VectorsStay
  <2>3. ASSUME NEW w \in Workers, Apply(w) PROVE Kept
    <3>1. PICK d, x : d = job[mine[w].job].doc /\ x = source[w].index
      OBVIOUS
    <3>2. TablesInv /\ pc[w] = "apply" /\ d \in Docs /\ document[d].status # "ABSENT"
      BY <3>1, <2>3, PartsFact, BusyFact DEF Apply
    <3>3. x \in IndexVersions
      BY <3>1, <3>2 DEF IInv, WorkerOk
    <3>4. CASE ApplyEmbeddings(d, source[w].version, x)
      BY <3>2, <3>3, <3>4, ApplyGrows
    <3> QED
      BY <2>1, <2>3, <3>1, <3>4 DEF Apply, tables
  <2>4. CASE ChangeDocuments
    BY <2>2, <2>4, PartsFact, SaveGrows, AdministrateGrows DEF ChangeDocuments
  <2>5. CASE Enqueue
    BY <2>1, <2>5 DEF Enqueue, tables
  <2>6. CASE Tick
    BY <2>1, <2>6 DEF Tick, tables
  <2>7. ASSUME NEW w \in Workers, Work(w) \/ Stop(w) \/ Crash(w), ~Apply(w) PROVE Kept
    BY <2>1, <2>7 DEF Work, Stop, Crash, Claim, ReadSource, Heartbeat, EmbedBatch, Complete, StepFails,
                     Retry, Refuse, Release, WriteFailure, tables
  <2> QED
    BY <2>3, <2>4, <2>5, <2>6, <2>7 DEF Next
<1>2. IInv /\ [Next]_vars => [Kept]_vars
  BY <1>1
<1> QED
  BY <1>2, Invariant, PTL DEF Spec, OnlyCurrentReindexed

-----------------------------------------------------------------------------
(* If no worker is silent for as long as a lease lasts, the lease it holds *)
(* is its own.                                                             *)

Holds(w) ==
  LET j == mine[w].job IN
  pc[w] # "idle" =>
    /\ job[j].worker = w
    /\ \/ job[j].status = "IN_PROGRESS" /\ job[j].lease + silent[w] >= Lease
       \/ job[j].status = "SUCCEEDED" /\ pc[w] \in {"retry", "release"}

LeaseInv == \A w \in Workers : Holds(w)

\* The job of a busy worker is no one else's, nor can it be claimed.
LEMMA HolderFact ==
  ASSUME IInv, LeaseInv, StepLimit < Lease, NEW w \in Workers, pc[w] # "idle"
  PROVE  /\ mine[w].job \in Jobs /\ ~Claimable(mine[w].job)
         /\ job[mine[w].job].status \in {"IN_PROGRESS", "SUCCEEDED"}
         /\ \A v \in Workers \ {w} : pc[v] # "idle" => mine[v].job # mine[w].job
<1> USE TimeAssumption
<1>1. Holds(w) /\ silent[w] \in 0..StepLimit
  BY PartsFact DEF LeaseInv, WorkersOK
<1>2. mine[w].job \in Jobs /\ job[mine[w].job] \in JobRow
  BY BusyFact
<1>3. job[mine[w].job].lease \in 0..Lease
  BY <1>2 DEF JobRow
<1>4. ~Claimable(mine[w].job)
  BY <1>1, <1>3 DEF Holds, Claimable, Active
<1>5. ASSUME NEW v \in Workers \ {w}, pc[v] # "idle" PROVE mine[v].job # mine[w].job
  BY <1>1, <1>5 DEF LeaseInv, Holds
<1> QED
  BY <1>1, <1>2, <1>4, <1>5 DEF Holds

\* A worker holds its job as long as neither of them moves.
LEMMA HoldsFrame ==
  ASSUME NEW w \in Workers, Holds(w), LocalsStay(w), silent'[w] = silent[w],
         pc[w] # "idle" => job'[mine[w].job] = job[mine[w].job]
  PROVE  Holds(w)'
BY DEF Holds, LocalsStay

\* A step of worker w that changes no job but its own.
LEMMA HolderStep ==
  ASSUME IInv, LeaseInv, StepLimit < Lease, NEW w \in Workers,
         \A v \in Workers \ {w} : LocalsStay(v) /\ silent'[v] = silent[v],
         \A j \in Jobs : job'[j] = job[j] \/ Claimable(j) \/ (pc[w] # "idle" /\ j = mine[w].job),
         Holds(w)'
  PROVE  LeaseInv'
<1>1. ASSUME NEW v \in Workers \ {w} PROVE Holds(v)'
  <2>1. pc[v] # "idle" => job'[mine[v].job] = job[mine[v].job]
    BY HolderFact
  <2> QED
    BY <2>1, HoldsFrame DEF LeaseInv
<1> QED
  BY <1>1 DEF LeaseInv

\* A claimed job was held by no one.
LEMMA ClaimHolds ==
  ASSUME IInv, LeaseInv, StepLimit < Lease, NEW w \in Workers, NEW j \in Jobs, Claim(w, j)
  PROVE  LeaseInv'
<1> USE TimeAssumption
<1>1. WorkersOK /\ job \in [Jobs -> JobRow] /\ pc[w] = "idle" /\ Claimable(j)
  BY PartsFact DEF Claim
<1>2. /\ job'[j].status = "IN_PROGRESS" /\ job'[j].worker = w /\ job'[j].lease = Lease
      /\ \A i \in Jobs \ {j} : job'[i] = job[i]
  BY <1>1 DEF Claim, JobRow
<1>3. \A v \in Workers \ {w} : LocalsStay(v) /\ silent'[v] = silent[v]
  BY <1>1 DEF Claim, Goto, LocalsStay, WorkersOK
<1>4. pc'[w] = "idle" \/ mine'[w].job = j
  BY <1>1 DEF Claim, Goto, WorkersOK
<1>5. silent'[w] = silent[w] /\ silent[w] \in 0..StepLimit
  BY <1>1 DEF Claim, WorkersOK
<1>6. Holds(w)'
  BY <1>2, <1>4, <1>5 DEF Holds
<1> QED
  BY <1>1, <1>2, <1>3, <1>6, HolderStep

\* A renewed lease lasts from now on.
LEMMA HeartbeatHolds ==
  ASSUME IInv, LeaseInv, StepLimit < Lease, NEW w \in Workers, Heartbeat(w)
  PROVE  LeaseInv'
<1> USE TimeAssumption
<1>0. PICK j : j = mine[w].job
  OBVIOUS
<1>1. WorkersOK /\ job \in [Jobs -> JobRow] /\ pc[w] = "embed" /\ Holds(w)
  BY PartsFact DEF Heartbeat, LeaseInv
<1>2. j \in Jobs /\ job[j].status = "IN_PROGRESS" /\ job[j].worker = w
  BY <1>0, <1>1, HolderFact DEF Holds
<1>3. /\ job'[j].status = "IN_PROGRESS" /\ job'[j].worker = w /\ job'[j].lease = Lease
      /\ \A i \in Jobs \ {j} : job'[i] = job[i]
  BY <1>0, <1>1, <1>2 DEF Heartbeat, JobRow
<1>4. \A v \in Workers \ {w} : LocalsStay(v) /\ silent'[v] = silent[v]
  BY <1>1 DEF Heartbeat, Goto, LocalsStay, WorkersOK
<1>5. silent'[w] = 0 /\ mine'[w].job = j
  BY <1>0, <1>1 DEF Heartbeat, WorkersOK
<1>6. Holds(w)'
  BY <1>3, <1>5 DEF Holds
<1> QED
  BY <1>0, <1>1, <1>3, <1>4, <1>6, HolderStep

\* The steps that leave job, mine and silent alone, and the worker in progress.
LEMMA ProgressHolds ==
  ASSUME IInv, LeaseInv, StepLimit < Lease, NEW w \in Workers,
         ReadSource(w) \/ EmbedBatch(w) \/ Apply(w) \/ StepFails(w) \/ Stop(w)
  PROVE  LeaseInv'
<1>1. WorkersOK /\ Holds(w)
  BY PartsFact DEF LeaseInv
<1>2. /\ UNCHANGED <<job, mine, silent>>
      /\ pc[w] \in Trying
  BY DEF ReadSource, EmbedBatch, Apply, StepFails, Stop, Trying
<1>3. \A v \in Workers \ {w} : LocalsStay(v) /\ silent'[v] = silent[v]
  BY <1>1 DEF ReadSource, EmbedBatch, Apply, StepFails, Stop, Goto, LocalsStay, WorkersOK
<1>4. Holds(w)'
  BY <1>1, <1>2 DEF Holds, Trying
<1> QED
  BY <1>2, <1>3, <1>4, HolderStep

\* A worker that becomes idle, whatever it writes to its job.
LEMMA IdleHolds ==
  ASSUME IInv, LeaseInv, StepLimit < Lease, NEW w \in Workers, Idle(w), pc[w] # "idle",
         NEW row, job' = [job EXCEPT ![mine[w].job] = row] \/ job' = job
  PROVE  LeaseInv'
<1>1. WorkersOK /\ job \in [Jobs -> JobRow]
  BY PartsFact
<1>2. \A v \in Workers \ {w} : LocalsStay(v) /\ silent'[v] = silent[v]
  BY <1>1 DEF Idle, Goto, LocalsStay, WorkersOK
<1>3. pc'[w] = "idle"
  BY <1>1 DEF Idle, Goto, WorkersOK
<1>4. \A j \in Jobs : job'[j] = job[j] \/ j = mine[w].job
  BY <1>1
<1> QED
  BY <1>2, <1>3, <1>4, HolderStep DEF Holds

\* A job that succeeded has no lease and needs none: it cannot be claimed.
LEMMA CompleteHolds ==
  ASSUME IInv, LeaseInv, StepLimit < Lease, NEW w \in Workers, Complete(w)
  PROVE  LeaseInv'
<1>0. PICK j : j = mine[w].job
  OBVIOUS
<1>1. WorkersOK /\ job \in [Jobs -> JobRow] /\ pc[w] = "complete" /\ Holds(w)
  BY PartsFact DEF Complete, LeaseInv
<1>2. CASE Idle(w)
  BY <1>1, <1>2, IdleHolds DEF Complete
<1>3. ASSUME NEW label \in {"retry", "release"}, Goto(w, label),
             UNCHANGED <<mine, source, batches, silent>>
      PROVE  LeaseInv'
  <2>1. j \in Jobs /\ job[j].worker = w
    BY <1>0, <1>1, HolderFact DEF Holds
  <2>2. /\ job'[j].status = "SUCCEEDED" /\ job'[j].worker = w
        /\ \A i \in Jobs \ {j} : job'[i] = job[i]
    BY <1>0, <1>1, <2>1 DEF Complete, JobRow
  <2>3. \A v \in Workers \ {w} : LocalsStay(v) /\ silent'[v] = silent[v]
    BY <1>1, <1>3 DEF Goto, LocalsStay, WorkersOK
  <2>4. pc'[w] = label /\ mine'[w].job = j
    BY <1>0, <1>1, <1>3 DEF Goto, WorkersOK
  <2>5. Holds(w)'
    BY <2>2, <2>4 DEF Holds
  <2> QED
    BY <1>0, <1>1, <2>2, <2>3, <2>5, HolderStep
<1> QED
  BY <1>2, <1>3 DEF Complete

\* Giving up, and dying.
LEMMA FailureHolds ==
  ASSUME IInv, LeaseInv, StepLimit < Lease, NEW w \in Workers,
         Retry(w) \/ Refuse(w) \/ Release(w) \/ Crash(w)
  PROVE  LeaseInv'
<1>1. pc[w] # "idle" /\ Idle(w)
  BY DEF Retry, Refuse, Release, Crash, WriteFailure
<1>2. PICK row : job' = [job EXCEPT ![mine[w].job] = row] \/ job' = job
  BY DEF Retry, Refuse, Release, Crash, WriteFailure
<1> QED
  BY <1>1, <1>2, IdleHolds

\* A tick shortens the lease by what it adds to the silence.
LEMMA TickHolds ==
  ASSUME IInv, LeaseInv, StepLimit < Lease, Tick
  PROVE  LeaseInv'
<1> USE TimeAssumption
<1>1. ASSUME NEW w \in Workers, pc[w] # "idle" PROVE Holds(w)'
  <2>0. PICK j : j = mine[w].job
    OBVIOUS
  <2>1. /\ WorkersOK /\ job \in [Jobs -> JobRow] /\ Holds(w)
        /\ j \in Jobs /\ job[j] \in JobRow
    BY <1>1, <2>0, PartsFact, BusyFact DEF LeaseInv
  <2>2. silent[w] \in 0..StepLimit /\ job[j].lease \in 0..Lease
    BY <2>1 DEF WorkersOK, JobRow
  <2>3. silent'[w] = silent[w] + 1 /\ pc'[w] = pc[w] /\ mine'[w] = mine[w]
    BY <1>1 DEF Tick, worker
  <2>4. /\ job'[j].status = job[j].status /\ job'[j].worker = job[j].worker
        /\ job[j].lease # 0 => job'[j].lease = job[j].lease - 1
    BY <2>1 DEF Tick, JobRow
  <2> QED
    BY <1>1, <2>0, <2>1, <2>2, <2>3, <2>4 DEF Holds
<1>2. ASSUME NEW w \in Workers, pc[w] = "idle" PROVE Holds(w)'
  BY <1>2 DEF Tick, worker, Holds
<1> QED
  BY <1>1, <1>2 DEF LeaseInv

\* New jobs are rows that no one held.
LEMMA EnqueueHolds ==
  ASSUME IInv, LeaseInv, Enqueue
  PROVE  LeaseInv'
<1>1. ASSUME NEW w \in Workers, pc[w] # "idle" PROVE job'[mine[w].job] = job[mine[w].job]
  BY <1>1, BusyFact, EnqueueFact
<1>2. \A w \in Workers : LocalsStay(w) /\ silent'[w] = silent[w]
  BY DEF Enqueue, worker, LocalsStay
<1> QED
  BY <1>1, <1>2, HoldsFrame DEF LeaseInv

\* Every step keeps LeaseInv.
LEMMA NextLeaseInv ==
  ASSUME StepLimit < Lease
  PROVE  IInv /\ LeaseInv /\ [Next]_vars => LeaseInv'
<1> SUFFICES ASSUME IInv, LeaseInv, [Next]_vars PROVE LeaseInv'
  OBVIOUS
<1>1. CASE ChangeDocuments \/ UNCHANGED vars
  BY <1>1 DEF ChangeDocuments, vars, worker, LeaseInv, Holds
<1>2. ASSUME NEW w \in Workers, Work(w) \/ Stop(w) \/ Crash(w) PROVE LeaseInv'
  BY <1>2, ClaimHolds, HeartbeatHolds, ProgressHolds, CompleteHolds, FailureHolds DEF Work
<1> QED
  BY <1>1, <1>2, TickHolds, EnqueueHolds DEF Next

\* LeaseInv holds in every behaviour if no worker is silent for a lease.
THEOREM LeaseInvariant ==
  ASSUME StepLimit < Lease
  PROVE  Spec => []LeaseInv
<1>1. Init => LeaseInv
  BY DEF Init, LeaseInv, Holds
<1> QED
  BY <1>1, Invariant, NextLeaseInv, PTL DEF Spec

\* If no worker is silent for as long as a lease lasts, no two workers are at
\* one job (claim_reindex_job hands out a job whose lease has expired).
THEOREM OneWorker ==
  ASSUME StepLimit < Lease
  PROVE  Spec => []OneWorkerPerJob
<1>1. LeaseInv => OneWorkerPerJob
  BY DEF LeaseInv, Holds, OneWorkerPerJob
<1> QED
  BY <1>1, LeaseInvariant, PTL

\* Then a job that has FAILED is over, although fail_reindex_job and
\* complete_reindex_job write the status without a condition.
THEOREM FailedStays ==
  ASSUME StepLimit < Lease
  PROVE  Spec => FailedIsFinal
<1> DEFINE Final == \A j \in Jobs : job[j].status = "FAILED" => job'[j].status = "FAILED"
<1>1. IInv /\ LeaseInv /\ [Next]_vars => [Final]_vars
  <2> SUFFICES ASSUME IInv, LeaseInv, Next, NEW j \in Jobs, job[j].status = "FAILED"
               PROVE  job'[j].status = "FAILED"
    OBVIOUS
  <2>1. job \in [Jobs -> JobRow]
    BY PartsFact
  <2>2. ASSUME NEW w \in Workers, Work(w) \/ Stop(w) \/ Crash(w) PROVE job'[j] = job[j]
    <3>1. pc[w] # "idle" => mine[w].job # j
      BY HolderFact
    <3>2. ASSUME NEW i \in Jobs, Claim(w, i) PROVE i # j
      BY <3>2 DEF Claim, Claimable, Active
    <3> QED
      BY <2>1, <2>2, <3>1, <3>2
         DEF Work, Claim, ReadSource, Heartbeat, EmbedBatch, Apply, Complete, StepFails, Retry,
             Refuse, Release, Stop, Crash, WriteFailure
  <2>3. CASE Tick
    BY <2>1, <2>3 DEF Tick, JobRow
  <2>4. CASE Enqueue
    BY <2>4, EnqueueFact
  <2>5. CASE ChangeDocuments
    BY <2>5 DEF ChangeDocuments
  <2> QED
    BY <2>2, <2>3, <2>4, <2>5 DEF Next
<1> QED
  BY <1>1, Invariant, LeaseInvariant, PTL DEF Spec, FailedIsFinal
=============================================================================

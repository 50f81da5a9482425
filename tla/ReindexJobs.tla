----------------------------- MODULE ReindexJobs -----------------------------
(***************************************************************************)
(* Background jobs that renew the vectors of documents: the requests that  *)
(* create them (enqueue_document_reindex, enqueue_reindex_jobs), and the   *)
(* DocumentReindexWorker of every agent process (application/reindex.py),  *)
(* over the table jobs and the tables of Documents.                        *)
(*                                                                         *)
(* A worker leases the job it claims and renews the lease before each      *)
(* batch.  Time is counted in ticks: a lease lasts Lease ticks, and no     *)
(* worker takes more than StepLimit ticks between two renewals.            *)
(*                                                                         *)
(* Each await of a worker is one step.  It may fail without effect, take   *)
(* effect and fail, or be cancelled when the process stops.                *)
(***************************************************************************)
EXTENDS Documents

CONSTANTS
  Workers,      \* worker ids, one for each running agent process
  Jobs,         \* rows of the table jobs; a bound
  MaxAttempts,  \* max_attempts, 3 in the code
  Lease,        \* lease_seconds, 120 in the code
  RetryDelay,   \* retry_seconds, 5 in the code
  StepLimit,
  Batches       \* batches of chunks in a version

ASSUME TimeAssumption ==
  Lease \in Nat \ {0} /\ RetryDelay \in 0..Lease /\ StepLimit \in Nat
ASSUME CountAssumption == MaxAttempts \in Nat \ {0} /\ Batches \in Nat \ {0}
ASSUME WorkersAssumption == None \notin Workers \cup Jobs \cup Docs

VARIABLES
  job,      \* jobs: status, document, attempt, ticks until leased_until, worker_id
  pc,       \* where each worker is
  mine,     \* ReindexJob: the job a worker has claimed, and the attempt
  source,   \* ReindexSource: the version and the index version it has read
  batches,  \* batches it has still to embed
  silent    \* ticks since it claimed the job or renewed the lease

worker == <<pc, mine, source, batches>>
vars == <<tables, job, worker, silent>>

Active == {"QUEUED", "IN_PROGRESS", "RETRYING"}
Trying == {"source", "embed", "wait", "apply", "complete"}

\* since is the version that was current when the job was created.
TypeOK ==
  /\ TablesOK
  /\ job \in [Jobs -> [status : {"NONE", "SUCCEEDED", "FAILED"} \cup Active,
                       doc : Docs \cup {None}, since : 0..MaxVersions,
                       attempt : 0..MaxAttempts, lease : 0..Lease,
                       worker : Workers \cup {None}]]
  /\ pc \in [Workers -> {"idle", "retry", "refuse", "release"} \cup Trying]
  /\ mine \in [Workers -> [job : Jobs \cup {None}, attempt : 0..MaxAttempts]]
  /\ source \in [Workers -> [version : 0..MaxVersions, index : IndexVersions \cup {None}]]
  /\ batches \in [Workers -> 0..Batches]
  /\ silent \in [Workers -> 0..StepLimit]

NoJob == [status |-> "NONE", doc |-> None, since |-> 0, attempt |-> 0, lease |-> 0, worker |-> None]
NoSource == [version |-> 0, index |-> None]

Init ==
  /\ InitTables
  /\ job = [j \in Jobs |-> NoJob]
  /\ pc = [w \in Workers |-> "idle"]
  /\ mine = [w \in Workers |-> [job |-> None, attempt |-> 0]]
  /\ source = [w \in Workers |-> NoSource]
  /\ batches = [w \in Workers |-> 0]
  /\ silent = [w \in Workers |-> 0]

-----------------------------------------------------------------------------
(* Creating jobs.                                                          *)

ActiveJobs(d) == {j \in Jobs : job[j].doc = d /\ job[j].status \in Active}

\* _enqueue_reindex_job, for every document of D: one that has an active job
\* gets no other.  The rows of the documents are locked.
CreateJobs(D) ==
  \E new \in [{d \in D : ActiveJobs(d) = {}} -> {j \in Jobs : job[j].status = "NONE"}] :
    /\ DOMAIN new # {}
    /\ \A d, e \in DOMAIN new : new[d] = new[e] => d = e
    /\ job' = [j \in Jobs |->
                 IF \E d \in DOMAIN new : new[d] = j
                   THEN LET d == CHOOSE d \in DOMAIN new : new[d] = j
                        IN [NoJob EXCEPT !.status = "QUEUED", !.doc = d,
                                         !.since = document[d].current]
                   ELSE job[j]]

Indexed == {d \in Docs : document[d].status # "ABSENT"}
MissingVectors == {d \in Indexed : ~version[d][document[d].current].embedded}

\* enqueue_document_reindex for one document, enqueue_reindex_jobs for all of
\* the knowledge base or for those whose current version lacks vectors.
Enqueue ==
  /\ \E D \in {{d} : d \in Indexed} \cup {Indexed, MissingVectors} : CreateJobs(D)
  /\ UNCHANGED <<tables, worker, silent>>

-----------------------------------------------------------------------------
(* run_once, for worker w.                                                 *)

Goto(w, label) == pc' = [pc EXCEPT ![w] = label]

\* The worker is done with its job, or has lost it.
Idle(w) ==
  /\ Goto(w, "idle")
  /\ mine' = [mine EXCEPT ![w] = [job |-> None, attempt |-> 0]]
  /\ source' = [source EXCEPT ![w] = NoSource]
  /\ batches' = [batches EXCEPT ![w] = 0]
  /\ silent' = [silent EXCEPT ![w] = 0]

\* The attempts of a job that died under its workers may exceed the limit, which
\* nothing tells from having reached it.
Increment(n) == IF n < MaxAttempts THEN n + 1 ELSE n

\* Mutant of Claimable: the lease of a job in progress is ignored.
ClaimableWhileLeased(j) ==
  job[j].status \in Active /\ (job[j].status = "IN_PROGRESS" \/ job[j].lease = 0)

\* Mutant of Claimable: a job in progress is never taken over.
ClaimableWaiting(j) == job[j].status \in Active \ {"IN_PROGRESS"} /\ job[j].lease = 0

\* A job that waits, or whose lease has expired, may be claimed.
Claimable(j) == job[j].status \in Active /\ job[j].lease = 0

\* claim_reindex_job takes the oldest of them that no other claim has locked,
\* that is any; it may take effect and report an error.
Claim(w, j) ==
  /\ pc[w] = "idle"
  /\ Claimable(j)
  /\ job' = [job EXCEPT ![j] = [@ EXCEPT !.status = "IN_PROGRESS", !.worker = w,
                                         !.attempt = Increment(job[j].attempt), !.lease = Lease]]
  /\ \/ /\ Goto(w, "source")
        /\ mine' = [mine EXCEPT ![w] = [job |-> j, attempt |-> job'[j].attempt]]
     \/ UNCHANGED <<pc, mine>>
  /\ UNCHANGED <<tables, source, batches, silent>>

\* get_reindex_source; documents with a job have a version with chunks.
ReadSource(w) ==
  LET d == job[mine[w].job].doc IN
  /\ pc[w] = "source"
  /\ source' = [source EXCEPT ![w] = [version |-> document[d].current, index |-> activeIndex]]
  /\ batches' = [batches EXCEPT ![w] = Batches]
  /\ Goto(w, "embed")
  /\ UNCHANGED <<tables, job, mine, silent>>

\* Mutant of Heartbeat: the stage is written and the lease forgotten.
HeartbeatKeepsLease(w) ==
  /\ pc[w] = "embed"
  /\ silent' = [silent EXCEPT ![w] = 0]
  /\ Goto(w, IF batches[w] = 0 THEN "apply" ELSE "wait")
  /\ UNCHANGED <<tables, job, mine, source, batches>>

\* Mutant of Heartbeat: one batch too many.
HeartbeatOnceMore(w) ==
  LET j == mine[w].job IN
  /\ pc[w] = "embed"
  /\ job' = IF job[j].status = "IN_PROGRESS" THEN [job EXCEPT ![j].lease = Lease] ELSE job
  /\ silent' = [silent EXCEPT ![w] = 0]
  /\ Goto(w, "wait")
  /\ UNCHANGED <<tables, mine, source, batches>>

\* update_reindex_job_stage renews the lease of a job that is IN_PROGRESS,
\* before each batch and before the vectors are written.
Heartbeat(w) ==
  LET j == mine[w].job IN
  /\ pc[w] = "embed"
  /\ job' = IF job[j].status = "IN_PROGRESS" THEN [job EXCEPT ![j].lease = Lease] ELSE job
  /\ silent' = [silent EXCEPT ![w] = 0]
  /\ Goto(w, IF batches[w] = 0 THEN "apply" ELSE "wait")
  /\ UNCHANGED <<tables, mine, source, batches>>

\* embed_documents: vectors in the right number and dimension, or an error.
EmbedBatch(w) ==
  /\ pc[w] = "wait"
  /\ batches' = [batches EXCEPT ![w] = @ - 1]
  /\ Goto(w, "embed")
  /\ UNCHANGED <<tables, job, mine, source, silent>>

\* Mutant of Apply: nothing is left to do for a version that was replaced.
ApplySkipsOldVersion(w) ==
  LET d == job[mine[w].job].doc IN
  /\ pc[w] = "apply"
  /\ \/ ApplyEmbeddings(d, source[w].version, source[w].index)
     \/ document[d].current # source[w].version /\ UNCHANGED tables
  /\ Goto(w, "complete")
  /\ UNCHANGED <<job, mine, source, batches, silent>>

\* apply_document_embeddings, unless the document has another current version.
Apply(w) ==
  LET d == job[mine[w].job].doc IN
  /\ pc[w] = "apply"
  /\ \/ /\ ApplyEmbeddings(d, source[w].version, source[w].index)
        /\ \E label \in {"complete", "retry"} : Goto(w, label)
     \/ /\ document[d].current # source[w].version
        /\ Goto(w, "refuse")
        /\ UNCHANGED tables
  /\ UNCHANGED <<job, mine, source, batches, silent>>

\* complete_reindex_job: the status is written whatever it is, by whoever.  If
\* the reply is lost, or the process is stopped meanwhile, it will be undone.
Complete(w) ==
  /\ pc[w] = "complete"
  /\ job' = [job EXCEPT ![mine[w].job] = [@ EXCEPT !.status = "SUCCEEDED", !.lease = 0]]
  /\ \/ Idle(w)
     \/ /\ \E label \in {"retry", "release"} : Goto(w, label)
        /\ UNCHANGED <<mine, source, batches, silent>>
  /\ UNCHANGED tables

\* An await fails, the embedding service being down or anything else.
StepFails(w) ==
  /\ pc[w] \in Trying
  /\ Goto(w, "retry")
  /\ UNCHANGED <<tables, job, mine, source, batches, silent>>

\* fail_reindex_job, with the status and the lease it writes, whatever the
\* status was and whoever has the job; or an error, and nothing is written.
WriteFailure(w, status, lease) ==
  /\ \/ job' = [job EXCEPT ![mine[w].job] =
                  [@ EXCEPT !.status = status, !.lease = lease, !.worker = None]]
     \/ UNCHANGED job
  /\ Idle(w)
  /\ UNCHANGED tables

\* DependencyUnavailable or another exception: once more, up to max_attempts.
Retry(w) ==
  /\ pc[w] = "retry"
  /\ IF mine[w].attempt < MaxAttempts
       THEN WriteFailure(w, "RETRYING", RetryDelay)
       ELSE WriteFailure(w, "FAILED", 0)

\* InvalidRequest: the document has changed.
Refuse(w) ==
  /\ pc[w] = "refuse"
  /\ WriteFailure(w, "FAILED", 0)

\* The process stops: run_once is cancelled and gives the job back.
Stop(w) ==
  /\ pc[w] \in Trying
  /\ Goto(w, "release")
  /\ UNCHANGED <<tables, job, mine, source, batches, silent>>

Release(w) ==
  /\ pc[w] = "release"
  /\ WriteFailure(w, "RETRYING", 0)

\* The process dies, and another one is started.
Crash(w) ==
  /\ pc[w] # "idle"
  /\ Idle(w)
  /\ UNCHANGED <<tables, job>>

-----------------------------------------------------------------------------
(* Time and the rest of the system.                                        *)

\* A tick of the clock.
Tick ==
  /\ \A w \in Workers : pc[w] # "idle" => silent[w] < StepLimit
  /\ silent' = [w \in Workers |-> IF pc[w] = "idle" THEN 0 ELSE silent[w] + 1]
  /\ job' = [j \in Jobs |-> IF job[j].lease = 0 THEN job[j] ELSE [job[j] EXCEPT !.lease = @ - 1]]
  /\ UNCHANGED <<tables, worker>>

\* Uploads and administration of documents.
ChangeDocuments ==
  /\ \/ \E d \in Docs, object \in Objects, embedded \in BOOLEAN : SaveDocument(d, object, embedded)
     \/ Administrate
  /\ UNCHANGED <<job, worker, silent>>

Work(w) ==
  \/ \E j \in Jobs : Claim(w, j)
  \/ ReadSource(w) \/ Heartbeat(w) \/ EmbedBatch(w) \/ Apply(w) \/ Complete(w)
  \/ StepFails(w) \/ Retry(w) \/ Refuse(w) \/ Release(w)

Next ==
  \/ Enqueue
  \/ \E w \in Workers : Work(w) \/ Stop(w) \/ Crash(w)
  \/ Tick
  \/ ChangeDocuments

Spec == Init /\ [][Next]_vars

\* Faults that leave a job without a worker or start it again for free: they
\* stop some day.  A failing embedding service is none of them.
Fault ==
  \E w \in Workers :
    \/ Stop(w) \/ Crash(w)
    \/ Complete(w) /\ pc'[w] = "release"
    \/ \E j \in Jobs : Claim(w, j) /\ pc'[w] = "idle"
    \/ (Retry(w) \/ Refuse(w) \/ Release(w)) /\ UNCHANGED job

Fairness ==
  /\ WF_vars(Tick)
  /\ \A w \in Workers : WF_vars(Work(w))
  /\ <>[][~Fault]_vars
FairSpec == Spec /\ Fairness

-----------------------------------------------------------------------------
(* Properties.                                                             *)

\* No two workers are at one job, if every step ends before the lease does: the
\* lease, and no lock, keeps them apart.
OneWorkerPerJob ==
  \A w, v \in Workers :
    pc[w] # "idle" /\ pc[v] # "idle" /\ mine[w].job = mine[v].job => w = v

\* A job that succeeded has left vectors in a version that was current at its
\* creation or later, whoever reported the success and whatever happened since.
SucceededHasVectors ==
  \A j \in Jobs :
    job[j].status = "SUCCEEDED" =>
      \E v \in Versions(job[j].doc) : job[j].since <= v /\ version[job[j].doc][v].embedded

\* A job that has FAILED stays so: only the worker that is at a job writes its
\* status.
FailedIsFinal ==
  [][\A j \in Jobs : job[j].status = "FAILED" => job'[j].status = "FAILED"]_vars

\* Only the current version of a document is given new vectors, although the
\* chunks were read long before.
OnlyCurrentReindexed ==
  [][\A d \in Docs : \A v \in Versions(d) :
       LET old == version[d][v] new == version'[d][v] IN
       <<new.embedded, new.index>> # <<old.embedded, old.index>> => document[d].current = v]_vars

\* README.md:188: jobs survive a restart and are retried.  Every queued job ends.  It
\* need not stay so: a worker that is stopped at its completion, or loses the reply,
\* puts a job back that has SUCCEEDED (Release, Retry).
JobsEnd ==
  \A j \in Jobs : job[j].status = "QUEUED" ~> job[j].status \in {"SUCCEEDED", "FAILED"}

\* docs/python-agent-api-v1.0.md:796: a worker that has lost its lease stops
\* committing at once.  Neither the vectors nor the status are guarded by the
\* worker's id.
LostLeaseStops ==
  [][\A w \in Workers :
       /\ pc[w] \in {"apply", "complete"}
       /\ Apply(w) \/ Complete(w)
       => job[mine[w].job].worker = w]_vars
=============================================================================

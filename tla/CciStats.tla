------------------------------ MODULE CciStats ------------------------------
(***************************************************************************)
(* cci-stats: a run reads from the database which pipeline is the last     *)
(* stored, lists the pipelines from that one on, and stores each of those  *)
(* that is over, with its jobs and test results, in a transaction of its   *)
(* own, several at a time.  Runs follow each other; one may be killed.     *)
(* Every job has one test result worth storing.                            *)
(***************************************************************************)
EXTENDS Integers, FiniteSets

CONSTANTS
  Pipelines,    \* 1 .. n, in the order of CreatedAt
  Jobs,         \* the jobs of a pipeline
  MaxWorkers,   \* MaxConcurrentFetchJobs
  MaxConns,     \* connections of the pool
  MaxRuns,      \* bound on runs
  MaxCsErrors   \* bound on failed calls

ASSUME CciAssumption ==
  /\ IsFiniteSet(Pipelines) /\ Pipelines = 1 .. Cardinality(Pipelines) /\ IsFiniteSet(Jobs)
  /\ {MaxWorkers, MaxConns} \subseteq Nat \ {0} /\ {MaxRuns, MaxCsErrors} \subseteq Nat

VARIABLES
  over,      \* pipelines all of whose workflows have ended
  rows, results,  \* the database: pipelines, and test results of each job
  runner,    \* the process: state, pipelines listed and yet to be processed
  worker,    \* processPipeline of each pipeline: step, jobs and results inserted
  inTx,      \* results as the open transaction of a pipeline sees them
  conns,     \* pipelines whose transaction holds a connection
  cancelled, \* the context is cancelled, or the run over with an error
  csRuns, csErrors, \* counters
  listedOver \* history: pipelines from the cutoff on that were over when this run began

csVars == <<over, rows, results, runner, worker, inTx, conns, cancelled, csRuns, csErrors, listedOver>>
database == <<rows, results>>
history == <<csRuns, listedOver>>

NoWork == [at |-> "none", jobs |-> {}, tests |-> {}]
NoResults == [j \in Jobs |-> 0]
Exited == [at |-> "exited", todo |-> {}]

CsInit ==
  /\ over = {} /\ rows = {} /\ results = [p \in Pipelines |-> NoResults]
  /\ runner = Exited /\ worker = [p \in Pipelines |-> NoWork]
  /\ inTx = [p \in Pipelines |-> NoResults] /\ conns = {}
  /\ cancelled = FALSE /\ csRuns = 0 /\ csErrors = 0 /\ listedOver = {}

\* A pipeline ends, in any order.
Ends(p) ==
  /\ p \notin over /\ over' = over \union {p}
  /\ UNCHANGED <<database, runner, worker, inTx, conns, cancelled, csErrors, history>>

-----------------------------------------------------------------------------
(* GenerateReport. *)

\* LastPipeline: the cutoff.
Cutoff == IF rows = {} THEN 0 ELSE CHOOSE p \in rows : \A q \in rows : q <= p

\* Those not created before the cutoff; the last stored one is among them.
fetchPipelines == {p \in Pipelines : p >= Cutoff}

GenerateReport ==
  /\ runner = Exited /\ csRuns < MaxRuns
  /\ runner' = [at |-> "running", todo |-> fetchPipelines]
  /\ worker' = [p \in Pipelines |-> NoWork]
  /\ csRuns' = csRuns + 1 /\ listedOver' = {p \in over : p >= Cutoff}
  /\ cancelled' = FALSE
  /\ UNCHANGED <<over, database, inTx, conns, csErrors>>

\* LastPipeline or fetchPipelines fails: the run is over, with that error.
ListFails ==
  /\ runner = Exited /\ csRuns < MaxRuns /\ csErrors < MaxCsErrors
  /\ runner' = [at |-> "closing", todo |-> {}]
  /\ csRuns' = csRuns + 1 /\ csErrors' = csErrors + 1
  /\ listedOver' = {} /\ cancelled' = TRUE
  /\ UNCHANGED <<over, database, worker, inTx, conns>>

Busy == {p \in Pipelines : worker[p].at \notin {"none", "done"}}

\* The pool starts one of the pipelines.
Go(p) ==
  /\ runner.at # "exited" /\ p \in runner.todo /\ Cardinality(Busy) < MaxWorkers
  /\ runner' = [runner EXCEPT !.todo = @ \ {p}]
  /\ worker' = [worker EXCEPT ![p].at = "fetch"]
  /\ UNCHANGED <<over, database, inTx, conns, cancelled, csErrors, history>>

Goto(p, at) == worker' = [worker EXCEPT ![p].at = at]

\* The fetches of processPipeline, up to the test metadata: a workflow still
\* running ends it without an error.
fetchWorkflows(p) ==
  /\ worker[p].at = "fetch" /\ ~cancelled
  /\ Goto(p, IF p \in over THEN "begin" ELSE "done")
  /\ UNCHANGED <<over, database, runner, inTx, conns, cancelled, csErrors, history>>

CsCallFails == csErrors < MaxCsErrors /\ csErrors' = csErrors + 1
CsFails == (cancelled /\ UNCHANGED csErrors) \/ CsCallFails

\* A fetch fails, of itself or since the context is cancelled, or Begin, which
\* has a context of its own; the first error cancels the context of all.
FetchFails(p) ==
  /\ (worker[p].at = "fetch" /\ CsFails) \/ (worker[p].at = "begin" /\ CsCallFails)
  /\ Goto(p, "done") /\ cancelled' = TRUE
  /\ UNCHANGED <<over, database, runner, inTx, conns, history>>

\* Begin waits for a connection; the pool of a run that is closing refuses it.
Begin(p) ==
  /\ worker[p].at = "begin"
  /\ \/ /\ runner.at = "running" /\ Cardinality(conns) < MaxConns /\ Goto(p, "pipeline")
        /\ conns' = conns \union {p} /\ inTx' = [inTx EXCEPT ![p] = results[p]]
        /\ UNCHANGED cancelled
     \/ /\ runner.at = "closing" /\ Goto(p, "done") /\ cancelled' = TRUE
        /\ UNCHANGED <<conns, inTx>>
  /\ UNCHANGED <<over, database, runner, csErrors, history>>

\* ON CONFLICT DO NOTHING: a row that is there stays.
InsertPipeline(p) ==
  /\ worker[p].at = "pipeline" /\ ~cancelled
  /\ Goto(p, "jobs")
  /\ UNCHANGED <<over, database, runner, inTx, conns, cancelled, csErrors, history>>

\* Mutant of InsertJob: the results of an earlier run are left.
InsertJobOnly(p, j) ==
  /\ worker[p].at = "jobs" /\ ~cancelled /\ j \notin worker[p].jobs
  /\ worker' = [worker EXCEPT ![p].jobs = @ \union {j}]
  /\ UNCHANGED <<over, database, runner, inTx, conns, cancelled, csErrors, history>>

\* InsertJob deletes the results that the job already has.
InsertJob(p, j) ==
  /\ worker[p].at = "jobs" /\ ~cancelled /\ j \notin worker[p].jobs
  /\ inTx' = [inTx EXCEPT ![p][j] = 0]
  /\ worker' = [worker EXCEPT ![p].jobs = @ \union {j}]
  /\ UNCHANGED <<over, database, runner, conns, cancelled, csErrors, history>>

\* After all the jobs, the test results.
InsertTestResult(p, j) ==
  /\ worker[p].at = "jobs" /\ ~cancelled /\ worker[p].jobs = Jobs /\ j \notin worker[p].tests
  /\ inTx' = [inTx EXCEPT ![p][j] = @ + 1]
  /\ worker' = [worker EXCEPT ![p].tests = @ \union {j}]
  /\ UNCHANGED <<over, database, runner, conns, cancelled, csErrors, history>>

\* Mutant of InsertFails: the first error does not cancel the other pipelines.
InsertFailsAlone(p) ==
  /\ worker[p].at \in {"pipeline", "jobs"} /\ CsFails
  /\ Goto(p, "done")
  /\ UNCHANGED <<over, database, runner, inTx, conns, cancelled, history>>

\* An insert fails.  The error is not the variable that the deferred function
\* tests: the transaction stays open and keeps its connection.
InsertFails(p) ==
  /\ worker[p].at \in {"pipeline", "jobs"} /\ CsFails
  /\ Goto(p, "done") /\ cancelled' = TRUE
  /\ UNCHANGED <<over, database, runner, inTx, conns, history>>

\* Commit; done or failed, the transaction is over.
Commit(p) ==
  /\ worker[p].at = "jobs" /\ worker[p].tests = Jobs /\ Goto(p, "done")
  /\ \/ /\ ~cancelled /\ rows' = rows \union {p} /\ results' = [results EXCEPT ![p] = inTx[p]]
        /\ UNCHANGED <<cancelled, csErrors>>
     \/ CsFails /\ cancelled' = TRUE /\ UNCHANGED <<rows, results>>
  /\ conns' = conns \ {p}
  /\ UNCHANGED <<over, runner, inTx, history>>

-----------------------------------------------------------------------------
(* The process. *)

\* An interrupt: the context is cancelled and main goes on to Close.
Interrupt ==
  /\ runner.at = "running" /\ csErrors < MaxCsErrors /\ csErrors' = csErrors + 1
  /\ cancelled' = TRUE /\ runner' = [runner EXCEPT !.at = "closing"]
  /\ UNCHANGED <<over, database, worker, inTx, conns, history>>

\* The pool is done and GenerateReport returns, with the first error or none.
Wait ==
  /\ runner.at = "running" /\ runner.todo = {} /\ Busy = {}
  /\ runner' = [runner EXCEPT !.at = "closing"]
  /\ UNCHANGED <<over, database, worker, inTx, conns, cancelled, csErrors, history>>

\* Close returns when every connection is back; main returns.
CloseDb ==
  /\ runner.at = "closing" /\ conns = {}
  /\ runner' = Exited /\ worker' = [p \in Pipelines |-> NoWork]
  /\ UNCHANGED <<over, database, inTx, conns, cancelled, csErrors, history>>

\* The process is killed; the database aborts its transactions.
Kill ==
  /\ runner.at # "exited" /\ csErrors < MaxCsErrors /\ csErrors' = csErrors + 1
  /\ runner' = Exited /\ conns' = {}
  /\ worker' = [p \in Pipelines |-> NoWork] /\ cancelled' = TRUE
  /\ UNCHANGED <<over, database, inTx, history>>

Processing(p) ==
  \/ Go(p) \/ fetchWorkflows(p) \/ FetchFails(p) \/ Begin(p) \/ InsertPipeline(p)
  \/ (\E j \in Jobs : InsertJob(p, j) \/ InsertTestResult(p, j)) \/ InsertFails(p) \/ Commit(p)

CsNext ==
  \/ \E p \in Pipelines : Processing(p) \/ Ends(p)
  \/ GenerateReport \/ ListFails \/ Interrupt \/ Wait \/ CloseDb \/ Kill

CsSpec == CsInit /\ [][CsNext]_csVars

-----------------------------------------------------------------------------
(* Properties. *)

\* A stored pipeline has every test result exactly once, although the last one
\* stored is stored again by the next run, and one that is not stored has none,
\* whatever failed or was killed halfway.  A run that ends without an error has
\* stored every pipeline that was over when it began, from the last one on.
ResultsOnce ==
  /\ \A p \in Pipelines, j \in Jobs : results[p][j] = IF p \in rows THEN 1 ELSE 0
  /\ (runner.at = "closing" /\ ~cancelled) => listedOver \subseteq rows

\* The transaction of a failed insert is never rolled back and keeps its
\* connection for as long as the process runs.  Yet a worker that asks for one in
\* Begin finds fewer taken than there are workers: the first error cancels the
\* fetches of all, so that no pipeline starts after it to wait beside those that
\* were lost, and a pool with a connection for every worker never runs out.
BeginFindsConnection ==
  \A p \in Pipelines : worker[p].at = "begin" => Cardinality(conns) < MaxWorkers
=============================================================================

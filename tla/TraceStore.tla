------------------------------ MODULE TraceStore ------------------------------
(***************************************************************************)
(* One trace and its spans: ingestion through the job queue (traces.py,    *)
(* trace_service.py, persist_trace in handlers.py) and the requests that   *)
(* change or delete what is stored (trace_repo.py).                        *)
(*                                                                         *)
(* A payload is counted, queued, and merged into the rows later by the     *)
(* runner.  Requests meanwhile patch a row in two statements, an ORM       *)
(* SELECT and an UPDATE of the columns that differ from what was read, or  *)
(* change it in one.  Of a row the model keeps a column of each kind:      *)
(*   head  overwritten by every writer: name, status, started_at           *)
(*   json  nullable JSON: input, output, token_usage, cost, ...            *)
(*   text  nullable, not JSON: session_id, ended_at, model, ...            *)
(*   keys  metadata, of which every writer brings a key of its own         *)
(*   tags  of the trace only                                               *)
(***************************************************************************)
EXTENDS Naturals, FiniteSets

CONSTANTS
    Trace,      \* the row of the trace
    Spans,      \* rows of its spans
    Payloads,   \* POST /traces requests with this trace_id: a bound
    Edits,      \* PATCH and POST spans requests: a bound on those in flight
    Content,    \* what each payload supplies: nullable columns and spans
    Tag,        \* the tag of /traces/batch/tags
    NoWriter,   \* head of a row that is not there
    FieldSets,  \* sets of columns that PATCH requests name
    MaxRetries, \* of process_trace
    MaxFaults   \* bounds the failing attempts and the crashes

ASSUME TraceStoreAssumption ==
    /\ Trace \notin Spans
    /\ IsFiniteSet(Payloads)
    /\ NoWriter \notin Payloads \cup Edits
    /\ Payloads \cap Edits = {}
    /\ Content \in [Payloads -> [json : BOOLEAN, text : BOOLEAN, spans : SUBSET Spans]]
    /\ FieldSets \subseteq SUBSET {"head", "json", "text", "keys", "tags"}
    /\ MaxRetries \in Nat
    /\ MaxFaults \in Nat

VARIABLES
    row,      \* the rows; Blank where there is none
    at,       \* where the request of a payload is; accepted: counted and answered 202
    job,      \* LocalJobModel.status of the payload's job; persisted: before the mark
    turn,     \* its created_at
    tries,    \* its attempts
    merged,   \* payloads that have been stored
    req,      \* what an edit in flight has read
    faults

rowVars == <<row, merged>>
jobVars == <<at, job, turn, tries>>
vars == <<rowVars, jobVars, req, faults>>

Rows == {Trace} \cup Spans
Writers == Payloads \cup Edits
Columns == {"head", "json", "text", "keys", "tags"}
Blank == [head |-> NoWriter, json |-> FALSE, text |-> FALSE, keys |-> {}, tags |-> {}]
Idle == [op |-> "idle"]
Stored(x) == row[x].head # NoWriter

Init ==
    /\ row = [x \in Rows |-> Blank]
    /\ at = [p \in Payloads |-> "none"]
    /\ job = [p \in Payloads |-> "none"]
    /\ turn = [p \in Payloads |-> 0]
    /\ tries = [p \in Payloads |-> 0]
    /\ merged = {}
    /\ req = [e \in Edits |-> Idle]
    /\ faults = 0

-----------------------------------------------------------------------------
(***************************************************************************)
(* The ingest request                                                      *)
(***************************************************************************)

\* check_and_increment locks the organization's subscription until the request ends
Reserve(p) ==
    /\ at[p] = "none"
    /\ \A q \in Payloads : at[q] \notin {"reserved", "enqueued"}
    /\ at' = [at EXCEPT ![p] = "reserved"]
    /\ UNCHANGED <<rowVars, job, turn, tries, req, faults>>

EnqueueTrace(p) ==
    /\ at[p] = "reserved"
    /\ at' = [at EXCEPT ![p] = "enqueued"]
    /\ job' = [job EXCEPT ![p] = "queued"]
    /\ turn' = [turn EXCEPT ![p] = Cardinality({q \in Payloads : job[q] # "none"}) + 1]
    /\ UNCHANGED <<rowVars, tries, req, faults>>

\* Mutant: the request commits although nothing was enqueued
AnswerUnqueued(p) ==
    /\ at[p] \in {"reserved", "enqueued"}
    /\ at' = [at EXCEPT ![p] = "accepted"]
    /\ UNCHANGED <<rowVars, job, turn, tries, req, faults>>

\* the session commits the increment, and 202 is answered
Answer(p) ==
    /\ at[p] = "enqueued"
    /\ at' = [at EXCEPT ![p] = "accepted"]
    /\ UNCHANGED <<rowVars, job, turn, tries, req, faults>>

\* the enqueue or the commit raises: increment and decrement are rolled back
Refuse(p) ==
    /\ at[p] \in {"reserved", "enqueued"}
    /\ at' = [at EXCEPT ![p] = "refused"]
    /\ UNCHANGED <<rowVars, job, turn, tries, req, faults>>

-----------------------------------------------------------------------------
(***************************************************************************)
(* The job                                                                 *)
(***************************************************************************)
NoneHeld == \A p \in Payloads : job[p] \notin {"held", "persisted"}

\* Mutant: newest first
TakeJobNewest(p) ==
    /\ NoneHeld
    /\ job[p] = "queued"
    /\ \A q \in Payloads : job[q] = "queued" => turn[q] <= turn[p]
    /\ job' = [job EXCEPT ![p] = "held"]
    /\ tries' = [tries EXCEPT ![p] = @ + 1]
    /\ UNCHANGED <<rowVars, at, turn, req, faults>>

\* the runner takes the oldest job that is due
TakeJob(p) ==
    /\ NoneHeld
    /\ job[p] = "queued"
    /\ \A q \in Payloads : job[q] = "queued" => turn[p] <= turn[q]
    /\ job' = [job EXCEPT ![p] = "held"]
    /\ tries' = [tries EXCEPT ![p] = @ + 1]
    /\ UNCHANGED <<rowVars, at, turn, req, faults>>

\* A JSON column that is not supplied arrives as JSON null, which is not
\* SQL NULL: COALESCE prefers it to what is stored.
Merge(old, w, c) ==
    [head |-> w,
     json |-> c.json,
     text |-> c.text \/ old.text,
     keys |-> old.keys \cup {w},
     tags |-> old.tags]

Persist(p) ==
    /\ job[p] = "held"
    /\ row' = [x \in Rows |->
                 CASE x = Trace -> [Merge(row[x], p, Content[p]) EXCEPT !.tags = @ \cup {p}]
                   [] x \in Content[p].spans -> Merge(row[x], p, Content[p])
                   [] OTHER -> row[x]]
    /\ merged' = merged \cup {p}
    /\ job' = [job EXCEPT ![p] = "persisted"]
    /\ UNCHANGED <<at, turn, tries, req, faults>>

MarkCompleted(p) ==
    /\ job[p] = "persisted"
    /\ job' = [job EXCEPT ![p] = "completed"]
    /\ UNCHANGED <<rowVars, at, turn, tries, req, faults>>

\* the transaction fails: again later, for as long as the budget lasts
AttemptFails(p) ==
    /\ job[p] = "held"
    /\ faults < MaxFaults
    /\ faults' = faults + 1
    /\ job' = [job EXCEPT ![p] = IF tries[p] <= MaxRetries THEN "waiting" ELSE "failed"]
    /\ UNCHANGED <<rowVars, at, turn, tries, req>>

\* the time limit cuts the attempt, before or after its commit; no retry
TimesOut(p) ==
    /\ job[p] \in {"held", "persisted"}
    /\ faults < MaxFaults
    /\ faults' = faults + 1
    /\ job' = [job EXCEPT ![p] = "failed"]
    /\ UNCHANGED <<rowVars, at, turn, tries, req>>

RetryDelayElapses(p) ==
    /\ job[p] = "waiting"
    /\ job' = [job EXCEPT ![p] = "queued"]
    /\ UNCHANGED <<rowVars, at, turn, tries, req, faults>>

\* the claim commits and its answer is lost: RUNNING with nobody at work
ClaimIsLost(p) ==
    /\ NoneHeld
    /\ job[p] = "queued"
    /\ \A q \in Payloads : job[q] = "queued" => turn[p] <= turn[q]
    /\ faults < MaxFaults
    /\ faults' = faults + 1
    /\ job' = [job EXCEPT ![p] = "orphaned"]
    /\ tries' = [tries EXCEPT ![p] = @ + 1]
    /\ UNCHANGED <<rowVars, at, turn, req>>

\* the write that settles the attempt is lost, of schedule_retry or mark_failed
\* if nothing was stored, else of mark_completed: RUNNING, until a restart
SettleIsLost(p) ==
    /\ job[p] \in {"held", "persisted"}
    /\ faults < MaxFaults
    /\ faults' = faults + 1
    /\ job' = [job EXCEPT ![p] = "orphaned"]
    /\ UNCHANGED <<rowVars, at, turn, tries, req>>

\* requests are gone with their transactions, recover_running puts the job back
CrashAndRestart ==
    /\ faults < MaxFaults
    /\ faults' = faults + 1
    /\ at' = [p \in Payloads |-> IF at[p] \in {"reserved", "enqueued"} THEN "refused" ELSE at[p]]
    /\ job' = [p \in Payloads |->
                 IF job[p] \in {"held", "persisted", "orphaned"} THEN "queued" ELSE job[p]]
    /\ req' = [e \in Edits |-> Idle]
    /\ UNCHANGED <<rowVars, turn, tries>>

-----------------------------------------------------------------------------
(***************************************************************************)
(* Requests on what is stored                                              *)
(***************************************************************************)

\* PATCH of the trace or of a span: names columns, reads the row
LookUp(e, x, f) ==
    /\ req[e] = Idle
    /\ Stored(x)
    /\ x \in Spans => "tags" \notin f
    /\ req' = [req EXCEPT ![e] = [op |-> "patch", row |-> x, fields |-> f, seen |-> row[x]]]
    /\ UNCHANGED <<rowVars, jobVars, faults>>

\* what the request makes of the columns it names, from what it has read
Wanted(e) ==
    [head |-> e, json |-> FALSE, text |-> FALSE, keys |-> req[e].seen.keys \cup {e}, tags |-> {e}]

\* Mutant: the whole row is written back
WriteWhole(e) ==
    [c \in Columns |-> IF c \in req[e].fields THEN Wanted(e)[c] ELSE req[e].seen[c]]

\* the columns named that differ from what was read
Write(e) ==
    [c \in Columns |-> IF c \in req[e].fields /\ Wanted(e)[c] # req[e].seen[c]
                       THEN Wanted(e)[c] ELSE row[req[e].row][c]]

\* an UPDATE that finds no row raises
CommitPatch(e) ==
    /\ req[e].op = "patch"
    /\ Stored(req[e].row)
    /\ row' = [row EXCEPT ![req[e].row] = Write(e)]
    /\ req' = [req EXCEPT ![e] = Idle]
    /\ UNCHANGED <<merged, jobVars, faults>>

AddSpans(e, x) ==
    /\ req[e] = Idle
    /\ Stored(Trace)
    /\ req' = [req EXCEPT ![e] = [op |-> "add", row |-> x]]
    /\ UNCHANGED <<rowVars, jobVars, faults>>

\* the foreign key refuses spans of a trace that has been deleted since
UpsertSpan(e) ==
    /\ req[e].op = "add"
    /\ Stored(Trace)
    /\ row' = [row EXCEPT ![req[e].row] = Merge(@, e, [json |-> TRUE, text |-> TRUE])]
    /\ req' = [req EXCEPT ![e] = Idle]
    /\ UNCHANGED <<merged, jobVars, faults>>

Rollback(e) ==
    /\ req[e] # Idle
    /\ req' = [req EXCEPT ![e] = Idle]
    /\ UNCHANGED <<rowVars, jobVars, faults>>

\* one UPDATE, computed from the row as it is then: removes, then adds
BatchUpdateTags(add, remove) ==
    /\ Stored(Trace)
    /\ row' = [row EXCEPT ![Trace].tags = (@ \ remove) \cup add]
    /\ UNCHANGED <<merged, jobVars, req, faults>>

DeleteTrace ==
    /\ Stored(Trace)
    /\ row' = [x \in Rows |-> Blank]
    /\ UNCHANGED <<merged, jobVars, req, faults>>

\* deletes the traces whose session_id is set to the session's
DeleteSession == row[Trace].text /\ DeleteTrace

JobStep(p) ==
    \/ TakeJob(p)
    \/ Persist(p)
    \/ MarkCompleted(p)
    \/ RetryDelayElapses(p)

Next ==
    \/ \E p \in Payloads :
          \/ Reserve(p) \/ EnqueueTrace(p) \/ Answer(p) \/ Refuse(p)
          \/ JobStep(p) \/ AttemptFails(p) \/ TimesOut(p)
          \/ ClaimIsLost(p) \/ SettleIsLost(p)
    \/ CrashAndRestart
    \/ \E e \in Edits, x \in Rows, f \in FieldSets : LookUp(e, x, f)
    \/ \E e \in Edits, x \in Spans : AddSpans(e, x)
    \/ \E e \in Edits : CommitPatch(e) \/ UpsertSpan(e) \/ Rollback(e)
    \/ \E add \in SUBSET {Tag}, remove \in SUBSET {Tag} : BatchUpdateTags(add, remove)
    \/ DeleteTrace
    \/ DeleteSession

Spec == Init /\ [][Next]_vars

\* the runner polls without end, a delay passes
FairSpec == Spec /\ WF_vars(\E p \in Payloads : JobStep(p))

-----------------------------------------------------------------------------
(***************************************************************************)
(* Properties                                                              *)
(***************************************************************************)
RowType ==
    [head : Writers \cup {NoWriter}, json : BOOLEAN, text : BOOLEAN,
     keys : SUBSET Writers, tags : SUBSET (Writers \cup {Tag})]

(***************************************************************************)
(* Type invariant of the rows, the jobs and the requests; a span is never  *)
(* left without its trace (ON DELETE CASCADE).                             *)
(***************************************************************************)
TypeOK ==
    /\ row \in [Rows -> RowType]
    /\ \A x \in Spans : Stored(x) => Stored(Trace) /\ row[x].tags = {}
    /\ at \in [Payloads -> {"none", "reserved", "enqueued", "accepted", "refused"}]
    /\ job \in [Payloads -> {"none", "queued", "waiting", "held", "persisted",
                            "orphaned", "completed", "failed"}]
    /\ turn \in [Payloads -> Nat]
    /\ tries \in [Payloads -> Nat]
    /\ merged \subseteq Payloads
    /\ \A e \in Edits :
          \/ req[e] = Idle
          \/ req[e] \in [op : {"patch"}, row : Rows, fields : SUBSET Columns, seen : RowType]
          \/ req[e] \in [op : {"add"}, row : Spans]
    /\ faults \in Nat

(***************************************************************************)
(* What upsert_trace overwrites comes from the newest payload that has     *)
(* been stored, in the order of acceptance, until a failure reorders them: *)
(* the queue hands over payloads in the order they were accepted in,       *)
(* and nothing between the request and the row changes it.                 *)
(***************************************************************************)
NewestStands ==
    \A p \in Payloads, q \in merged :
        faults = 0 /\ row[Trace].head = p => turn[q] <= turn[p]

(***************************************************************************)
(* "Only fields present in the request body are touched": a PATCH leaves   *)
(* to the other columns what payloads, tag updates and other requests have *)
(* written since it read the row.                                          *)
(***************************************************************************)
OnlyNamedFields ==
    [][\A e \in Edits :
          CommitPatch(e) =>
              \A c \in Columns \ req[e].fields : row'[req[e].row][c] = row[req[e].row][c]]_vars

(***************************************************************************)
(* ingest_trace enqueues in a transaction of its own and commits the count *)
(* after it: a payload that was counted and answered 202 is stored in the  *)
(* end, unless its job has used up its attempts or its time, or lost the   *)
(* answer of its claim or the write that settles it.  The last leaves it   *)
(* RUNNING until a restart, from when on it is to be stored again.         *)
(***************************************************************************)
CountedIsStored ==
    \A p \in Payloads :
        at[p] = "accepted" ~> (p \in merged \/ job[p] \in {"failed", "orphaned"})

(***************************************************************************)
(* upsert_trace: "Non-null incoming scalar fields overwrite existing       *)
(* values".  A payload that does not have a field leaves it as it is.      *)
(***************************************************************************)
AbsentFieldsKept ==
    [][\A p \in Payloads, x \in Rows :
          Persist(p) => /\ row[x].json => row'[x].json
                        /\ row[x].text => row'[x].text]_vars

=============================================================================

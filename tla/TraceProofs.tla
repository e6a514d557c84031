----------------------------- MODULE TraceProofs -----------------------------
(***************************************************************************)
(* Proofs about how traces are written, TraceStore, for any number of      *)
(* payloads, spans, edits, attempts, faults and crashes, and about how     *)
(* they and their scores are read, Dashboard, for any rows, listings, page *)
(* sizes and number of commits of others.                                  *)
(***************************************************************************)
EXTENDS TraceStore, Dashboard, SetSums, SequenceTheorems

-----------------------------------------------------------------------------
(* Type correctness, with what the rows, the jobs and the requests must    *)
(* know of each other for it.                                              *)

\* a row that is not there is blank
RowsAre ==
    /\ row \in [Rows -> RowType]
    /\ \A x \in Rows : Stored(x) \/ row[x] = Blank
    /\ \A x \in Spans : Stored(x) => Stored(Trace) /\ row[x].tags = {}

\* a payload is enqueued once, by its request
JobsAre ==
    /\ at \in [Payloads -> {"none", "reserved", "enqueued", "accepted", "refused"}]
    /\ job \in [Payloads -> {"none", "queued", "waiting", "held", "persisted",
                            "orphaned", "completed", "failed"}]
    /\ turn \in [Payloads -> Nat]
    /\ tries \in [Payloads -> Nat]
    /\ merged \subseteq Payloads
    /\ faults \in Nat
    /\ \A p \in Payloads :
          /\ at[p] \in {"none", "reserved"} => job[p] = "none"
          /\ at[p] \in {"enqueued", "accepted"} => job[p] # "none"
          /\ p \in merged => job[p] # "none"

Patches == [op : {"patch"}, row : Rows, fields : SUBSET Columns, seen : RowType]
Adds == [op : {"add"}, row : Spans]

\* a PATCH of a span does not name tags
ReqsAre ==
    /\ req = [e \in Edits |-> req[e]]
    /\ \A e \in Edits :
          \/ req[e] = Idle
          \/ req[e] \in Patches /\ (req[e].row \in Spans => "tags" \notin req[e].fields)
          \/ req[e] \in Adds

TypeInv == RowsAre /\ JobsAre /\ ReqsAre

(* The type invariant gives the module's own.                              *)
LEMMA TypesAre == TypeInv => TypeOK
  BY DEF TypeInv, RowsAre, JobsAre, ReqsAre, TypeOK, Patches, Adds

(* The queue keeps the order of acceptance: turns are given out one after  *)
(* the other, and until something fails, what waits is younger than what   *)
(* has been begun, and the payload at work is the youngest of these.       *)
Enqueued == {q \in Payloads : job[q] # "none"}
Begun == {q \in Payloads : job[q] \in {"held", "persisted", "completed"}}

Turns ==
    /\ \A p \in Enqueued : turn[p] <= Cardinality(Enqueued)
    /\ \A p, q \in Enqueued : turn[p] = turn[q] => p = q

InOrder ==
    faults = 0 =>
        /\ \A p \in Payloads : job[p] \in {"none", "queued", "held", "persisted", "completed"}
        /\ merged \subseteq Begun
        /\ \A p \in Payloads, q \in Begun : job[p] = "queued" => turn[q] < turn[p]
        /\ \A p \in Payloads, q \in Begun : job[p] = "held" => turn[q] <= turn[p]

\* the trace is as one of the payloads that have been stored left it, or an edit
HeadIsMerged == row[Trace].head \in Payloads => row[Trace].head \in merged

NewestInv == Turns /\ InOrder /\ HeadIsMerged /\ NewestStands

-----------------------------------------------------------------------------

(* What a writer makes of a row is a row.                                  *)
LEMMA MergeTyped ==
    ASSUME NEW old \in RowType, NEW w \in Writers, NEW c, c.json \in BOOLEAN, c.text \in BOOLEAN
    PROVE  /\ Merge(old, w, c) \in RowType
           /\ Merge(old, w, c).head = w /\ Merge(old, w, c).tags = old.tags
<1>1. /\ old.text \in BOOLEAN /\ old.keys \in SUBSET Writers
      /\ old.tags \in SUBSET (Writers \cup {Tag})
  BY DEF RowType
<1>2. c.text \/ old.text \in BOOLEAN
  BY <1>1
<1>3. old.keys \cup {w} \in SUBSET Writers
  BY <1>1
<1> QED
  BY <1>1, <1>2, <1>3 DEF Merge, RowType

(* A blank row is a row, nobody's, without tags.                           *)
LEMMA BlankTyped == Blank \in RowType /\ Blank.head = NoWriter /\ Blank.tags = {}
  BY DEF Blank, RowType

(* Nobody is not a writer.                                                 *)
LEMMA WritersAre == \A w \in Writers : w # NoWriter
  BY TraceStoreAssumption DEF Writers

(* What a PATCH writes is a row, and columns it does not name are as       *)
(* before.                                                                 *)
LEMMA WriteTyped ==
    ASSUME RowsAre, NEW e \in Edits, req[e] \in Patches
    PROVE  /\ Write(e) \in RowType
           /\ Write(e).head \in {e, row[req[e].row].head}
           /\ "tags" \notin req[e].fields => Write(e).tags = row[req[e].row].tags
           /\ \A c \in Columns \ req[e].fields : Write(e)[c] = row[req[e].row][c]
<1> DEFINE old == row[req[e].row]
           seen == req[e].seen
<1>1. old \in RowType /\ seen \in RowType /\ req[e].fields \subseteq Columns
  BY DEF RowsAre, Patches
<1>2. e \in Writers
  BY DEF Writers
<1>3. Wanted(e) \in RowType
  BY <1>1, <1>2 DEF Wanted, RowType
<1>4. \A c \in Columns : Write(e)[c] \in {Wanted(e)[c], old[c]}
  BY DEF Write
<1>5. /\ Write(e)["head"] \in Writers \cup {NoWriter}
      /\ Write(e)["json"] \in BOOLEAN /\ Write(e)["text"] \in BOOLEAN
      /\ Write(e)["keys"] \in SUBSET Writers
      /\ Write(e)["tags"] \in SUBSET (Writers \cup {Tag})
  BY <1>1, <1>3, <1>4 DEF RowType, Columns
<1>6. Write(e) \in RowType
  BY <1>5 DEF Write, RowType, Columns
<1>7. Wanted(e).head = e
  BY DEF Wanted
<1> QED
  BY <1>4, <1>6, <1>7 DEF Write, Columns

(* An upsert heads the trace with its payload, and leaves the tags of      *)
(* spans alone.                                                            *)
LEMMA PersistIs ==
    ASSUME RowsAre, NEW p \in Payloads, Persist(p)
    PROVE  /\ row' \in [Rows -> RowType] /\ row'[Trace].head = p
           /\ \A x \in Spans : /\ row'[x] = row[x] \/ row'[x].head = p
                               /\ row'[x].tags = row[x].tags
<1> DEFINE merge(x) == Merge(row[x], p, Content[p])
           tagged == [merge(Trace) EXCEPT !.tags = @ \cup {p}]
           next(x) == CASE x = Trace -> tagged
                        [] x \in Content[p].spans -> merge(x)
                        [] OTHER -> row[x]
<1>1. row' = [x \in Rows |-> next(x)]
  BY DEF Persist
<1>2. p \in Writers
  BY DEF Writers
<1>3. \A x \in Rows : merge(x) \in RowType /\ merge(x).head = p /\ merge(x).tags = row[x].tags
  <2> SUFFICES ASSUME NEW x \in Rows
               PROVE  merge(x) \in RowType /\ merge(x).head = p /\ merge(x).tags = row[x].tags
    OBVIOUS
  <2>1. row[x] \in RowType /\ Content[p].json \in BOOLEAN /\ Content[p].text \in BOOLEAN
    BY TraceStoreAssumption DEF RowsAre
  <2> QED
    BY <1>2, <2>1, MergeTyped
<1>4. Trace \in Rows /\ Spans \subseteq Rows /\ Trace \notin Spans
  BY TraceStoreAssumption DEF Rows
<1>5. \A x \in Rows : row[x] \in RowType
  BY DEF RowsAre
<1> HIDE DEF merge
<1>6. tagged \in RowType /\ tagged.head = p
  BY <1>2, <1>3, <1>4 DEF RowType, Writers
<1> HIDE DEF tagged
<1>7. \A x \in Rows : next(x) \in RowType
  BY <1>3, <1>5, <1>6
<1>8. \A x \in Spans : /\ next(x) = row[x] \/ next(x).head = p
                       /\ next(x).tags = row[x].tags
  BY <1>3, <1>4
<1>9. next(Trace).head = p
  <2>1. Trace \notin Content[p].spans
    BY <1>4, TraceStoreAssumption
  <2> QED
    BY <1>6, <2>1
<1> HIDE DEF next
<1> QED
  BY <1>1, <1>4, <1>7, <1>8, <1>9

(* Every step keeps the types of the rows, and spans in a stored trace.    *)
LEMMA NextKeepsRows == ASSUME TypeInv, Next PROVE RowsAre'
<1> USE DEF rowVars, jobVars
<1>0. RowsAre /\ ReqsAre /\ Trace \in Rows /\ Spans \subseteq Rows /\ Trace \notin Spans
  BY TraceStoreAssumption DEF TypeInv, Rows
<1>n. \A p \in Payloads : p # NoWriter
  BY WritersAre DEF Writers
<1>1. ASSUME NEW p \in Payloads, Persist(p) PROVE RowsAre'
  <2>1. /\ row' \in [Rows -> RowType] /\ row'[Trace].head = p
        /\ \A x \in Spans : /\ row'[x] = row[x] \/ row'[x].head = p
                            /\ row'[x].tags = row[x].tags
    BY <1>0, <1>1, PersistIs
  <2>2. \A x \in Spans : row[x].tags = {}
    BY <1>0, BlankTyped DEF RowsAre
  <2>3. \A x \in Rows : x = Trace \/ x \in Spans
    BY DEF Rows
  <2> QED
    BY <1>0, <1>n, <2>1, <2>2, <2>3 DEF RowsAre, Stored
<1>2. ASSUME NEW e \in Edits, CommitPatch(e) PROVE RowsAre'
  <2>1. PICK x \in Rows : req[e].row = x /\ req[e] \in Patches /\ (x \in Spans => "tags" \notin req[e].fields)
    BY <1>0, <1>2 DEF CommitPatch, ReqsAre, Idle, Adds, Patches
  <2>2. /\ Write(e) \in RowType /\ Write(e).head \in {e, row[x].head}
        /\ x \in Spans => Write(e).tags = row[x].tags
    BY <1>0, <2>1, WriteTyped
  <2>3. Stored(x) /\ row' = [row EXCEPT ![x] = Write(e)]
    BY <1>2, <2>1 DEF CommitPatch
  <2>4. e # NoWriter
    BY WritersAre DEF Writers
  <2>5. Write(e).head # NoWriter
    BY <2>2, <2>3, <2>4 DEF Stored
  <2> HIDE DEF Write
  <2>6. row' \in [Rows -> RowType] /\ \A y \in Rows : row'[y] = IF y = x THEN Write(e) ELSE row[y]
    BY <1>0, <2>2, <2>3 DEF RowsAre
  <2> QED
    BY <1>0, <2>2, <2>3, <2>5, <2>6 DEF RowsAre, Stored
<1>3. ASSUME NEW e \in Edits, UpsertSpan(e) PROVE RowsAre'
  <2> DEFINE c == [json |-> TRUE, text |-> TRUE]
  <2>1. PICK x \in Spans : req[e].row = x
    BY <1>0, <1>3 DEF UpsertSpan, ReqsAre, Idle, Adds, Patches
  <2>2. row' = [row EXCEPT ![x] = Merge(row[x], e, c)] /\ Stored(Trace)
    BY <1>3, <2>1 DEF UpsertSpan
  <2>3. row[x] \in RowType /\ e \in Writers /\ c.json \in BOOLEAN /\ c.text \in BOOLEAN
    BY <1>0 DEF RowsAre, Writers
  <2> HIDE DEF c
  <2>4. /\ Merge(row[x], e, c) \in RowType
        /\ Merge(row[x], e, c).head = e /\ Merge(row[x], e, c).tags = row[x].tags
    BY <2>3, MergeTyped
  <2>5. row[x].tags = {} /\ e # NoWriter
    BY <1>0, <2>3, BlankTyped, WritersAre DEF RowsAre
  <2>6. row' \in [Rows -> RowType] /\ \A y \in Rows : row'[y] = IF y = x THEN Merge(row[x], e, c) ELSE row[y]
    BY <1>0, <2>2, <2>4 DEF RowsAre
  <2> QED
    BY <1>0, <2>2, <2>4, <2>5, <2>6 DEF RowsAre, Stored
<1>4. ASSUME NEW add \in SUBSET {Tag}, NEW remove \in SUBSET {Tag}, BatchUpdateTags(add, remove) PROVE RowsAre'
  <2> DEFINE new == [row[Trace] EXCEPT !.tags = (@ \ remove) \cup add]
  <2>1. row' = [row EXCEPT ![Trace] = new] /\ Stored(Trace)
    BY <1>4 DEF BatchUpdateTags
  <2>2. row[Trace] \in RowType
    BY <1>0 DEF RowsAre
  <2>3. new \in RowType /\ new.head = row[Trace].head
    BY <2>2 DEF RowType
  <2> HIDE DEF new
  <2>4. row' \in [Rows -> RowType] /\ \A y \in Rows : row'[y] = IF y = Trace THEN new ELSE row[y]
    BY <1>0, <2>1, <2>3 DEF RowsAre
  <2> QED
    BY <1>0, <2>1, <2>3, <2>4 DEF RowsAre, Stored
<1>5. CASE DeleteTrace
  <2>1. row' = [x \in Rows |-> Blank]
    BY <1>5 DEF DeleteTrace
  <2>2. row' \in [Rows -> RowType] /\ \A x \in Rows : row'[x] = Blank
    BY <2>1, BlankTyped
  <2> QED
    BY <1>0, <2>2, BlankTyped DEF RowsAre, Stored
<1>u. ASSUME UNCHANGED row PROVE RowsAre'
  BY <1>0, <1>u DEF RowsAre, Stored
<1>6. ASSUME NEW p \in Payloads,
             \/ Reserve(p) \/ EnqueueTrace(p) \/ Answer(p) \/ Refuse(p) \/ TakeJob(p) \/ MarkCompleted(p)
             \/ RetryDelayElapses(p) \/ AttemptFails(p) \/ TimesOut(p) \/ ClaimIsLost(p) \/ SettleIsLost(p)
      PROVE  RowsAre'
  BY <1>6, <1>u DEF Reserve, EnqueueTrace, Answer, Refuse, TakeJob, MarkCompleted, RetryDelayElapses,
     AttemptFails, TimesOut, ClaimIsLost, SettleIsLost
<1>7. CASE CrashAndRestart
  BY <1>7, <1>u DEF CrashAndRestart
<1>8. ASSUME NEW e \in Edits, NEW x \in Rows, NEW f \in FieldSets, LookUp(e, x, f) PROVE RowsAre'
  BY <1>8, <1>u DEF LookUp
<1>9. ASSUME NEW e \in Edits, NEW x \in Spans, AddSpans(e, x) PROVE RowsAre'
  BY <1>9, <1>u DEF AddSpans
<1>10. ASSUME NEW e \in Edits, Rollback(e) PROVE RowsAre'
  BY <1>10, <1>u DEF Rollback
<1> QED
  BY <1>1, <1>2, <1>3, <1>4, <1>5, <1>6, <1>7, <1>8, <1>9, <1>10 DEF Next, JobStep, DeleteSession

(* Every step keeps the types of the edits under way.                      *)
LEMMA NextKeepsReqs == ASSUME TypeInv, Next PROVE ReqsAre'
<1> USE DEF rowVars, jobVars
<1>0. RowsAre /\ ReqsAre
  BY DEF TypeInv
<1>1. ASSUME NEW e \in Edits, NEW x \in Rows, NEW f \in FieldSets, LookUp(e, x, f) PROVE ReqsAre'
  <2> DEFINE patch == [op |-> "patch", row |-> x, fields |-> f, seen |-> row[x]]
  <2>1. /\ patch \in Patches /\ (patch.row \in Spans => "tags" \notin patch.fields)
        /\ req' = [req EXCEPT ![e] = patch]
    <3>1. f \in SUBSET Columns /\ row[x] \in RowType
      BY <1>0, TraceStoreAssumption DEF Columns, RowsAre
    <3> QED
      BY <1>1, <3>1 DEF LookUp, Patches
  <2> HIDE DEF patch
  <2>2. req' = [d \in Edits |-> IF d = e THEN patch ELSE req[d]]
    BY <1>0, <2>1 DEF ReqsAre
  <2> QED
    BY <1>0, <2>1, <2>2 DEF ReqsAre
<1>2. ASSUME NEW e \in Edits, NEW x \in Spans, AddSpans(e, x) PROVE ReqsAre'
  <2> DEFINE add == [op |-> "add", row |-> x]
  <2>1. add \in Adds /\ req' = [req EXCEPT ![e] = add]
    BY <1>2 DEF AddSpans, Adds
  <2> HIDE DEF add
  <2>2. req' = [d \in Edits |-> IF d = e THEN add ELSE req[d]]
    BY <1>0, <2>1 DEF ReqsAre
  <2> QED
    BY <1>0, <2>1, <2>2 DEF ReqsAre
<1>3. ASSUME NEW e \in Edits, CommitPatch(e) \/ UpsertSpan(e) \/ Rollback(e) PROVE ReqsAre'
  <2>1. req' = [req EXCEPT ![e] = Idle]
    BY <1>3 DEF CommitPatch, UpsertSpan, Rollback
  <2>2. req' = [d \in Edits |-> IF d = e THEN Idle ELSE req[d]]
    BY <1>0, <2>1 DEF ReqsAre
  <2> QED
    BY <1>0, <2>2 DEF ReqsAre
<1>4. CASE CrashAndRestart
  BY <1>4 DEF CrashAndRestart, ReqsAre
<1>u. ASSUME UNCHANGED req PROVE ReqsAre'
  BY <1>0, <1>u DEF ReqsAre
<1>5. ASSUME NEW p \in Payloads,
             \/ Reserve(p) \/ EnqueueTrace(p) \/ Answer(p) \/ Refuse(p) \/ TakeJob(p) \/ Persist(p)
             \/ MarkCompleted(p) \/ RetryDelayElapses(p) \/ AttemptFails(p) \/ TimesOut(p)
             \/ ClaimIsLost(p) \/ SettleIsLost(p)
      PROVE  ReqsAre'
  BY <1>5, <1>u DEF Reserve, EnqueueTrace, Answer, Refuse, TakeJob, Persist, MarkCompleted,
     RetryDelayElapses, AttemptFails, TimesOut, ClaimIsLost, SettleIsLost
<1>6. ASSUME NEW add \in SUBSET {Tag}, NEW remove \in SUBSET {Tag}, BatchUpdateTags(add, remove) PROVE ReqsAre'
  BY <1>6, <1>u DEF BatchUpdateTags
<1>7. CASE DeleteTrace
  BY <1>7, <1>u DEF DeleteTrace
<1> QED
  BY <1>1, <1>2, <1>3, <1>4, <1>5, <1>6, <1>7 DEF Next, JobStep, DeleteSession

(* The enqueued payloads can be counted, now and after a step.             *)
LEMMA EnqueuedCounts ==
    /\ IsFiniteSet(Enqueued) /\ Cardinality(Enqueued) \in Nat
    /\ IsFiniteSet(Enqueued') /\ Cardinality(Enqueued') \in Nat
  BY TraceStoreAssumption, FS_Subset, FS_CardinalityType DEF Enqueued

(* A step of the queue on a payload that is enqueued keeps the types of    *)
(* jobs.                                                                   *)
LEMMA JobChanges ==
    ASSUME JobsAre, NEW p \in Payloads,
           NEW j \in {"queued", "waiting", "held", "persisted", "orphaned", "completed", "failed"},
           job[p] # "none", job' = [job EXCEPT ![p] = j], UNCHANGED <<at, turn>>,
           tries' \in [Payloads -> Nat], faults' \in Nat, merged' \subseteq merged \cup {p}
    PROVE  JobsAre'
<1>1. \A q \in Payloads : job'[q] = IF q = p THEN j ELSE job[q]
  BY DEF JobsAre
<1> QED
  BY <1>1 DEF JobsAre

(* Every step keeps the types of the jobs.                                 *)
LEMMA NextKeepsJobs == ASSUME TypeInv, Next PROVE JobsAre'
<1> USE DEF rowVars, jobVars
<1>0. JobsAre
  BY DEF TypeInv
<1>1. ASSUME NEW p \in Payloads, EnqueueTrace(p) PROVE JobsAre'
  <2>1. Cardinality({q \in Payloads : job[q] # "none"}) + 1 \in Nat
    BY EnqueuedCounts DEF Enqueued
  <2>2. turn' \in [Payloads -> Nat]
    BY <1>0, <1>1, <2>1 DEF EnqueueTrace, JobsAre
  <2> QED
    BY <1>0, <1>1, <2>2 DEF EnqueueTrace, JobsAre
<1>2. ASSUME NEW p \in Payloads, Reserve(p) \/ Answer(p) \/ Refuse(p) PROVE JobsAre'
  BY <1>0, <1>2 DEF Reserve, Answer, Refuse, JobsAre
<1>3. ASSUME NEW p \in Payloads, TakeJob(p) \/ ClaimIsLost(p) PROVE JobsAre'
  <2>1. tries' \in [Payloads -> Nat] /\ faults' \in Nat
    BY <1>0, <1>3 DEF TakeJob, ClaimIsLost, JobsAre
  <2>2. \E j \in {"held", "orphaned"} : job' = [job EXCEPT ![p] = j]
    BY <1>3 DEF TakeJob, ClaimIsLost
  <2>3. job[p] # "none" /\ UNCHANGED <<at, turn, merged>>
    BY <1>3 DEF TakeJob, ClaimIsLost
  <2> QED
    BY <1>0, <2>1, <2>2, <2>3, JobChanges
<1>4. ASSUME NEW p \in Payloads,
             \/ Persist(p) \/ MarkCompleted(p) \/ RetryDelayElapses(p)
             \/ AttemptFails(p) \/ TimesOut(p) \/ SettleIsLost(p)
      PROVE  JobsAre'
  <2>1. /\ tries' \in [Payloads -> Nat] /\ faults' \in Nat /\ merged' \subseteq merged \cup {p}
        /\ UNCHANGED <<at, turn>> /\ job[p] # "none"
    BY <1>0, <1>4 DEF Persist, MarkCompleted, RetryDelayElapses, AttemptFails, TimesOut, SettleIsLost, JobsAre
  <2>2. \E j \in {"queued", "waiting", "held", "persisted", "orphaned", "completed", "failed"} :
            job' = [job EXCEPT ![p] = j]
    BY <1>4 DEF Persist, MarkCompleted, RetryDelayElapses, AttemptFails, TimesOut, SettleIsLost
  <2> QED
    BY <1>0, <2>1, <2>2, JobChanges
<1>5. CASE CrashAndRestart
  BY <1>0, <1>5 DEF CrashAndRestart, JobsAre
<1>6. ASSUME UNCHANGED <<jobVars, merged, faults>> PROVE JobsAre'
  BY <1>0, <1>6 DEF JobsAre
<1>7. ASSUME NEW e \in Edits, CommitPatch(e) \/ UpsertSpan(e) \/ Rollback(e) PROVE JobsAre'
  BY <1>6, <1>7 DEF CommitPatch, UpsertSpan, Rollback
<1>8. ASSUME NEW e \in Edits, NEW x \in Rows, NEW f \in FieldSets, LookUp(e, x, f) PROVE JobsAre'
  BY <1>6, <1>8 DEF LookUp
<1>9. ASSUME NEW e \in Edits, NEW x \in Spans, AddSpans(e, x) PROVE JobsAre'
  BY <1>6, <1>9 DEF AddSpans
<1>10. ASSUME NEW add \in SUBSET {Tag}, NEW remove \in SUBSET {Tag}, BatchUpdateTags(add, remove) PROVE JobsAre'
  BY <1>6, <1>10 DEF BatchUpdateTags
<1>11. CASE DeleteTrace
  BY <1>6, <1>11 DEF DeleteTrace
<1> QED
  BY <1>1, <1>2, <1>3, <1>4, <1>5, <1>7, <1>8, <1>9, <1>10, <1>11 DEF Next, JobStep, DeleteSession

(* Nothing is stored, enqueued or under way at the start.                  *)
LEMMA InitTyped == Init => TypeInv
<1> SUFFICES ASSUME Init PROVE TypeInv
  OBVIOUS
<1>1. RowsAre
  <2>1. row \in [Rows -> RowType] /\ \A x \in Rows : row[x] = Blank
    BY BlankTyped DEF Init
  <2>2. Spans \subseteq Rows
    BY DEF Rows
  <2> QED
    BY <2>1, <2>2, BlankTyped DEF RowsAre, Stored
<1>2. JobsAre
  BY DEF Init, JobsAre
<1>3. ReqsAre
  BY DEF Init, ReqsAre
<1> QED
  BY <1>1, <1>2, <1>3 DEF TypeInv

(* The type invariant is inductive.                                        *)
LEMMA NextKeepsTypes == TypeInv /\ [Next]_vars => TypeInv'
<1>1. ASSUME TypeInv, UNCHANGED vars PROVE TypeInv'
  BY <1>1 DEF vars, rowVars, jobVars, TypeInv, RowsAre, Stored, JobsAre, ReqsAre
<1> QED
  BY <1>1, NextKeepsRows, NextKeepsJobs, NextKeepsReqs DEF TypeInv

(* The rows, the jobs and the requests are well typed, and no span is left *)
(* without its trace, whoever writes and deletes meanwhile.                *)
THEOREM TypeCorrect == Spec => []TypeOK
  BY InitTyped, NextKeepsTypes, TypesAre, PTL DEF Spec

-----------------------------------------------------------------------------
(* The newest payload stands.                                              *)

(* Turns stay where nothing is enqueued.                                   *)
LEMMA SameTurns ==
    ASSUME Turns, UNCHANGED turn, Enqueued' = Enqueued
    PROVE  Turns'
  BY DEF Turns

(* Turns is inductive: who is enqueued has the next turn.                  *)
LEMMA NextKeepsTurns == ASSUME TypeInv, Turns, [Next]_vars PROVE Turns'
<1> USE DEF rowVars, jobVars
<1>0. JobsAre
  BY DEF TypeInv
<1>1. ASSUME NEW p \in Payloads, EnqueueTrace(p) PROVE Turns'
  <2>1. p \notin Enqueued /\ Enqueued' = Enqueued \cup {p}
    BY <1>0, <1>1 DEF EnqueueTrace, Enqueued, JobsAre
  <2>2. Cardinality(Enqueued') = Cardinality(Enqueued) + 1 /\ Cardinality(Enqueued) \in Nat
    BY <2>1, EnqueuedCounts, FS_AddElement
  <2>3. /\ turn'[p] = Cardinality(Enqueued) + 1
        /\ \A q \in Payloads : turn[q] \in Nat /\ (q # p => turn'[q] = turn[q])
    BY <1>0, <1>1 DEF EnqueueTrace, Enqueued, JobsAre
  <2>4. \A q \in Enqueued : q \in Payloads /\ q # p /\ turn[q] <= Cardinality(Enqueued)
    BY <2>1 DEF Enqueued, Turns
  <2>5. \A q \in Enqueued' : turn'[q] <= Cardinality(Enqueued')
    BY <2>1, <2>2, <2>3, <2>4
  <2>6. ASSUME NEW q \in Enqueued', NEW r \in Enqueued', turn'[q] = turn'[r] PROVE q = r
    <3>1. CASE q \in Enqueued /\ r \in Enqueued
      BY <2>3, <2>4, <2>6, <3>1 DEF Turns
    <3>2. CASE q = p \/ r = p
      BY <2>1, <2>2, <2>3, <2>4, <2>6, <3>2
    <3> QED
      BY <2>1, <3>1, <3>2
  <2> QED
    BY <2>5, <2>6 DEF Turns
<1>s. ASSUME UNCHANGED turn, \A q \in Payloads : job'[q] # "none" <=> job[q] # "none" PROVE Turns'
  <2>1. Enqueued' = Enqueued
    BY <1>s DEF Enqueued
  <2> QED
    BY <1>s, <2>1, SameTurns
<1>2. ASSUME NEW p \in Payloads,
             NEW j \in {"queued", "waiting", "held", "persisted", "orphaned", "completed", "failed"},
             UNCHANGED turn, job[p] # "none", job' = [job EXCEPT ![p] = j]
      PROVE  Turns'
  BY <1>0, <1>2, <1>s DEF JobsAre
<1>3. ASSUME NEW p \in Payloads,
             \/ TakeJob(p) \/ Persist(p) \/ MarkCompleted(p) \/ RetryDelayElapses(p)
             \/ AttemptFails(p) \/ TimesOut(p) \/ ClaimIsLost(p) \/ SettleIsLost(p)
      PROVE  Turns'
  BY <1>2, <1>3
  DEF TakeJob, Persist, MarkCompleted, RetryDelayElapses, AttemptFails, TimesOut, ClaimIsLost,
      SettleIsLost
<1>4. CASE CrashAndRestart
  <2>1. UNCHANGED turn /\ \A q \in Payloads : job'[q] # "none" <=> job[q] # "none"
    BY <1>0, <1>4 DEF CrashAndRestart, JobsAre
  <2> QED
    BY <1>s, <2>1
<1>5. ASSUME NEW p \in Payloads, Reserve(p) \/ Answer(p) \/ Refuse(p) PROVE Turns'
  BY <1>5, <1>s DEF Reserve, Answer, Refuse
<1>6. ASSUME NEW e \in Edits, CommitPatch(e) \/ UpsertSpan(e) \/ Rollback(e) PROVE Turns'
  BY <1>6, <1>s DEF CommitPatch, UpsertSpan, Rollback
<1>7. ASSUME NEW e \in Edits, NEW x \in Rows, NEW f \in FieldSets, LookUp(e, x, f) PROVE Turns'
  BY <1>7, <1>s DEF LookUp
<1>8. ASSUME NEW e \in Edits, NEW x \in Spans, AddSpans(e, x) PROVE Turns'
  BY <1>8, <1>s DEF AddSpans
<1>9. ASSUME NEW add \in SUBSET {Tag}, NEW remove \in SUBSET {Tag}, BatchUpdateTags(add, remove) PROVE Turns'
  BY <1>9, <1>s DEF BatchUpdateTags
<1>10. CASE DeleteTrace \/ UNCHANGED vars
  BY <1>10, <1>s DEF DeleteTrace, vars
<1> QED
  BY <1>1, <1>3, <1>4, <1>5, <1>6, <1>7, <1>8, <1>9, <1>10 DEF Next, JobStep, DeleteSession

(* A step that leaves the queue alone and gives the row no other payload   *)
(* keeps the order, and the newest payload.                                *)
LEMMA QueueAside ==
    ASSUME InOrder, HeadIsMerged, NewestStands, UNCHANGED <<job, turn, merged>>,
           faults' = 0 => faults = 0,
           row'[Trace].head \in Payloads => row'[Trace].head = row[Trace].head
    PROVE  InOrder' /\ HeadIsMerged' /\ NewestStands'
<1>1. Begun' = Begun
  BY DEF Begun
<1>2. InOrder'
  BY <1>1 DEF InOrder
<1>3. HeadIsMerged'
  BY DEF HeadIsMerged
<1>4. NewestStands'
  BY DEF NewestStands
<1> QED
  BY <1>2, <1>3, <1>4

(* The order of the queue, what heads the row and the newest payload are   *)
(* kept together.                                                          *)
LEMMA NextKeepsOrder ==
    ASSUME TypeInv, NewestInv, [Next]_vars
    PROVE  InOrder' /\ HeadIsMerged' /\ NewestStands'
<1> USE DEF rowVars, jobVars
<1>0. RowsAre /\ JobsAre /\ ReqsAre /\ Turns /\ InOrder /\ HeadIsMerged /\ NewestStands
  BY DEF TypeInv, NewestInv
<1>t. Trace \in Rows /\ Trace \notin Spans
  BY TraceStoreAssumption DEF Rows
<1>b. Begun \subseteq Enqueued /\ Begun \subseteq Payloads
  BY DEF Begun, Enqueued
<1>1. ASSUME NEW p \in Payloads, EnqueueTrace(p) PROVE InOrder' /\ HeadIsMerged' /\ NewestStands'
  <2>1. /\ job[p] = "none" /\ job' = [job EXCEPT ![p] = "queued"]
        /\ turn' = [turn EXCEPT ![p] = Cardinality(Enqueued) + 1]
        /\ UNCHANGED <<row, merged, faults>>
    BY <1>0, <1>1 DEF EnqueueTrace, JobsAre, Enqueued
  <2>2. p \notin Begun /\ p \notin merged /\ merged \subseteq Payloads
    BY <1>0, <2>1 DEF Begun, JobsAre
  <2>3. \A q \in Payloads : q # p => job'[q] = job[q] /\ turn'[q] = turn[q]
    BY <1>0, <2>1 DEF JobsAre
  <2>4. job'[p] = "queued" /\ turn'[p] = Cardinality(Enqueued) + 1
    BY <1>0, <2>1 DEF JobsAre
  <2>5. Begun' = Begun
    BY <2>2, <2>3, <2>4 DEF Begun
  <2>6. \A q \in Begun : turn'[q] < turn'[p]
    <3> SUFFICES ASSUME NEW q \in Begun PROVE turn'[q] < turn'[p]
      OBVIOUS
    <3>1. turn[q] <= Cardinality(Enqueued) /\ turn[q] \in Nat /\ turn'[q] = turn[q]
      BY <1>0, <1>b, <2>2, <2>3 DEF Turns, JobsAre
    <3> QED
      BY <2>4, <3>1, EnqueuedCounts
  <2>7. InOrder'
    BY <1>0, <1>b, <2>1, <2>2, <2>3, <2>4, <2>5, <2>6 DEF InOrder
  <2>8. HeadIsMerged'
    BY <1>0, <2>1 DEF HeadIsMerged
  <2>9. NewestStands'
    BY <1>0, <2>1, <2>2, <2>3 DEF HeadIsMerged, NewestStands
  <2> QED
    BY <2>7, <2>8, <2>9
<1>2. ASSUME NEW p \in Payloads, TakeJob(p) PROVE InOrder' /\ HeadIsMerged' /\ NewestStands'
  <2>1. /\ job[p] = "queued" /\ \A q \in Payloads : job[q] = "queued" => turn[p] <= turn[q]
        /\ job' = [job EXCEPT ![p] = "held"] /\ UNCHANGED <<row, merged, turn, faults>>
        /\ \A q \in Payloads : job[q] \notin {"held", "persisted"}
    BY <1>2 DEF TakeJob, NoneHeld
  <2>2. \A q \in Payloads : job'[q] = IF q = p THEN "held" ELSE job[q]
    BY <1>0, <2>1 DEF JobsAre
  <2>3. Begun' = Begun \cup {p}
    BY <2>1, <2>2 DEF Begun
  <2>4. ASSUME faults = 0, NEW q \in Payloads, q # p, job[q] = "queued" PROVE turn[p] < turn[q]
    <3>1. turn[p] <= turn[q] /\ turn[p] # turn[q] /\ turn[p] \in Nat /\ turn[q] \in Nat
      BY <1>0, <2>1, <2>4 DEF Turns, Enqueued, JobsAre
    <3> QED
      BY <3>1
  <2>5. ASSUME faults = 0 PROVE \A q \in Begun : turn[q] <= turn[p]
    <3> SUFFICES ASSUME NEW q \in Begun PROVE turn[q] <= turn[p]
      OBVIOUS
    <3>1. turn[q] < turn[p] /\ turn[p] \in Nat /\ turn[q] \in Nat
      BY <1>0, <1>b, <2>1, <2>5 DEF InOrder, JobsAre
    <3> QED
      BY <3>1
  <2>6. ASSUME faults = 0
        PROVE  /\ \A q \in Payloads : job'[q] \in {"none", "queued", "held", "persisted", "completed"}
               /\ \A q \in Payloads, r \in Begun' : job'[q] = "queued" => turn'[r] < turn'[q]
               /\ \A q \in Payloads, r \in Begun' : job'[q] = "held" => turn'[r] <= turn'[q]
    <3>1. \A q \in Payloads : job'[q] \in {"none", "queued", "held", "persisted", "completed"}
      BY <1>0, <2>2, <2>6 DEF InOrder
    <3>2. \A q \in Payloads, r \in Begun' : job'[q] = "queued" => turn[r] < turn[q]
      BY <1>0, <2>2, <2>3, <2>4, <2>6 DEF InOrder
    <3>3. turn[p] <= turn[p]
      BY <1>0 DEF JobsAre
    <3>4. \A q \in Payloads, r \in Begun' : job'[q] = "held" => turn[r] <= turn[q]
      BY <2>1, <2>2, <2>3, <2>5, <2>6, <3>3
    <3> QED
      BY <2>1, <3>1, <3>2, <3>4
  <2>7. faults = 0 => merged' \subseteq Begun'
    BY <1>0, <2>1, <2>3 DEF InOrder
  <2>8. InOrder'
    BY <2>1, <2>6, <2>7 DEF InOrder
  <2> QED
    BY <1>0, <2>1, <2>8 DEF HeadIsMerged, NewestStands
<1>3. ASSUME NEW p \in Payloads, Persist(p) PROVE InOrder' /\ HeadIsMerged' /\ NewestStands'
  <2>1. /\ job[p] = "held" /\ job' = [job EXCEPT ![p] = "persisted"]
        /\ merged' = merged \cup {p} /\ UNCHANGED <<turn, faults>> /\ row'[Trace].head = p
    BY <1>0, <1>3, PersistIs DEF Persist
  <2>2. \A q \in Payloads : job'[q] = IF q = p THEN "persisted" ELSE job[q]
    BY <1>0, <2>1 DEF JobsAre
  <2>3. Begun' = Begun /\ p \in Begun
    BY <2>1, <2>2 DEF Begun
  <2>4. InOrder'
    BY <1>0, <2>1, <2>2, <2>3 DEF InOrder
  <2>5. faults = 0 => \A q \in merged' : turn'[q] <= turn'[p]
    BY <1>0, <2>1, <2>3 DEF InOrder
  <2> QED
    BY <2>1, <2>4, <2>5 DEF HeadIsMerged, NewestStands
<1>4. ASSUME NEW p \in Payloads, MarkCompleted(p) PROVE InOrder' /\ HeadIsMerged' /\ NewestStands'
  <2>1. /\ job[p] = "persisted" /\ job' = [job EXCEPT ![p] = "completed"]
        /\ UNCHANGED <<row, merged, turn, faults>>
    BY <1>4 DEF MarkCompleted
  <2>2. \A q \in Payloads : job'[q] = IF q = p THEN "completed" ELSE job[q]
    BY <1>0, <2>1 DEF JobsAre
  <2>3. Begun' = Begun
    BY <2>1, <2>2 DEF Begun
  <2>4. InOrder'
    BY <1>0, <2>1, <2>2, <2>3 DEF InOrder
  <2> QED
    BY <1>0, <2>1, <2>4 DEF HeadIsMerged, NewestStands
<1>f. ASSUME faults' # 0, UNCHANGED <<row, merged>>
      PROVE  InOrder' /\ HeadIsMerged' /\ NewestStands'
  BY <1>0, <1>f DEF InOrder, HeadIsMerged, NewestStands
<1>5. ASSUME NEW p \in Payloads, RetryDelayElapses(p) PROVE InOrder' /\ HeadIsMerged' /\ NewestStands'
  <2>1. faults' # 0
    BY <1>0, <1>5 DEF RetryDelayElapses, InOrder
  <2> QED
    BY <1>5, <1>f, <2>1 DEF RetryDelayElapses
<1>6. ASSUME NEW p \in Payloads, AttemptFails(p) \/ TimesOut(p) \/ ClaimIsLost(p) \/ SettleIsLost(p)
      PROVE  InOrder' /\ HeadIsMerged' /\ NewestStands'
  <2>1. faults' # 0 /\ UNCHANGED <<row, merged>>
    BY <1>0, <1>6 DEF AttemptFails, TimesOut, ClaimIsLost, SettleIsLost, JobsAre
  <2> QED
    BY <1>f, <2>1
<1>7. CASE CrashAndRestart
  <2>1. faults' # 0 /\ UNCHANGED <<row, merged>>
    BY <1>0, <1>7 DEF CrashAndRestart, JobsAre
  <2> QED
    BY <1>f, <2>1
<1>8. ASSUME NEW e \in Edits, CommitPatch(e) PROVE InOrder' /\ HeadIsMerged' /\ NewestStands'
  <2>1. PICK x \in Rows : req[e].row = x /\ req[e] \in Patches
    BY <1>0, <1>8 DEF CommitPatch, ReqsAre, Idle, Adds, Patches
  <2>2. Write(e).head \in {e, row[x].head} /\ e \notin Payloads
    BY <1>0, <2>1, WriteTyped, TraceStoreAssumption
  <2>3. row' = [row EXCEPT ![x] = Write(e)] /\ UNCHANGED <<job, turn, merged, faults>>
    BY <1>8, <2>1 DEF CommitPatch
  <2> HIDE DEF Write
  <2>4. row'[Trace] = IF x = Trace THEN Write(e) ELSE row[Trace]
    BY <1>0, <1>t, <2>3 DEF RowsAre
  <2>5. row'[Trace].head \in {e, row[Trace].head}
    BY <2>2, <2>4
  <2> QED
    BY <1>0, <2>2, <2>3, <2>5, QueueAside
<1>9. ASSUME NEW e \in Edits, UpsertSpan(e) PROVE InOrder' /\ HeadIsMerged' /\ NewestStands'
  <2>1. PICK x \in Spans : req[e].row = x
    BY <1>0, <1>9 DEF UpsertSpan, ReqsAre, Idle, Adds, Patches
  <2>2. row'[Trace] = row[Trace]
    BY <1>0, <1>9, <1>t, <2>1 DEF UpsertSpan, RowsAre
  <2> QED
    BY <1>0, <1>9, <2>2, QueueAside DEF UpsertSpan
<1>10. ASSUME NEW add \in SUBSET {Tag}, NEW remove \in SUBSET {Tag}, BatchUpdateTags(add, remove)
       PROVE  InOrder' /\ HeadIsMerged' /\ NewestStands'
  <2>1. row'[Trace].head = row[Trace].head
    <3>1. row[Trace] \in RowType /\ row' = [row EXCEPT ![Trace].tags = (@ \ remove) \cup add]
      BY <1>0, <1>10, <1>t DEF BatchUpdateTags, RowsAre
    <3> QED
      BY <1>0, <1>t, <3>1 DEF RowsAre, RowType
  <2> QED
    BY <1>0, <1>10, <2>1, QueueAside DEF BatchUpdateTags
<1>11. CASE DeleteTrace
  <2>1. row'[Trace].head = NoWriter /\ NoWriter \notin Payloads
    BY <1>11, <1>t, BlankTyped, TraceStoreAssumption DEF DeleteTrace
  <2> QED
    BY <1>0, <1>11, <2>1, QueueAside DEF DeleteTrace
<1>u. ASSUME UNCHANGED <<row, job, turn, merged, faults>> PROVE InOrder' /\ HeadIsMerged' /\ NewestStands'
  BY <1>0, <1>u, QueueAside
<1>12. ASSUME NEW p \in Payloads, Reserve(p) \/ Answer(p) \/ Refuse(p)
       PROVE  InOrder' /\ HeadIsMerged' /\ NewestStands'
  BY <1>12, <1>u DEF Reserve, Answer, Refuse
<1>13. ASSUME NEW e \in Edits, NEW x \in Rows, NEW f \in FieldSets, LookUp(e, x, f)
       PROVE  InOrder' /\ HeadIsMerged' /\ NewestStands'
  BY <1>13, <1>u DEF LookUp
<1>14. ASSUME NEW e \in Edits, NEW x \in Spans, AddSpans(e, x) PROVE InOrder' /\ HeadIsMerged' /\ NewestStands'
  BY <1>14, <1>u DEF AddSpans
<1>15. ASSUME NEW e \in Edits, Rollback(e) PROVE InOrder' /\ HeadIsMerged' /\ NewestStands'
  BY <1>15, <1>u DEF Rollback
<1>16. CASE UNCHANGED vars
  BY <1>16, <1>u DEF vars
<1> QED
  BY <1>1, <1>2, <1>3, <1>4, <1>5, <1>6, <1>7, <1>8, <1>9, <1>10, <1>11, <1>12, <1>13, <1>14,
     <1>15, <1>16 DEF Next, JobStep, DeleteSession

(* At the start no payload has been accepted that could be newer.          *)
LEMMA InitNewest == Init => NewestInv
<1> SUFFICES ASSUME Init PROVE NewestInv
  OBVIOUS
<1>1. Enqueued = {} /\ Begun = {} /\ merged = {}
  BY DEF Init, Enqueued, Begun
<1>2. row[Trace].head = NoWriter /\ NoWriter \notin Payloads
  BY BlankTyped, TraceStoreAssumption DEF Init, Rows
<1> QED
  BY <1>1, <1>2 DEF Init, NewestInv, Turns, InOrder, HeadIsMerged, NewestStands

(* What the newest payload wrote stands, in the order of acceptance, until *)
(* a failure reorders them: whatever is patched, added and deleted between.*)
THEOREM NewestCorrect == Spec => []NewestStands
<1>1. TypeInv /\ NewestInv /\ [Next]_vars => NewestInv'
  BY NextKeepsTurns, NextKeepsOrder DEF NewestInv
<1>2. NewestInv => NewestStands
  BY DEF NewestInv
<1> QED
  BY <1>1, <1>2, InitTyped, InitNewest, NextKeepsTypes, PTL DEF Spec

-----------------------------------------------------------------------------
(* A PATCH leaves alone what it does not name: the columns that payloads,  *)
(* tag updates and other requests have written since it read the row.      *)
THEOREM NamedFieldsCorrect == Spec => OnlyNamedFields
<1> DEFINE LeavesOthers ==
        \A e \in Edits :
            CommitPatch(e) =>
                \A c \in Columns \ req[e].fields : row'[req[e].row][c] = row[req[e].row][c]
<1>1. ASSUME TypeInv, NEW e \in Edits, CommitPatch(e)
      PROVE  \A c \in Columns \ req[e].fields : row'[req[e].row][c] = row[req[e].row][c]
  <2>1. RowsAre /\ req[e] \in Patches /\ req[e].row \in Rows
    BY <1>1 DEF TypeInv, ReqsAre, CommitPatch, Idle, Adds, Patches
  <2>2. row'[req[e].row] = Write(e)
    BY <1>1, <2>1 DEF CommitPatch, RowsAre
  <2> QED
    BY <2>1, <2>2, WriteTyped
<1>2. TypeInv => LeavesOthers
  BY <1>1
<1>3. TypeInv /\ [Next]_vars => [LeavesOthers]_vars
  BY <1>2
<1> QED
  BY <1>3, InitTyped, NextKeepsTypes, PTL DEF Spec, OnlyNamedFields

-----------------------------------------------------------------------------
(* Pages of a sorted list                                                  *)

Key == OrNull \X Int

\* the rows of a list, each with its sort key
Keyed(keys) == IsFiniteSet(DOMAIN keys) /\ \A i \in DOMAIN keys : keys[i] \in Key

(* Sort keys are in a strict total order, in both directions.              *)
LEMMA KeyOrder ==
    ASSUME NEW p, NEW x \in Key, NEW y \in Key
    PROVE  /\ ~Ahead(p, x, x)
           /\ x # y => Ahead(p, x, y) \/ Ahead(p, y, x)
           /\ ~(Ahead(p, x, y) /\ Ahead(p, y, x))
           /\ \A z \in Key : Ahead(p, x, y) /\ Ahead(p, y, z) => Ahead(p, x, z)
<1>1. None \notin Int
  BY DashboardAssumption
<1>2. /\ x = <<x[1], x[2]>> /\ x[1] \in OrNull /\ x[2] \in Int
      /\ y = <<y[1], y[2]>> /\ y[1] \in OrNull /\ y[2] \in Int
  BY DEF Key
<1>3. \A u, v, w \in OrNull :
         /\ ~Sooner(p, u, u)
         /\ u # v => Sooner(p, u, v) \/ Sooner(p, v, u)
         /\ ~(Sooner(p, u, v) /\ Sooner(p, v, u))
         /\ Sooner(p, u, v) /\ Sooner(p, v, w) => Sooner(p, u, w)
  BY <1>1 DEF OrNull, Larger, Sooner
<1>4. ~Ahead(p, x, x) /\ ~(Ahead(p, x, y) /\ Ahead(p, y, x))
  BY <1>2, <1>3 DEF Ahead
<1>5. x # y => Ahead(p, x, y) \/ Ahead(p, y, x)
  <2>1. CASE x[1] # y[1]
    BY <1>2, <1>3, <2>1 DEF Ahead
  <2>2. CASE x[1] = y[1] /\ x[2] # y[2]
    BY <1>2, <2>2 DEF Ahead
  <2> QED
    BY <1>2, <2>1, <2>2
<1>6. ASSUME NEW z \in Key, Ahead(p, x, y), Ahead(p, y, z) PROVE Ahead(p, x, z)
  <2>1. z[1] \in OrNull /\ z[2] \in Int
    BY DEF Key
  <2>2. CASE x[1] = y[1] /\ y[1] = z[1]
    BY <1>2, <1>3, <1>6, <2>1, <2>2 DEF Ahead
  <2>3. CASE ~(x[1] = y[1] /\ y[1] = z[1])
    BY <1>2, <1>3, <1>6, <2>1, <2>3 DEF Ahead
  <2> QED
    BY <2>2, <2>3
<1> QED
  BY <1>4, <1>5, <1>6

Before(p, keys, i) == {j \in DOMAIN keys : Ahead(p, keys[j], keys[i])}
Rank(p, keys, i) == Cardinality(Before(p, keys, i))

(* How many rows come before a row is a number, below that of all rows.    *)
LEMMA RankNat ==
    ASSUME NEW p, NEW keys, Keyed(keys), NEW i \in DOMAIN keys
    PROVE  /\ IsFiniteSet(Before(p, keys, i)) /\ Rank(p, keys, i) \in Nat
           /\ Rank(p, keys, i) < Cardinality(DOMAIN keys)
           /\ Cardinality(DOMAIN keys) \in Nat
<1>1. Before(p, keys, i) \in SUBSET DOMAIN keys /\ i \notin Before(p, keys, i)
  BY KeyOrder DEF Before, Keyed
<1>2. IsFiniteSet(DOMAIN keys)
  BY DEF Keyed
<1>3. IsFiniteSet(Before(p, keys, i))
  BY <1>1, <1>2, FS_Subset
<1>4. Cardinality(Before(p, keys, i)) <= Cardinality(DOMAIN keys)
  BY <1>1, <1>2, FS_Subset
<1>5. Cardinality(Before(p, keys, i)) # Cardinality(DOMAIN keys)
  BY <1>1, <1>2, FS_Subset
<1>6. Cardinality(Before(p, keys, i)) \in Nat /\ Cardinality(DOMAIN keys) \in Nat
  BY <1>2, <1>3, FS_CardinalityType
<1> QED
  BY <1>3, <1>4, <1>5, <1>6 DEF Rank

(* A sorted list has each row once.                                        *)
LEMMA SortedRows ==
    ASSUME NEW p, NEW keys, Keyed(keys), NEW s \in Sorted(p, keys)
    PROVE  \E n \in Nat :
              /\ n = Cardinality(DOMAIN keys) /\ s \in [1..n -> DOMAIN keys] /\ Len(s) = n
              /\ s \in Seq(DOMAIN keys)
              /\ \A j, k \in 1..n : s[j] = s[k] => j = k
              /\ \A i \in DOMAIN keys : \E k \in 1..n : s[k] = i
<1>1. IsFiniteSet(DOMAIN keys)
  BY DEF Keyed
<1>2. PICK n \in Nat : n = Cardinality(DOMAIN keys)
  BY <1>1, FS_CardinalityType
<1>3. s \in [1..n -> DOMAIN keys] /\ \A j, k \in 1..n : s[j] = s[k] => j = k
  BY <1>2 DEF Sorted, SetToSeqs
<1>4. s \in Seq(DOMAIN keys) /\ Len(s) = n
  BY <1>3
<1>5. s \in Injection(1..n, DOMAIN keys)
  BY <1>3 DEF Injection, IsInjective
<1>6. Cardinality(1..n) = n
  BY FS_Interval
<1>7. s \in Surjection(1..n, DOMAIN keys)
  BY <1>1, <1>2, <1>5, <1>6, FS_Injection
<1>8. \A i \in DOMAIN keys : \E k \in 1..n : s[k] = i
  BY <1>7 DEF Surjection
<1> QED
  BY <1>2, <1>3, <1>4, <1>8

(* Without ties, a row stands in a sorted list behind as many rows as are  *)
(* ahead of it.                                                            *)
LEMMA SortedRank ==
    ASSUME NEW p, NEW keys, Keyed(keys), ~Tied(keys), NEW s \in Sorted(p, keys),
           NEW k \in 1..Len(s)
    PROVE  Rank(p, keys, s[k]) = k - 1
<1>1. PICK n \in Nat :
              /\ n = Cardinality(DOMAIN keys) /\ s \in [1..n -> DOMAIN keys] /\ Len(s) = n
              /\ s \in Seq(DOMAIN keys)
              /\ \A i, j \in 1..n : s[i] = s[j] => i = j
              /\ \A i \in DOMAIN keys : \E j \in 1..n : s[j] = i
  BY SortedRows
<1>2. \A i, j \in 1..n : i < j => ~Ahead(p, keys[s[j]], keys[s[i]])
  BY <1>1 DEF Sorted
<1>3. \A i \in 1..n : s[i] \in DOMAIN keys /\ keys[s[i]] \in Key
  BY <1>1 DEF Keyed
<1>4. \A i, j \in 1..n : i # j => keys[s[i]] # keys[s[j]]
  BY <1>1, <1>3 DEF Tied
<1>5. \A m \in 1..n : Ahead(p, keys[s[m]], keys[s[k]]) <=> m \in 1..(k - 1)
  <2> TAKE m \in 1..n
  <2>1. CASE m < k
    <3>1. k \in 1..n /\ ~Ahead(p, keys[s[k]], keys[s[m]]) /\ keys[s[m]] # keys[s[k]]
      BY <1>1, <1>2, <1>4, <2>1
    <3>2. keys[s[m]] \in Key /\ keys[s[k]] \in Key
      BY <1>3, <3>1
    <3>3. Ahead(p, keys[s[m]], keys[s[k]])
      BY <3>1, <3>2, KeyOrder
    <3> QED
      BY <1>1, <2>1, <3>3
  <2>2. CASE m = k
    BY <1>1, <1>3, <2>2, KeyOrder
  <2>3. CASE m > k
    BY <1>1, <1>2, <2>3
  <2> QED
    BY <1>1, <2>1, <2>2, <2>3
<1> DEFINE first == [m \in 1..(k - 1) |-> s[m]]
<1>6. k - 1 \in Nat /\ \A m \in 1..(k - 1) : m \in 1..n /\ first[m] = s[m]
  BY <1>1
<1>7. first \in [1..(k - 1) -> Before(p, keys, s[k])]
  <2>1. \A m \in 1..(k - 1) : s[m] \in Before(p, keys, s[k])
    BY <1>3, <1>5, <1>6 DEF Before
  <2> QED
    BY <2>1
<1>8. \A i \in Before(p, keys, s[k]) : \E m \in 1..(k - 1) : first[m] = i
  <2> TAKE i \in Before(p, keys, s[k])
  <2>1. i \in DOMAIN keys /\ Ahead(p, keys[i], keys[s[k]])
    BY DEF Before
  <2>2. PICK m \in 1..n : s[m] = i
    BY <1>1, <2>1
  <2> QED
    BY <1>5, <2>1, <2>2
<1> HIDE DEF first
<1>9. \A i, j \in 1..(k - 1) : first[i] = first[j] => i = j
  BY <1>1, <1>6
<1>10. first \in Bijection(1..(k - 1), Before(p, keys, s[k]))
  BY <1>7, <1>8, <1>9 DEF Bijection, Injection, Surjection, IsInjective
<1> QED
  BY <1>6, <1>10, FS_CountingElements DEF ExistsBijection, Rank

(* The smaller of two.                                                     *)
LEMMA MinOfTwo ==
    ASSUME NEW a \in Int, NEW b \in Int
    PROVE  Min({a, b}) = IF a <= b THEN a ELSE b
  BY DEF Min

(* A page of length m has the rows from the offset on, as far as the limit *)
(* or the list goes.                                                       *)
IsPage(page, ids, s, offset, limit, m) ==
    /\ page \in Seq(ids)
    /\ Len(page) = m
    /\ \A k \in 1..m : offset + k \in 1..Len(s) /\ k <= limit /\ page[k] = s[offset + k]
    /\ \A k \in 1..Len(s) : offset < k /\ k <= offset + limit => k - offset \in 1..m
    /\ m = IF offset + limit <= Len(s) THEN limit
           ELSE IF offset <= Len(s) THEN Len(s) - offset ELSE 0

(* OFFSET and LIMIT cut a page from a sorted list.                         *)
LEMMA PageRows ==
    ASSUME NEW ids, NEW s \in Seq(ids), NEW offset \in Nat, NEW limit \in Nat
    PROVE  \E m \in Nat : IsPage(Page(s, offset, limit), ids, s, offset, limit, m)
<1>1. PICK n \in Nat : n = Len(s)
  BY LenProperties
<1>2. PICK e \in Nat : e = Min({offset + limit, Len(s)}) /\ e = IF offset + limit <= n THEN offset + limit ELSE n
  BY <1>1, MinOfTwo
<1>3. \A i \in (offset + 1)..e : i \in 1..Len(s) /\ s[i] \in ids
  <2>1. \A i \in (offset + 1)..e : i \in 1..Len(s)
    BY <1>1, <1>2
  <2> QED
    BY <2>1, ElementOfSeq
<1>4. offset + 1 \in Int /\ e \in Int
  OBVIOUS
<1> DEFINE page == SubSeq(s, offset + 1, e)
<1>5. /\ page \in Seq(ids)
      /\ Len(page) = IF offset + 1 <= e THEN e - (offset + 1) + 1 ELSE 0
      /\ \A i \in 1..(e - (offset + 1) + 1) : page[i] = s[offset + 1 + i - 1]
  <2> HIDE DEF page
  <2> QED
    BY <1>3, <1>4, SubSeqProperties DEF page
<1>6. Page(s, offset, limit) = page
  BY <1>2 DEF Page
<1> HIDE DEF page
<1>7. PICK m \in Nat : m = IF offset + 1 <= e THEN e - offset ELSE 0
  <2>1. (IF offset + 1 <= e THEN e - offset ELSE 0) \in Nat
    OBVIOUS
  <2> QED
    BY <2>1
<1>8. Len(page) = m
  BY <1>5, <1>7
<1>9. \A k \in 1..m : /\ offset + k \in 1..Len(s) /\ k <= limit
                      /\ page[k] = s[offset + k]
  <2> TAKE k \in 1..m
  <2>1. offset + k \in 1..Len(s) /\ k <= limit /\ k \in 1..(e - (offset + 1) + 1) /\ offset + 1 + k - 1 = offset + k
    BY <1>1, <1>2, <1>7
  <2>2. page[k] = s[offset + 1 + k - 1]
    BY <1>5, <2>1
  <2> QED
    BY <2>1, <2>2
<1>10. /\ \A k \in 1..Len(s) : offset < k /\ k <= offset + limit => k - offset \in 1..m
       /\ m = IF offset + limit <= Len(s) THEN limit
              ELSE IF offset <= Len(s) THEN Len(s) - offset ELSE 0
  BY <1>1, <1>2, <1>7
<1>11. IsPage(page, ids, s, offset, limit, m)
  BY <1>5, <1>8, <1>9, <1>10 DEF IsPage
<1> QED
  BY <1>6, <1>11

RowsIn(seq) == {seq[i] : i \in DOMAIN seq}

Ranked(p, keys, offset, limit) ==
    {i \in DOMAIN keys : offset <= Rank(p, keys, i) /\ Rank(p, keys, i) < offset + limit}

(* Without ties, a page has the rows whose rank the offset and the limit   *)
(* name, each once.                                                        *)
LEMMA PageRanks ==
    ASSUME NEW p, NEW keys, Keyed(keys), ~Tied(keys), NEW s \in Sorted(p, keys),
           NEW offset \in Nat, NEW limit \in Nat
    PROVE  /\ Page(s, offset, limit) \in Seq(DOMAIN keys)
           /\ IsInjective(Page(s, offset, limit))
           /\ RowsIn(Page(s, offset, limit)) = Ranked(p, keys, offset, limit)
<1>1. PICK n \in Nat :
              /\ n = Cardinality(DOMAIN keys) /\ s \in [1..n -> DOMAIN keys] /\ Len(s) = n
              /\ s \in Seq(DOMAIN keys)
              /\ \A i, j \in 1..n : s[i] = s[j] => i = j
              /\ \A i \in DOMAIN keys : \E j \in 1..n : s[j] = i
  BY SortedRows
<1> DEFINE page == Page(s, offset, limit)
<1>2. PICK m \in Nat : IsPage(page, DOMAIN keys, s, offset, limit, m)
  BY <1>1, PageRows
<1> HIDE DEF page
<1>3. page \in Seq(DOMAIN keys) /\ DOMAIN page = 1..m
  BY <1>2, LenProperties DEF IsPage
<1>4. \A k \in 1..n : Rank(p, keys, s[k]) = k - 1
  BY <1>1, SortedRank
<1>5. \A k \in 1..m : offset + k \in 1..n /\ k <= limit /\ page[k] = s[offset + k]
  BY <1>1, <1>2 DEF IsPage
<1>6. IsInjective(page)
  <2> SUFFICES ASSUME NEW a \in 1..m, NEW b \in 1..m, page[a] = page[b] PROVE a = b
    BY <1>3 DEF IsInjective
  <2>1. s[offset + a] = s[offset + b] /\ offset + a \in 1..n /\ offset + b \in 1..n
    BY <1>5
  <2>2. offset + a = offset + b
    BY <1>1, <2>1
  <2> QED
    BY <2>2
<1> DEFINE rows == {i \in DOMAIN keys : offset <= Rank(p, keys, i) /\ Rank(p, keys, i) < offset + limit}
<1>7. ASSUME NEW k \in 1..m PROVE page[k] \in rows
  <2>1. offset + k \in 1..n /\ k <= limit /\ page[k] = s[offset + k]
    BY <1>5
  <2>2. Rank(p, keys, page[k]) = offset + k - 1
    BY <1>4, <2>1
  <2>3. page[k] \in DOMAIN keys
    BY <1>1, <2>1
  <2> QED
    BY <2>1, <2>2, <2>3
<1>8. ASSUME NEW i \in rows PROVE \E k \in 1..m : page[k] = i
  <2>1. i \in DOMAIN keys /\ offset <= Rank(p, keys, i) /\ Rank(p, keys, i) < offset + limit
    OBVIOUS
  <2>2. PICK k \in 1..n : s[k] = i
    BY <1>1, <2>1
  <2>3. Rank(p, keys, i) = k - 1
    BY <1>4, <2>2
  <2>4. offset < k /\ k <= offset + limit
    BY <2>1, <2>3
  <2>5. k - offset \in 1..m
    BY <1>1, <1>2, <2>4 DEF IsPage
  <2>6. page[k - offset] = s[offset + (k - offset)] /\ offset + (k - offset) = k
    BY <1>5, <2>5
  <2> QED
    BY <2>2, <2>5, <2>6
<1> HIDE DEF rows
<1>9. RowsIn(page) = rows
  BY <1>3, <1>7, <1>8 DEF RowsIn
<1> QED
  BY <1>3, <1>6, <1>9 DEF page, rows, Ranked

(* What the client has after another page.                                 *)
LEMMA ConcatRows ==
    ASSUME NEW A, NEW B, NEW a \in Seq(A), NEW b \in Seq(B)
    PROVE  /\ a \o b \in Seq(A \cup B)
           /\ RowsIn(a \o b) = RowsIn(a) \cup RowsIn(b)
           /\ IsInjective(a) /\ IsInjective(b) /\ RowsIn(a) \cap RowsIn(b) = {} => IsInjective(a \o b)
<1>1. a \in Seq(A \cup B) /\ b \in Seq(A \cup B)
  BY SeqMonotonic
<1>2. PICK m \in Nat : m = Len(a) /\ DOMAIN a = 1..m
  BY <1>1, LenProperties
<1>3. PICK n \in Nat : n = Len(b) /\ DOMAIN b = 1..n
  BY <1>1, LenProperties
<1> DEFINE c == a \o b
<1>4. c \in Seq(A \cup B) /\ Len(c) = m + n
      /\ \A i \in 1..(m + n) : c[i] = IF i <= m THEN a[i] ELSE b[i - m]
  BY <1>1, <1>2, <1>3, ConcatProperties
<1> HIDE DEF c
<1>5. DOMAIN c = 1..(m + n)
  BY <1>4, LenProperties
<1>6. \A i \in 1..m : i \in 1..(m + n) /\ c[i] = a[i]
  <2> TAKE i \in 1..m
  <2>1. i \in 1..(m + n) /\ i <= m
    OBVIOUS
  <2> QED
    BY <1>4, <2>1
<1>7. \A i \in 1..n : i + m \in 1..(m + n) /\ c[i + m] = b[i]
  <2> TAKE i \in 1..n
  <2>1. i + m \in 1..(m + n) /\ ~(i + m <= m) /\ i + m - m = i
    OBVIOUS
  <2> QED
    BY <1>4, <2>1
<1>8. \A i \in 1..(m + n) : i \in 1..m \/ \E j \in 1..n : i = j + m
  <2> TAKE i \in 1..(m + n)
  <2>1. i <= m => i \in 1..m
    OBVIOUS
  <2>2. ~(i <= m) => i - m \in 1..n /\ i = (i - m) + m
    OBVIOUS
  <2> QED
    BY <2>1, <2>2
<1>9. RowsIn(c) = RowsIn(a) \cup RowsIn(b)
  <2>1. ASSUME NEW i \in 1..(m + n) PROVE c[i] \in RowsIn(a) \cup RowsIn(b)
    <3>1. CASE i \in 1..m
      BY <1>2, <1>6, <3>1 DEF RowsIn
    <3>2. ASSUME NEW j \in 1..n, i = j + m PROVE c[i] \in RowsIn(b)
      BY <1>3, <1>7, <3>2 DEF RowsIn
    <3> QED
      BY <1>8, <3>1, <3>2
  <2>2. \A i \in 1..m : a[i] \in RowsIn(c)
    BY <1>5, <1>6 DEF RowsIn
  <2>3. \A i \in 1..n : b[i] \in RowsIn(c)
    BY <1>5, <1>7 DEF RowsIn
  <2> QED
    BY <1>2, <1>3, <1>5, <2>1, <2>2, <2>3 DEF RowsIn
<1>10. ASSUME IsInjective(a), IsInjective(b), RowsIn(a) \cap RowsIn(b) = {} PROVE IsInjective(c)
  <2> SUFFICES ASSUME NEW i \in 1..(m + n), NEW j \in 1..(m + n), c[i] = c[j] PROVE i = j
    BY <1>5 DEF IsInjective
  <2>1. CASE i \in 1..m /\ j \in 1..m
    BY <1>2, <1>6, <1>10, <2>1 DEF IsInjective
  <2>2. ASSUME NEW k \in 1..n, NEW l \in 1..n, i = k + m, j = l + m PROVE i = j
    BY <1>3, <1>7, <1>10, <2>2 DEF IsInjective
  <2>3. ASSUME NEW k \in 1..n, NEW l \in 1..m, c[k + m] = c[l] PROVE FALSE
    <3>1. b[k] = a[l]
      BY <1>6, <1>7, <2>3
    <3>2. b[k] \in RowsIn(b) /\ a[l] \in RowsIn(a)
      BY <1>2, <1>3 DEF RowsIn
    <3> QED
      BY <1>10, <3>1, <3>2
  <2> QED
    BY <1>8, <2>1, <2>2, <2>3
<1> QED
  BY <1>4, <1>9, <1>10 DEF c

(* No row moves up where rows come in and none leaves or falls back.       *)
LEMMA RankRises ==
    ASSUME NEW p, NEW keys, NEW new, Keyed(keys), Keyed(new), DOMAIN keys \subseteq DOMAIN new,
           \A j \in DOMAIN keys : ~Ahead(p, keys[j], new[j]),
           NEW i \in DOMAIN keys, new[i] = keys[i]
    PROVE  Rank(p, keys, i) <= Rank(p, new, i)
<1>1. ASSUME NEW j \in DOMAIN keys, Ahead(p, keys[j], keys[i]) PROVE Ahead(p, new[j], new[i])
  <2>1. keys[j] \in Key /\ new[j] \in Key /\ keys[i] \in Key
    BY DEF Keyed
  <2>2. new[j] = keys[j] \/ Ahead(p, new[j], keys[j])
    BY <2>1, KeyOrder
  <2> QED
    BY <1>1, <2>1, <2>2, KeyOrder
<1>2. Before(p, keys, i) \in SUBSET Before(p, new, i)
  BY <1>1 DEF Before
<1> QED
  BY <1>2, RankNat, FS_Subset DEF Rank

-----------------------------------------------------------------------------
(* What the tables hold                                                    *)

IsScore(r) ==
    /\ DOMAIN r = ScoreColumns \cup {"created"}
    /\ r.created \in Times /\ r.target \in Int /\ r.value \in OrNull /\ r.name # None

IsRun(r) == DOMAIN r = RunColumns \cup {"created"} /\ r.created \in Times

IsTrace(r) ==
    /\ DOMAIN r = TraceColumns \cup {"created"}
    /\ r.created \in Times /\ r.started \in Int /\ r.ended \in OrNull
    /\ IsFiniteSet(r.spans) /\ \A s \in r.spans : s.started \in Int /\ s.tokens \in Int

\* created_at names a row
Named(rows) == IsFiniteSet(rows) /\ \A r, u \in rows : r.created = u.created => r = u

Tabled(d) ==
    /\ d = [t \in Tables |-> d[t]]
    /\ \A t \in Tables : Named(d[t])
    /\ \A r \in d["trace_scores"] : IsScore(r)
    /\ \A r \in d["session_scores"] : IsScore(r)
    /\ \A r \in d["eval_runs"] : IsRun(r)
    /\ \A r \in d["traces"] : IsTrace(r)

(* Instants are finitely many integers, and none of them is NULL.          *)
LEMMA TimesAre == Times \in SUBSET Int /\ IsFiniteSet(Times) /\ None \notin Int
  BY DashboardAssumption

(* The row that an id names.                                               *)
LEMMA RowIs ==
    ASSUME NEW rows, NEW id \in {r.created : r \in rows}
    PROVE  Row(rows, id) \in rows /\ Row(rows, id).created = id
  BY DEF Row

(* The newest of some rows.                                                *)
LEMMA NewestIs ==
    ASSUME NEW rows, IsFiniteSet(rows), rows # {}, \A r \in rows : r.created \in Int
    PROVE  S!Newest(rows) \in rows /\ \A r \in rows : S!Newest(rows).created >= r.created
<1> DEFINE f == [r \in rows |-> r.created]
           N == {f[r] : r \in rows}
<1>1. IsFiniteSet(N)
  <2>1. f = [r \in rows |-> f[r]]
    OBVIOUS
  <2> HIDE DEF f
  <2> QED
    BY <2>1, ImageFinite
<1>2. N \in SUBSET Int /\ N # {}
  OBVIOUS
<1> HIDE DEF N
<1>3. Max(N) \in N /\ \A n \in N : Max(N) >= n
  BY <1>1, <1>2, MaxOf
<1>4. \E s \in rows : \A t \in rows : s.created >= t.created
  BY <1>3 DEF N
<1> QED
  BY <1>4 DEF S!Newest

(* Rows listed by when they were created.                                  *)
LEMMA CreatedKeyed ==
    ASSUME NEW rows, \A r \in rows : r.created \in Times
    PROVE  Keyed(ByCreated(rows))
<1>1. {r.created : r \in rows} \in SUBSET Times
  OBVIOUS
<1>2. IsFiniteSet({r.created : r \in rows})
  BY <1>1, TimesAre, FS_Subset
<1>3. DOMAIN ByCreated(rows) = {r.created : r \in rows}
  BY DEF ByCreated
<1>4. ASSUME NEW id \in DOMAIN ByCreated(rows) PROVE ByCreated(rows)[id] \in Key
  <2>1. ByCreated(rows)[id] = <<id, 0>>
    BY <1>3 DEF ByCreated
  <2>2. id \in Int
    BY <1>1, <1>3, TimesAre
  <2> QED
    BY <2>1, <2>2 DEF Key, OrNull
<1> QED
  BY <1>2, <1>3, <1>4 DEF Keyed

(* The queries' modules count, sum and compare as this one does.           *)
LEMMA SameCount == \A s : T!Cardinality(s) = Cardinality(s) /\ S!Cardinality(s) = Cardinality(s)
  BY DEF T!Cardinality, S!Cardinality, Cardinality

(* So do they choose.                                                      *)
LEMMA SameEnds ==
    \A s : /\ T!Max(s) = Max(s) /\ S!Max(s) = Max(s)
           /\ T!Min(s) = Min(s) /\ S!Min(s) = Min(s)
  BY DEF T!Max, S!Max, Max, T!Min, S!Min, Min

Ended(rows) == {t \in rows : t.ended # None}

(* The total latency is the sum of the latencies of the traces that ended. *)
LEMMA LatencySum ==
    ASSUME NEW rows
    PROVE  T!TotalLatency(rows)
             = IF Ended(rows) = {} THEN None ELSE Sums([t \in Ended(rows) |-> T!Latency(t)], Ended(rows))
<1> DEFINE E == Ended(rows)
           f == [t \in E |-> T!Latency(t)]
           A(it) == [s \in SUBSET E |-> IF s = {} THEN 0
                       ELSE T!Latency(CHOOSE x \in s : TRUE) + it[s \ {CHOOSE x \in s : TRUE}]]
           B(it) == [s \in SUBSET E |-> IF s = {} THEN 0
                       ELSE f[CHOOSE x \in s : TRUE] + it[s \ {CHOOSE x \in s : TRUE}]]
<1>1. \A it : A(it) = B(it)
  OBVIOUS
<1>2. T!TotalLatency(rows) = IF E = {} THEN None ELSE (CHOOSE it : it = A(it))[E]
  BY DEF T!TotalLatency, T!MapThenSumSet, T!MapThenFoldSet, Ended
<1>3. Sums(f, E) = (CHOOSE it : it = B(it))[E]
  BY DEF Sums, MapThenSumSet, MapThenFoldSet
<1> HIDE DEF A, B, f, E
<1>4. (CHOOSE it : it = A(it)) = (CHOOSE it : it = B(it))
  BY <1>1, Zenon
<1>5. T!TotalLatency(rows) = IF E = {} THEN None ELSE Sums(f, E)
  BY <1>2, <1>3, <1>4
<1> QED
  BY <1>5 DEF f, E

(* It is NULL or a number.                                                 *)
LEMMA LatencyTyped ==
    ASSUME NEW rows, IsFiniteSet(rows), \A t \in rows : IsTrace(t)
    PROVE  T!TotalLatency(rows) \in OrNull
<1> DEFINE E == Ended(rows)
           f == [t \in E |-> T!Latency(t)]
<1>1. E \in SUBSET rows /\ IsFiniteSet(E)
  <2>1. E \in SUBSET rows
    BY DEF Ended
  <2> QED
    BY <2>1, FS_Subset
<1>2. \A t \in E : T!Latency(t) \in Int
  BY DEF Ended, IsTrace, OrNull, T!Latency
<1>3. f \in [E -> Int]
  BY <1>2
<1> HIDE DEF f, E
<1>4. Sums(f, E) \in Int
  BY <1>1, <1>3, SumsInt
<1> QED
  BY <1>4, LatencySum DEF f, E, OrNull

(* Traces, by whatever column.                                             *)
LEMMA TracesKeyed ==
    ASSUME NEW d, Tabled(d), NEW p PROVE Keyed(ListTraces(d, p))
<1> DEFINE rows == T!TracesMatching(d["traces"], p.filter)
           ids == {t.created : t \in rows}
<1>1. \A t \in rows : IsTrace(t)
  BY DEF T!TracesMatching, Tabled
<1>2. ids \in SUBSET Times
  BY <1>1 DEF IsTrace
<1>3. IsFiniteSet(ids)
  BY <1>2, TimesAre, FS_Subset
<1>4. ASSUME NEW t, IsTrace(t) PROVE T!TraceSortKey(t, p.by) \in OrNull
  BY <1>4 DEF IsTrace, T!TraceSortKey, T!Latency, OrNull
<1> HIDE DEF rows
<1>5. \A id \in ids : Row(rows, id) \in rows
  BY RowIs
<1>6. \A id \in ids : <<T!TraceSortKey(Row(rows, id), p.by), 0>> \in Key
  BY <1>1, <1>4, <1>5 DEF Key
<1>7. ListTraces(d, p) = [id \in ids |-> <<T!TraceSortKey(Row(rows, id), p.by), 0>>]
  BY DEF ListTraces, rows
<1> HIDE DEF ids
<1> QED
  BY <1>3, <1>6, <1>7 DEF Keyed

(* Sessions, by what their traces come to.                                 *)
LEMMA SessionsKeyed ==
    ASSUME NEW d, Tabled(d), NEW p PROVE Keyed(ListSessions(d, p))
<1> DEFINE rows == T!SessionTraces(d["traces"], p.filter)
           ids == T!ListSessions(d["traces"], p.filter)
<1>1. rows \in SUBSET d["traces"]
  BY DEF T!SessionTraces
<1>2. IsFiniteSet(rows) /\ \A t \in rows : IsTrace(t)
  BY <1>1, FS_Subset DEF Tabled, Named, Tables
<1>3. ids \in SUBSET {t.session : t \in rows}
  BY DEF T!ListSessions, T!SessionsIn
<1> HIDE DEF rows, ids
<1>4. IsFiniteSet(ids)
  <2> DEFINE f == [t \in rows |-> t.session]
  <2>1. f = [t \in rows |-> f[t]] /\ {f[t] : t \in rows} = {t.session : t \in rows}
    OBVIOUS
  <2> HIDE DEF f
  <2>2. IsFiniteSet({t.session : t \in rows})
    BY <1>2, <2>1, ImageFinite
  <2> QED
    BY <1>3, <2>2, FS_Subset
<1>5. ASSUME NEW s \in ids PROVE <<T!SessionSortKey(rows, s, p.by), 0>> \in Key
  <2> DEFINE own == T!OfSession(rows, s)
  <2>1. own \in SUBSET rows /\ own # {}
    BY <1>3 DEF T!OfSession
  <2>2. IsFiniteSet(own) /\ \A t \in own : IsTrace(t)
    BY <1>2, <2>1, FS_Subset
  <2>3. Cardinality(own) \in Int
    BY <2>2, FS_CardinalityType
  <2>4. T!TotalLatency(own) \in OrNull
    BY <2>2, LatencyTyped
  <2>5. {t.created : t \in own} \in SUBSET Times /\ {t.created : t \in own} # {}
    BY <2>1, <2>2 DEF IsTrace
  <2>6. Max({t.created : t \in own}) \in Times
    BY <2>5, TimesAre, FS_Subset, MaxOf
  <2>7. T!Max({t.created : t \in own}) \in Int
    BY <2>6, TimesAre, SameEnds
  <2> HIDE DEF own
  <2>8. T!SessionSortKey(rows, s, p.by) \in OrNull
    BY <2>3, <2>4, <2>7, SameCount DEF T!SessionSortKey, OrNull, own
  <2> QED
    BY <2>8 DEF Key
<1>6. ListSessions(d, p) = [s \in ids |-> <<T!SessionSortKey(rows, s, p.by), 0>>]
  BY DEF ListSessions, rows, ids
<1> QED
  BY <1>4, <1>5, <1>6 DEF Keyed

(* Users, by when they were last seen.                                     *)
LEMMA UsersKeyed ==
    ASSUME NEW d, Tabled(d), NEW p PROVE Keyed(ListTraceUsers(d, p))
<1> DEFINE rows == d["traces"]
           users == T!TraceUsers(rows)
           ids == {x.user : x \in users}
           Mine(u) == {t \in rows : t.user = u}
<1>1. IsFiniteSet(rows) /\ \A t \in rows : IsTrace(t)
  BY DEF Tabled, Named, Tables
<1>2. ASSUME NEW x \in users
      PROVE  \E u \in {t.user : t \in rows} :
                x.user = u /\ x.last = T!Max({t.started : t \in Mine(u)})
  <2> DEFINE Line(u) ==
               [user |-> u, count |-> T!Cardinality(Mine(u)), first |-> T!Min({t.started : t \in Mine(u)}),
                last |-> T!Max({t.started : t \in Mine(u)}),
                errors |-> T!Cardinality({t \in Mine(u) : t.status = "ERROR"})]
  <2>1. users = {Line(u) : u \in {t.user : t \in rows} \ {None}}
    BY DEF T!TraceUsers
  <2>2. PICK u \in {t.user : t \in rows} : x = Line(u)
    <3> HIDE DEF Line, users
    <3> QED
      BY <2>1
  <2>3. Line(u).user = u /\ Line(u).last = T!Max({t.started : t \in Mine(u)})
    OBVIOUS
  <2> QED
    BY <2>2, <2>3
<1>3. ids \in SUBSET {t.user : t \in rows}
  BY <1>2
<1>4. ASSUME NEW u \in {t.user : t \in rows} PROVE T!Max({t.started : t \in Mine(u)}) \in Int
  <2> DEFINE f == [t \in Mine(u) |-> t.started]
  <2>1. Mine(u) \in SUBSET rows /\ Mine(u) # {}
    OBVIOUS
  <2>2. IsFiniteSet(Mine(u)) /\ \A t \in Mine(u) : t.started \in Int
    BY <1>1, <2>1, FS_Subset DEF IsTrace
  <2> HIDE DEF Mine
  <2>3. f = [t \in Mine(u) |-> f[t]] /\ {f[t] : t \in Mine(u)} = {t.started : t \in Mine(u)}
    OBVIOUS
  <2> HIDE DEF f
  <2>4. IsFiniteSet({t.started : t \in Mine(u)})
    BY <2>2, <2>3, ImageFinite
  <2>5. {t.started : t \in Mine(u)} \in SUBSET Int /\ {t.started : t \in Mine(u)} # {}
    BY <2>1, <2>2
  <2>6. Max({t.started : t \in Mine(u)}) \in Int
    BY <2>4, <2>5, MaxOf
  <2> QED
    BY <2>6, SameEnds
<1>5. IsFiniteSet(ids)
  <2> DEFINE f == [t \in rows |-> t.user]
  <2>1. f = [t \in rows |-> f[t]] /\ {f[t] : t \in rows} = {t.user : t \in rows}
    OBVIOUS
  <2> HIDE DEF f, ids
  <2>2. IsFiniteSet({t.user : t \in rows})
    BY <1>1, <2>1, ImageFinite
  <2> QED
    BY <1>3, <2>2, FS_Subset
<1>6. \A u \in ids : (CHOOSE x \in users : x.user = u) \in users
  OBVIOUS
<1>7. ASSUME NEW x \in users PROVE x.last \in Int
  BY <1>2, <1>4
<1>8. ListTraceUsers(d, p) = [u \in ids |-> <<(CHOOSE x \in users : x.user = u).last, 0>>]
  BY DEF ListTraceUsers
<1> HIDE DEF users, ids
<1>9. \A u \in ids : <<(CHOOSE x \in users : x.user = u).last, 0>> \in Key
  BY <1>6, <1>7 DEF Key, OrNull
<1> QED
  BY <1>5, <1>8, <1>9 DEF Keyed

(* A session is ranked by one of its scores.                               *)
LEMMA ComparedRows ==
    ASSUME NEW d, Tabled(d), NEW name
    PROVE  S!ScoreComparison(d["session_scores"], name) \in SUBSET d["session_scores"]
<1> DEFINE good == S!NumericOf(d["session_scores"], name, [from |-> None, to |-> None])
           Mine(t) == {s \in good : s.target = t}
<1>1. good \in SUBSET d["session_scores"]
  BY DEF S!NumericOf
<1> HIDE DEF good
<1>2. ASSUME NEW t \in {s.target : s \in good} PROVE S!Newest(Mine(t)) \in d["session_scores"]
  <2>1. Mine(t) \in SUBSET d["session_scores"] /\ Mine(t) # {}
    BY <1>1
  <2>2. IsFiniteSet(d["session_scores"]) /\ \A r \in d["session_scores"] : IsScore(r)
    BY DEF Tabled, Named, Tables
  <2>3. IsFiniteSet(Mine(t)) /\ \A r \in Mine(t) : r.created \in Int
    BY <2>1, <2>2, TimesAre, FS_Subset DEF IsScore
  <2> HIDE DEF Mine
  <2> QED
    BY <2>1, <2>3, NewestIs
<1>3. S!ScoreComparison(d["session_scores"], name) = {S!Newest(Mine(t)) : t \in {s.target : s \in good}}
  BY DEF S!ScoreComparison, good
<1> HIDE DEF Mine
<1> QED
  BY <1>2, <1>3

(* Ranked sessions, by that score.                                         *)
LEMMA ComparisonKeyed ==
    ASSUME NEW d, Tabled(d), NEW p PROVE Keyed(Comparison(d, p))
<1> DEFINE rows == S!ScoreComparison(d["session_scores"], p.filter.name)
           ids == {r.target : r \in rows}
           One(s) == CHOOSE r \in rows : r.target = s
<1>1. \A r \in rows : IsScore(r)
  BY ComparedRows DEF Tabled
<1>2. IsFiniteSet(rows)
  BY ComparedRows, FS_Subset DEF Tabled, Named, Tables
<1>3. Comparison(d, p) = [s \in ids |-> <<One(s).value, s>>]
  BY DEF Comparison
<1> HIDE DEF rows
<1>4. IsFiniteSet(ids)
  <2> DEFINE f == [r \in rows |-> r.target]
  <2>1. f = [r \in rows |-> f[r]] /\ {f[r] : r \in rows} = {r.target : r \in rows}
    OBVIOUS
  <2> HIDE DEF f
  <2> QED
    BY <1>2, <2>1, ImageFinite
<1>5. \A s \in ids : One(s) \in rows /\ s \in Int
  BY <1>1 DEF IsScore
<1>6. \A s \in ids : One(s).value \in OrNull
  BY <1>1, <1>5 DEF IsScore
<1> HIDE DEF ids, One
<1>7. \A s \in ids : <<One(s).value, s>> \in Key
  BY <1>5, <1>6 DEF Key
<1> QED
  BY <1>3, <1>4, <1>7 DEF Keyed

(* Whatever the tables hold, every list has finitely many rows with sort   *)
(* keys that can be compared.                                              *)
LEMMA KeysAre == ASSUME NEW d, Tabled(d), NEW p \in Listings PROVE Keyed(KeysOf(d, p))
<1>1. \A t \in {"trace_scores", "session_scores", "eval_runs"} : \A r \in d[t] : r.created \in Times
  BY DEF Tabled, IsScore, IsRun
<1>2. Keyed(ListTraceScores(d, p)) /\ Keyed(ListSessionScores(d, p))
  BY <1>1, CreatedKeyed DEF ListTraceScores, ListSessionScores, S!ListScores
<1>3. Keyed(ListEvalRuns(d, p)) /\ Keyed(ListMonitorRuns(d, p))
  BY <1>1, CreatedKeyed DEF ListEvalRuns, ListMonitorRuns
<1>4. p.list \in ListNames
  BY DashboardAssumption
<1> QED
  BY <1>2, <1>3, <1>4, TracesKeyed, SessionsKeyed, UsersKeyed, ComparisonKeyed DEF KeysOf, ListNames

-----------------------------------------------------------------------------
(* The listing, while others commit                                        *)

Listing == client.at \in {"count", "page"}

ListFields ==
    {"at", "p", "offset", "total", "got", "first", "moved", "entered", "left", "torn", "tied"}

ListShape ==
    client.at \in {"count", "page", "listed"} =>
        /\ DOMAIN client = ListFields
        /\ client.p \in Listings /\ client.offset \in Nat
        /\ client.got \in Seq(Seen)
        /\ client.entered \in BOOLEAN /\ client.left \in BOOLEAN
        /\ client.torn \in BOOLEAN /\ client.tied \in BOOLEAN
        /\ Listing /\ ~client.tied => ~Tied(KeysOf(db, client.p))

Opened == client.at \in {"traces", "spans", "stats", "shown"}

DetailFields == {"at", "session", "torn", "summary", "shown", "spans", "tokens"}

DetailShape == Opened => DOMAIN client = DetailFields /\ client.torn \in BOOLEAN

(* A row that has kept its place so far is where it was, and once as many  *)
(* rows have been asked for as are ahead of it and one more, it has been   *)
(* seen.  Until a commit falls in between, the total is the number of rows.*)
SkipInv ==
    /\ Listing /\ ~client.left /\ ~client.tied =>
          \A i \in DOMAIN client.first \ client.moved :
             /\ i \in DOMAIN KeysOf(db, client.p) /\ KeysOf(db, client.p)[i] = client.first[i]
             /\ Rank(client.p, KeysOf(db, client.p), i) < client.offset => i \in Seen
    /\ client.at = "page" /\ ~client.torn =>
          client.total = Cardinality(DOMAIN KeysOf(db, client.p))
    /\ PagesSkipNothing

(* What has been seen, as far as it is still there, is behind the offset.  *)
RepeatInv ==
    /\ Listing /\ ~client.entered /\ ~client.tied /\ client.moved = {} =>
          /\ IsInjective(client.got)
          /\ \A i \in Seen \cap DOMAIN KeysOf(db, client.p) :
                Rank(client.p, KeysOf(db, client.p), i) < client.offset
    /\ PagesRepeatNothing

PagesInv == Tabled(db) /\ ListShape /\ DetailShape /\ SkipInv /\ RepeatInv

(* A new row is of its kind, and created when it says.                     *)
LEMMA BornScore == ASSUME NEW k \in ScoreKinds, NEW c \in Times PROVE IsScore(Born(k, c))
<1>1. DOMAIN k = ScoreColumns /\ k.target \in Int /\ k.value \in OrNull /\ k.name # None
  BY DashboardAssumption
<1>2. /\ DOMAIN Born(k, c) = ScoreColumns \cup {"created"}
      /\ Born(k, c).created = c /\ Born(k, c).target = k.target /\ Born(k, c).value = k.value
      /\ Born(k, c).name = k.name
  BY <1>1 DEF Born, ScoreColumns
<1> QED
  BY <1>1, <1>2 DEF IsScore

(* A new run has the columns of a run.                                     *)
LEMMA BornRun == ASSUME NEW k \in RunKinds, NEW c \in Times PROVE IsRun(Born(k, c))
<1>1. DOMAIN k = RunColumns
  BY DashboardAssumption
<1> QED
  BY <1>1 DEF Born, RunColumns, IsRun

(* A new trace has the columns of a trace.                                 *)
LEMMA BornTrace == ASSUME NEW k \in TraceKinds, NEW c \in Times PROVE IsTrace(Born(k, c))
<1>1. /\ DOMAIN k = TraceColumns /\ k.started \in Int /\ k.ended \in OrNull
      /\ IsFiniteSet(k.spans) /\ \A s \in k.spans : s.started \in Int /\ s.tokens \in Int
  BY DashboardAssumption
<1>2. /\ DOMAIN Born(k, c) = TraceColumns \cup {"created"}
      /\ Born(k, c).created = c /\ Born(k, c).started = k.started /\ Born(k, c).ended = k.ended
      /\ Born(k, c).spans = k.spans
  BY <1>1 DEF Born, TraceColumns
<1> QED
  BY <1>1, <1>2 DEF IsTrace

(* A new row replaces the one of its name, if there is one.                *)
LEMMA PutNamed ==
    ASSUME Tabled(db), NEW t \in Tables, NEW kind, NEW c
    PROVE  /\ Named(Put(t, kind, c))
           /\ \A r \in Put(t, kind, c) : r \in db[t] \/ r = Born(kind, c)
<1> DEFINE kept == {r \in db[t] : r.created # c}
<1>1. Named(db[t]) /\ kept \in SUBSET db[t]
  BY DEF Tabled
<1>2. IsFiniteSet(kept)
  BY <1>1, FS_Subset DEF Named
<1>3. Put(t, kind, c) = kept \cup {Born(kind, c)}
  BY DEF Put
<1>4. IsFiniteSet(Put(t, kind, c))
  BY <1>2, <1>3, FS_AddElement
<1>5. Born(kind, c).created = c
  BY DEF Born
<1>6. \A r, u \in Put(t, kind, c) : r.created = u.created => r = u
  BY <1>1, <1>3, <1>5 DEF Named
<1> QED
  BY <1>1, <1>3, <1>4, <1>6 DEF Named

(* Some rows of a table, or one of them replaced by one of its name.       *)
LEMMA LessNamed ==
    ASSUME NEW rows, Named(rows), NEW s
    PROVE  /\ \A less \in SUBSET rows : Named(less)
           /\ \A r \in rows : s.created = r.created => Named((rows \ {r}) \cup {s})
<1>1. ASSUME NEW less \in SUBSET rows PROVE Named(less)
  BY FS_Subset DEF Named
<1>2. ASSUME NEW r \in rows, s.created = r.created PROVE Named((rows \ {r}) \cup {s})
  <2>1. rows \ {r} \in SUBSET rows
    OBVIOUS
  <2>2. IsFiniteSet((rows \ {r}) \cup {s})
    BY <2>1, FS_Subset, FS_AddElement DEF Named
  <2> QED
    BY <1>2, <2>2 DEF Named
<1> QED
  BY <1>1, <1>2

(* A commit of rows of the right columns leaves the tables well formed.    *)
LEMMA ChangeTabled ==
    ASSUME Tabled(db), NEW t \in Tables, NEW rows, Change(t, rows), Named(rows),
           t \in {"trace_scores", "session_scores"} => \A r \in rows : IsScore(r),
           t = "eval_runs" => \A r \in rows : IsRun(r),
           t = "traces" => \A r \in rows : IsTrace(r)
    PROVE  Tabled(db')
<1>1. db' = [u \in Tables |-> db'[u]] /\ \A u \in Tables : db'[u] = IF u = t THEN rows ELSE db[u]
  BY DEF Change, Tabled
<1> QED
  BY <1>1 DEF Tabled, Tables

(* What the client does itself.                                            *)
Reads ==
    \/ \E p \in Listings : Open(p)
    \/ CountRows \/ FetchPage
    \/ \E s \in Sessions : ReadSummary(s)
    \/ ReadTraces \/ ReadSpans \/ ReadStats

(* What a step may do to the tables: nothing, or a change of one of them.  *)
LEMMA TabledStep ==
    ASSUME Tabled(db), [DashboardNext]_dashboardVars
    PROVE  /\ Tabled(db')
           /\ (Reads /\ db' = db) \/ UNCHANGED dashboardVars \/ \E t, rows : Change(t, rows)
<1> DEFINE Goal == /\ Tabled(db')
                   /\ (Reads /\ db' = db) \/ UNCHANGED dashboardVars \/ \E t, rows : Change(t, rows)
<1>0. ASSUME Reads, db' = db PROVE Goal
  BY <1>0
<1>1. ASSUME NEW p \in Listings, Open(p) PROVE Goal
  <2>1. Reads
    BY <1>1 DEF Reads
  <2> QED
    BY <1>0, <1>1, <2>1 DEF Open
<1>2. ASSUME CountRows \/ FetchPage PROVE Goal
  <2>1. UNCHANGED <<db, busy, commits>>
    BY <1>2, Zenon DEF CountRows, FetchPage
  <2>2. Reads
    BY <1>2 DEF Reads
  <2> QED
    BY <1>0, <2>1, <2>2
<1>3. ASSUME NEW s \in Sessions, ReadSummary(s) PROVE Goal
  <2>1. Reads
    BY <1>3 DEF Reads
  <2> QED
    BY <1>0, <1>3, <2>1 DEF ReadSummary
<1>4. ASSUME ReadTraces \/ ReadSpans \/ ReadStats PROVE Goal
  <2>1. UNCHANGED <<db, busy, commits>>
    BY <1>4, Zenon DEF ReadTraces, ReadSpans, ReadStats
  <2>2. Reads
    BY <1>4 DEF Reads
  <2> QED
    BY <1>0, <2>1, <2>2
<1>5. ASSUME NEW t \in Tables, NEW k \in ScoreKinds, NEW c \in Times, CreateScore(t, k, c) PROVE Goal
  <2>1. t \in {"trace_scores", "session_scores"} /\ Change(t, Put(t, k, c))
    BY <1>5 DEF CreateScore
  <2>2. IsScore(Born(k, c))
    BY BornScore
  <2>3. \A r \in Put(t, k, c) : IsScore(r)
    BY <2>1, <2>2, PutNamed DEF Tabled
  <2>4. Named(Put(t, k, c))
    BY PutNamed
  <2>5. t # "eval_runs" /\ t # "traces"
    BY <2>1
  <2>6. Tabled(db')
    BY <2>1, <2>3, <2>4, <2>5, ChangeTabled
  <2> QED
    BY <2>1, <2>6
<1>6. ASSUME NEW s \in db["trace_scores"], NEW v \in Values, UpdateScore(s, v) PROVE Goal
  <2> DEFINE new == [s EXCEPT !.status = "SUCCESS", !.value = IF v = None THEN @ ELSE v]
             rows == (db["trace_scores"] \ {s}) \cup {new}
  <2>1. Change("trace_scores", rows)
    BY <1>6 DEF UpdateScore
  <2>2. IsScore(s)
    BY DEF Tabled
  <2>3. v \in OrNull
    BY DashboardAssumption DEF Values
  <2>4. IsScore(new) /\ new.created = s.created
    BY <2>2, <2>3 DEF IsScore, ScoreColumns
  <2> HIDE DEF new
  <2>5. Named(rows)
    BY <2>4, LessNamed DEF Tabled, Tables
  <2>6. \A r \in rows : IsScore(r)
    BY <2>4 DEF Tabled
  <2> HIDE DEF rows
  <2>7. Tabled(db')
    BY <2>1, <2>5, <2>6, ChangeTabled DEF Tables
  <2> QED
    BY <2>1, <2>7
<1>7. ASSUME NEW t \in Tables, NEW s \in db[t], DeleteScore(t, s) PROVE Goal
  <2>1. t \in {"trace_scores", "session_scores"} /\ Change(t, db[t] \ {s})
    BY <1>7 DEF DeleteScore
  <2>2. Named(db[t] \ {s}) /\ \A r \in db[t] \ {s} : IsScore(r)
    BY <2>1, LessNamed DEF Tabled
  <2>3. t # "eval_runs" /\ t # "traces"
    BY <2>1
  <2>4. Tabled(db')
    BY <2>1, <2>2, <2>3, ChangeTabled
  <2> QED
    BY <2>1, <2>4
<1>8. ASSUME NEW k \in RunKinds, NEW c \in Times, CreateRun(k, c) PROVE Goal
  <2>1. Change("eval_runs", Put("eval_runs", k, c))
    BY <1>8 DEF CreateRun
  <2>2. IsRun(Born(k, c))
    BY BornRun
  <2>3. Named(Put("eval_runs", k, c)) /\ \A r \in Put("eval_runs", k, c) : IsRun(r)
    BY <2>2, PutNamed DEF Tabled, Tables
  <2>4. Tabled(db')
    BY <2>1, <2>3, ChangeTabled DEF Tables
  <2> QED
    BY <2>1, <2>4
<1>9. ASSUME NEW r \in db["eval_runs"], NEW k \in RunKinds, UpdateRunStatus(r, k.status) PROVE Goal
  <2> DEFINE new == [r EXCEPT !.status = k.status]
             rows == (db["eval_runs"] \ {r}) \cup {new}
  <2>1. Change("eval_runs", rows)
    BY <1>9 DEF UpdateRunStatus
  <2>2. IsRun(r)
    BY DEF Tabled
  <2>3. IsRun(new) /\ new.created = r.created
    BY <2>2 DEF IsRun, RunColumns
  <2> HIDE DEF new
  <2>4. Named(rows)
    BY <2>3, LessNamed DEF Tabled, Tables
  <2>5. \A u \in rows : IsRun(u)
    BY <2>3 DEF Tabled
  <2> HIDE DEF rows
  <2>6. Tabled(db')
    BY <2>1, <2>4, <2>5, ChangeTabled DEF Tables
  <2> QED
    BY <2>1, <2>6
<1>10. ASSUME NEW r \in db["eval_runs"], DeleteRun(r) PROVE Goal
  <2>1. Change("eval_runs", db["eval_runs"] \ {r})
    BY <1>10 DEF DeleteRun
  <2>2. Named(db["eval_runs"] \ {r}) /\ \A u \in db["eval_runs"] \ {r} : IsRun(u)
    BY LessNamed DEF Tabled, Tables
  <2>3. Tabled(db')
    BY <2>1, <2>2, ChangeTabled DEF Tables
  <2> QED
    BY <2>1, <2>3
<1>11. ASSUME NEW k \in TraceKinds, NEW c \in Times, StoreTrace(k, c) PROVE Goal
  <2>1. Change("traces", Put("traces", k, c))
    BY <1>11 DEF StoreTrace
  <2>2. IsTrace(Born(k, c))
    BY BornTrace
  <2>3. Named(Put("traces", k, c)) /\ \A r \in Put("traces", k, c) : IsTrace(r)
    BY <2>2, PutNamed DEF Tabled, Tables
  <2>4. Tabled(db')
    BY <2>1, <2>3, ChangeTabled DEF Tables
  <2> QED
    BY <2>1, <2>4
<1>12. ASSUME NEW less \in SUBSET db["traces"], Change("traces", less) PROVE Goal
  <2>1. Named(less) /\ \A u \in less : IsTrace(u)
    BY LessNamed DEF Tabled, Tables
  <2>2. Tabled(db')
    BY <1>12, <2>1, ChangeTabled DEF Tables
  <2> QED
    BY <1>12, <2>2
<1>13. ASSUME NEW t \in db["traces"], DropTrace(t) PROVE Goal
  BY <1>12, <1>13 DEF DropTrace
<1>14. ASSUME NEW s \in Sessions, DropSession(s) PROVE Goal
  BY <1>12, <1>14 DEF DropSession
<1>15. ASSUME UNCHANGED dashboardVars PROVE Goal
  BY <1>15 DEF dashboardVars
<1> HIDE DEF Goal
<1>16. Goal
  BY <1>1, <1>2, <1>3, <1>4, <1>5, <1>6, <1>7, <1>8, <1>9, <1>10, <1>11, <1>13, <1>14, <1>15
  DEF DashboardNext
<1> QED
  BY <1>16 DEF Goal

(* A list that is opened has nothing on it yet.                            *)
LEMMA OpenPages ==
    ASSUME Tabled(db), NEW p \in Listings, Open(p)
    PROVE  ListShape' /\ SkipInv' /\ RepeatInv'
<1> DEFINE keys == KeysOf(db, p)
<1>1. Keyed(keys)
  BY KeysAre
<1>2. /\ client' = [at |-> "count", p |-> p, offset |-> 0, total |-> 0, got |-> <<>>,
                    first |-> keys, moved |-> {}, entered |-> FALSE, left |-> FALSE,
                    torn |-> FALSE, tied |-> Tied(keys)]
      /\ db' = db
  BY DEF Open
<1> HIDE DEF keys
<1>3. /\ client'.at = "count" /\ client'.p = p /\ client'.offset = 0 /\ client'.got = <<>>
      /\ client'.first = keys /\ client'.moved = {} /\ client'.entered = FALSE
      /\ client'.left = FALSE /\ client'.torn = FALSE /\ client'.tied = Tied(keys)
      /\ DOMAIN client' = ListFields
  BY <1>2 DEF ListFields
<1>4. KeysOf(db', client'.p) = keys
  BY <1>2, <1>3 DEF keys
<1>5. Seen' = {}
  BY <1>3 DEF Seen
<1>6. ListShape'
  <2>1. Tied(keys) \in BOOLEAN
    BY DEF Tied
  <2>2. client'.got \in Seq(Seen')
    BY <1>3
  <2>3. client'.p \in Listings /\ client'.offset \in Nat
    BY <1>3
  <2> QED
    BY <1>3, <1>4, <2>1, <2>2, <2>3 DEF ListShape
<1>7. SkipInv'
  <2>1. \A i \in DOMAIN keys : ~(Rank(p, keys, i) < 0)
    BY <1>1, RankNat
  <2> QED
    BY <1>3, <1>4, <2>1 DEF SkipInv, Listing, PagesSkipNothing
<1>8. RepeatInv'
  <2>1. IsInjective(<<>>)
    BY DEF IsInjective
  <2> QED
    BY <1>3, <1>5, <2>1 DEF RepeatInv, Listing, PagesRepeatNothing
<1> QED
  BY <1>6, <1>7, <1>8

(* The total is the number of rows, until someone commits.                 *)
LEMMA CountPages ==
    ASSUME Tabled(db), ListShape, SkipInv, RepeatInv, CountRows
    PROVE  ListShape' /\ SkipInv' /\ RepeatInv'
<1>1. /\ client' = [client EXCEPT !.at = "page", !.total = Cardinality(DOMAIN KeysOf(db, client.p))]
      /\ db' = db /\ client.at = "count"
  BY DEF CountRows
<1>2. DOMAIN client = ListFields
  BY <1>1 DEF ListShape
<1>3. /\ client'.at = "page" /\ client'.total = Cardinality(DOMAIN KeysOf(db, client.p))
      /\ client'.p = client.p /\ client'.offset = client.offset /\ client'.got = client.got
      /\ client'.first = client.first /\ client'.moved = client.moved
      /\ client'.entered = client.entered /\ client'.left = client.left
      /\ client'.torn = client.torn /\ client'.tied = client.tied
      /\ DOMAIN client' = ListFields
  BY <1>1, <1>2 DEF ListFields
<1>4. KeysOf(db', client'.p) = KeysOf(db, client.p) /\ Seen' = Seen
  BY <1>1, <1>3 DEF Seen
<1> QED
  BY <1>1, <1>3, <1>4
  DEF ListShape, SkipInv, RepeatInv, Listing, PagesSkipNothing, PagesRepeatNothing

(* A page has the rows from the offset on, and the next one begins behind  *)
(* it.                                                                     *)
LEMMA FetchPages ==
    ASSUME Tabled(db), ListShape, SkipInv, RepeatInv, FetchPage
    PROVE  ListShape' /\ SkipInv' /\ RepeatInv'
<1> DEFINE p == client.p
           keys == KeysOf(db, p)
           offset == client.offset
<1>1. client.at = "page" /\ db' = db
  BY DEF FetchPage
<1>2. /\ DOMAIN client = ListFields /\ p \in Listings /\ offset \in Nat
      /\ client.got \in Seq(Seen) /\ (~client.tied => ~Tied(keys))
  BY <1>1 DEF ListShape, Listing
<1>3. Keyed(keys)
  BY <1>2, KeysAre
<1>4. PICK s \in Sorted(p, keys) :
          client' = [client EXCEPT
                       !.got = @ \o Page(s, offset, Limit),
                       !.offset = @ + Limit,
                       !.at = IF offset + Limit < client.total THEN "count" ELSE "listed"]
  BY DEF FetchPage
<1> DEFINE page == Page(s, offset, Limit)
<1> HIDE DEF keys, offset, page
<1>5. Limit \in Nat
  BY DashboardAssumption
<1>6. page \in Seq(DOMAIN keys)
  <2>1. s \in Seq(DOMAIN keys)
    BY <1>3, SortedRows
  <2>2. PICK m \in Nat : IsPage(page, DOMAIN keys, s, offset, Limit, m)
    BY <1>2, <1>5, <2>1, PageRows DEF page
  <2> QED
    BY <2>2 DEF IsPage
<1>7. /\ client'.at = (IF offset + Limit < client.total THEN "count" ELSE "listed")
      /\ client'.got = client.got \o page /\ client'.offset = offset + Limit
      /\ client'.p = client.p /\ client'.total = client.total
      /\ client'.first = client.first /\ client'.moved = client.moved
      /\ client'.entered = client.entered /\ client'.left = client.left
      /\ client'.torn = client.torn /\ client'.tied = client.tied
      /\ DOMAIN client' = ListFields
  BY <1>2, <1>4 DEF ListFields, page, offset
<1>8. KeysOf(db', client'.p) = keys
  BY <1>1, <1>7 DEF keys
<1>9. Seen = RowsIn(client.got) /\ Seen' = RowsIn(client'.got)
  BY DEF Seen, RowsIn
<1>10. /\ client'.got \in Seq(Seen \cup DOMAIN keys) /\ Seen' = Seen \cup RowsIn(page)
       /\ IsInjective(client.got) /\ IsInjective(page) /\ Seen \cap RowsIn(page) = {} =>
             IsInjective(client'.got)
  <2> DEFINE got == client.got
  <2>1. got \in Seq(Seen) /\ page \in Seq(DOMAIN keys)
    BY <1>2, <1>6
  <2> HIDE DEF got
  <2>2. /\ got \o page \in Seq(Seen \cup DOMAIN keys)
        /\ RowsIn(got \o page) = RowsIn(got) \cup RowsIn(page)
        /\ IsInjective(got) /\ IsInjective(page) /\ RowsIn(got) \cap RowsIn(page) = {} =>
              IsInjective(got \o page)
    BY <2>1, ConcatRows, Zenon
  <2> QED
    BY <1>7, <1>9, <2>2 DEF got
<1>11. ListShape'
  <2>1. client'.got \in Seq(Seen')
    <3>1. PICK n \in Nat : n = Len(client'.got) /\ DOMAIN client'.got = 1..n
      BY <1>10, LenProperties
    <3>2. client'.got = [i \in 1..n |-> client'.got[i]]
      BY <1>10, <3>1
    <3>3. \A i \in 1..n : client'.got[i] \in Seen'
      BY <1>9, <3>1 DEF RowsIn
    <3> QED
      BY <3>2, <3>3
  <2>2. client'.offset \in Nat
    BY <1>2, <1>5, <1>7
  <2>3. client.at \in {"count", "page", "listed"}
    BY <1>1
  <2> QED
    BY <1>2, <1>7, <1>8, <2>1, <2>2, <2>3 DEF ListShape
<1>12. ASSUME ~client.tied
       PROVE  /\ IsInjective(page)
              /\ RowsIn(page) = Ranked(p, keys, offset, Limit)
  <2>1. ~Tied(keys) /\ s \in Sorted(p, keys)
    BY <1>2, <1>12
  <2> HIDE DEF p
  <2> QED
    BY <1>2, <1>3, <1>5, <2>1, PageRanks DEF page
<1>13. \A i \in DOMAIN keys : /\ Rank(p, keys, i) \in Nat /\ Cardinality(DOMAIN keys) \in Nat
                              /\ Rank(p, keys, i) < Cardinality(DOMAIN keys)
  BY <1>3, RankNat
<1>14. SkipInv'
  <2>1. ASSUME ~client.left, ~client.tied, NEW i \in DOMAIN client.first \ client.moved
        PROVE  /\ i \in DOMAIN keys /\ keys[i] = client.first[i]
               /\ Rank(p, keys, i) < offset + Limit => i \in Seen'
    <3>1. i \in DOMAIN keys /\ keys[i] = client.first[i] /\ (Rank(p, keys, i) < offset => i \in Seen)
      BY <1>1, <2>1 DEF SkipInv, Listing, keys, offset
    <3>2. Rank(p, keys, i) \in Nat
      BY <1>13, <3>1
    <3>3. Rank(p, keys, i) < offset + Limit /\ ~(Rank(p, keys, i) < offset) => i \in RowsIn(page)
      BY <1>2, <1>12, <2>1, <3>1, <3>2 DEF Ranked
    <3> QED
      BY <1>10, <3>1, <3>3
  <2>2. ~client.torn => client.total = Cardinality(DOMAIN keys)
    BY <1>1 DEF SkipInv, keys
  <2>3. PagesSkipNothing'
    <3> SUFFICES ASSUME client'.at = "listed", ~client.left, ~client.tied, ~client.torn,
                        NEW i \in DOMAIN client.first \ client.moved
                 PROVE  i \in Seen'
      BY <1>7 DEF PagesSkipNothing
    <3>1. i \in DOMAIN keys
      BY <2>1
    <3>2. ~(offset + Limit < Cardinality(DOMAIN keys))
      BY <1>7, <2>2
    <3>3. Rank(p, keys, i) < offset + Limit
      BY <1>2, <1>5, <1>13, <3>1, <3>2
    <3> QED
      BY <2>1, <3>3
  <2>4. Listing' /\ ~client.left /\ ~client.tied =>
          \A i \in DOMAIN client.first \ client.moved :
             /\ i \in DOMAIN keys /\ keys[i] = client.first[i]
             /\ Rank(p, keys, i) < offset + Limit => i \in Seen'
    BY <2>1
  <2>5. client'.at # "page"
    BY <1>7
  <2> QED
    BY <1>7, <1>8, <2>3, <2>4, <2>5 DEF SkipInv
<1>15. RepeatInv'
  <2>1. ASSUME ~client.entered, ~client.tied, client.moved = {}
        PROVE  /\ IsInjective(client'.got)
               /\ \A i \in Seen' \cap DOMAIN keys : Rank(p, keys, i) < offset + Limit
    <3>1. /\ IsInjective(client.got)
          /\ \A i \in Seen \cap DOMAIN keys : Rank(p, keys, i) < offset
      BY <1>1, <2>1 DEF RepeatInv, Listing, keys, offset
    <3>2. Seen \cap RowsIn(page) = {}
      <4> SUFFICES ASSUME NEW i \in Seen, i \in RowsIn(page) PROVE FALSE
        OBVIOUS
      <4>1. i \in DOMAIN keys /\ offset <= Rank(p, keys, i)
        BY <1>12, <2>1 DEF Ranked
      <4>2. Rank(p, keys, i) < offset /\ Rank(p, keys, i) \in Nat
        BY <1>13, <3>1, <4>1
      <4> QED
        BY <1>2, <4>1, <4>2
    <3>3. IsInjective(client'.got)
      BY <1>10, <1>12, <2>1, <3>1, <3>2
    <3>4. ASSUME NEW i \in Seen' \cap DOMAIN keys PROVE Rank(p, keys, i) < offset + Limit
      <4>1. i \in Seen => Rank(p, keys, i) < offset
        BY <3>1
      <4>2. i \in RowsIn(page) => Rank(p, keys, i) < offset + Limit
        BY <1>12, <2>1 DEF Ranked
      <4> QED
        BY <1>2, <1>5, <1>10, <1>13, <4>1, <4>2
    <3> QED
      BY <3>3, <3>4
  <2>2. PagesRepeatNothing'
    BY <1>7, <2>1 DEF PagesRepeatNothing
  <2> QED
    BY <1>7, <1>8, <2>1, <2>2 DEF RepeatInv
<1> QED
  BY <1>11, <1>14, <1>15

(* A commit of another while the client lists.                             *)
LEMMA ChangePages ==
    ASSUME Tabled(db), Tabled(db'), ListShape, SkipInv, RepeatInv, Listing,
           NEW t, NEW rows, Change(t, rows)
    PROVE  ListShape' /\ SkipInv' /\ RepeatInv'
<1> DEFINE p == client.p
           old == KeysOf(db, p)
           new == KeysOf(db', p)
           both == DOMAIN old \cap DOMAIN new
           forward == {i \in both : Ahead(p, new[i], old[i])}
           changed == {i \in both : new[i] # old[i]}
           back == \E i \in both : Ahead(p, old[i], new[i])
<1>1. client' = [client EXCEPT
                    !.moved = @ \cup changed,
                    !.entered = @ \/ forward # {} \/ DOMAIN new \ DOMAIN old # {},
                    !.left = @ \/ DOMAIN old \ DOMAIN new # {} \/ back,
                    !.torn = @ \/ (client.at = "page" /\ new # old),
                    !.tied = @ \/ Tied(new)]
  BY Zenon DEF Change, Track, Listing
<1>2. client.at \in {"count", "page"}
  BY DEF Listing
<1>3. /\ DOMAIN client = ListFields /\ p \in Listings /\ client.offset \in Nat
      /\ client.got \in Seq(Seen)
      /\ client.entered \in BOOLEAN /\ client.left \in BOOLEAN
      /\ client.torn \in BOOLEAN /\ client.tied \in BOOLEAN
      /\ (~client.tied => ~Tied(old))
  BY <1>2 DEF ListShape, Listing
<1>4. Keyed(old) /\ Keyed(new)
  BY <1>3, KeysAre
<1> HIDE DEF old, new, back, forward, changed
<1>5. /\ client'.at = client.at /\ client'.p = p /\ client'.offset = client.offset
      /\ client'.total = client.total /\ client'.got = client.got /\ client'.first = client.first
      /\ client'.moved = client.moved \cup changed
      /\ client'.entered = (client.entered \/ forward # {} \/ DOMAIN new \ DOMAIN old # {})
      /\ client'.left = (client.left \/ DOMAIN old \ DOMAIN new # {} \/ back)
      /\ client'.torn = (client.torn \/ (client.at = "page" /\ new # old))
      /\ client'.tied = (client.tied \/ Tied(new))
      /\ DOMAIN client' = ListFields
  BY <1>1, <1>3 DEF ListFields
<1>6. KeysOf(db', client'.p) = new /\ KeysOf(db, client.p) = old /\ Seen' = Seen
  BY <1>5 DEF new, old, Seen
<1>7. \A i \in DOMAIN old \cap DOMAIN new : old[i] \in Key /\ new[i] \in Key
  BY <1>4 DEF Keyed
<1>8. ListShape'
  <2>1. client'.entered \in BOOLEAN /\ client'.left \in BOOLEAN /\ client'.torn \in BOOLEAN
    BY <1>3, <1>5
  <2>2. client'.tied \in BOOLEAN /\ (~client'.tied => ~Tied(new))
    BY <1>5
  <2>3. client'.got \in Seq(Seen')
    BY <1>3, <1>5, <1>6
  <2> QED
    BY <1>3, <1>5, <1>6, <2>1, <2>2, <2>3 DEF ListShape
<1>9. SkipInv'
  <2>1. ASSUME ~client'.left, ~client'.tied, NEW i \in DOMAIN client.first \ client'.moved
        PROVE  /\ i \in DOMAIN new /\ new[i] = client.first[i]
               /\ Rank(p, new, i) < client.offset => i \in Seen
    <3>1. ~client.left /\ ~client.tied /\ DOMAIN old \subseteq DOMAIN new /\ ~back
      BY <1>5, <2>1
    <3>2. i \in DOMAIN client.first \ client.moved /\ i \notin changed
      BY <1>5, <2>1
    <3>3. /\ i \in DOMAIN old /\ old[i] = client.first[i]
          /\ Rank(p, old, i) < client.offset => i \in Seen
      BY <1>6, <3>1, <3>2 DEF SkipInv
    <3>4. i \in DOMAIN new /\ new[i] = old[i]
      BY <3>1, <3>2, <3>3 DEF changed
    <3>5. \A j \in DOMAIN old : ~Ahead(p, old[j], new[j])
      BY <3>1 DEF back
    <3> HIDE DEF p
    <3>6. Rank(p, old, i) <= Rank(p, new, i)
      BY <1>4, <3>1, <3>3, <3>4, <3>5, RankRises
    <3>7. Rank(p, old, i) \in Nat /\ Rank(p, new, i) \in Nat
      BY <1>4, <3>3, <3>4, RankNat
    <3> QED
      BY <1>3, <3>3, <3>4, <3>6, <3>7
  <2>2. client'.at = "page" /\ ~client'.torn => client'.total = Cardinality(DOMAIN new)
    BY <1>5, <1>6 DEF SkipInv
  <2>3. PagesSkipNothing'
    BY <1>2, <1>5 DEF PagesSkipNothing
  <2> QED
    BY <1>5, <1>6, <2>1, <2>2, <2>3 DEF SkipInv
<1>10. RepeatInv'
  <2>1. ASSUME ~client'.entered, ~client'.tied, client'.moved = {}
        PROVE  /\ IsInjective(client.got)
               /\ \A i \in Seen \cap DOMAIN new : Rank(p, new, i) < client.offset
    <3>1. ~client.entered /\ ~client.tied /\ client.moved = {} /\ changed = {} /\ DOMAIN new \subseteq DOMAIN old
      BY <1>5, <2>1
    <3>2. /\ IsInjective(client.got)
          /\ \A i \in Seen \cap DOMAIN old : Rank(p, old, i) < client.offset
      BY <1>6, <3>1 DEF RepeatInv
    <3>3. \A j \in DOMAIN new : new[j] = old[j]
      BY <3>1 DEF changed
    <3>4. \A j \in DOMAIN new : ~Ahead(p, new[j], old[j])
      BY <1>4, <3>3, KeyOrder DEF Keyed
    <3> HIDE DEF p
    <3>5. ASSUME NEW i \in Seen \cap DOMAIN new PROVE Rank(p, new, i) < client.offset
      <4>1. old[i] = new[i] /\ i \in DOMAIN new /\ i \in DOMAIN old
        BY <3>1, <3>3
      <4>2. Rank(p, new, i) <= Rank(p, old, i)
        BY <1>4, <3>1, <3>4, <4>1, RankRises
      <4>3. Rank(p, old, i) \in Nat /\ Rank(p, new, i) \in Nat /\ Rank(p, old, i) < client.offset
        BY <1>4, <3>2, <4>1, RankNat
      <4> QED
        BY <1>3, <4>2, <4>3
    <3> QED
      BY <3>2, <3>5
  <2>2. PagesRepeatNothing'
    BY <1>2, <1>5 DEF PagesRepeatNothing
  <2> QED
    BY <1>5, <1>6, <2>1, <2>2 DEF RepeatInv
<1> QED
  BY <1>8, <1>9, <1>10

(* Nothing is said of a client that is not at a list.                      *)
LEMMA NotListing ==
    ASSUME client'.at \notin {"count", "page", "listed"}
    PROVE  ListShape' /\ SkipInv' /\ RepeatInv'
  BY DEF ListShape, SkipInv, RepeatInv, Listing, PagesSkipNothing, PagesRepeatNothing

(* A commit of another, and the steps of a client that has opened a        *)
(* session, leave the listing alone.                                       *)
LEMMA ChangeInv ==
    ASSUME PagesInv, Tabled(db'), NEW t, NEW rows, Change(t, rows)
    PROVE  PagesInv' /\ (Listing \/ client' = client \/ (Opened /\ client' = [client EXCEPT !.torn = TRUE]))
<1>1. ASSUME Listing PROVE PagesInv'
  <2>1. ListShape' /\ SkipInv' /\ RepeatInv'
    BY <1>1, ChangePages DEF PagesInv
  <2>2. client'.at = client.at
    <3>1. "at" \in DOMAIN client
      BY <1>1 DEF PagesInv, ListShape, Listing, ListFields
    <3>2. client' = [client EXCEPT
                    !.moved = client'.moved, !.entered = client'.entered, !.left = client'.left,
                    !.torn = client'.torn, !.tied = client'.tied]
      BY <1>1 DEF Change, Track, Listing, PagesInv, ListShape, ListFields
    <3> QED
      BY <3>1, <3>2
  <2> QED
    BY <1>1, <2>1, <2>2 DEF PagesInv, DetailShape, Opened, Listing
<1>2. ASSUME client.at \in {"traces", "spans", "stats"}
      PROVE  PagesInv' /\ Opened /\ client' = [client EXCEPT !.torn = TRUE]
  <2>1. client' = [client EXCEPT !.torn = TRUE]
    BY <1>2, Zenon DEF Change, Track
  <2>2. DOMAIN client = DetailFields
    BY <1>2 DEF PagesInv, DetailShape, Opened
  <2>3. client'.at = client.at /\ client'.torn = TRUE /\ DOMAIN client' = DetailFields
    BY <2>1, <2>2 DEF DetailFields
  <2> QED
    BY <1>2, <2>1, <2>3, NotListing DEF PagesInv, DetailShape, Opened
<1>3. ASSUME client.at \notin {"count", "page", "traces", "spans", "stats"} PROVE PagesInv' /\ client' = client
  <2>1. client' = client /\ client = Away
    BY <1>3 DEF Change, Track, Reading
  <2>2. client'.at = "idle"
    BY <2>1 DEF Away
  <2> QED
    BY <2>1, <2>2, NotListing DEF PagesInv, DetailShape, Opened
<1> QED
  BY <1>1, <1>2, <1>3 DEF Listing

(* PagesInv is inductive.                                                  *)
LEMMA PagesStep == PagesInv /\ [DashboardNext]_dashboardVars => PagesInv'
<1> SUFFICES ASSUME PagesInv, [DashboardNext]_dashboardVars PROVE PagesInv'
  OBVIOUS
<1>1. /\ Tabled(db) /\ ListShape /\ DetailShape /\ SkipInv /\ RepeatInv
      /\ Tabled(db')
      /\ (Reads /\ db' = db) \/ UNCHANGED dashboardVars \/ \E t, rows : Change(t, rows)
  BY TabledStep DEF PagesInv
<1>2. ASSUME NEW t, NEW rows, Change(t, rows) PROVE PagesInv'
  BY <1>1, <1>2, ChangeInv
<1>3. ASSUME UNCHANGED dashboardVars PROVE PagesInv'
  BY <1>1, <1>3
  DEF dashboardVars, PagesInv, ListShape, DetailShape, SkipInv, RepeatInv, Listing, Opened, Seen,
      PagesSkipNothing, PagesRepeatNothing
<1>4. ASSUME NEW p \in Listings, Open(p) PROVE PagesInv'
  <2>1. ListShape' /\ SkipInv' /\ RepeatInv'
    BY <1>1, <1>4, OpenPages
  <2>2. client'.at = "count"
    BY <1>4 DEF Open
  <2> QED
    BY <1>1, <2>1, <2>2 DEF PagesInv, DetailShape, Opened
<1>5. ASSUME CountRows PROVE PagesInv'
  <2>1. ListShape' /\ SkipInv' /\ RepeatInv'
    BY <1>1, <1>5, CountPages
  <2>2. client'.at = "page"
    BY <1>1, <1>5 DEF CountRows, ListShape, ListFields
  <2> QED
    BY <1>1, <2>1, <2>2 DEF PagesInv, DetailShape, Opened
<1>6. ASSUME FetchPage PROVE PagesInv'
  <2>1. ListShape' /\ SkipInv' /\ RepeatInv'
    BY <1>1, <1>6, FetchPages
  <2>2. client'.at \in {"count", "listed"}
    <3>1. "at" \in DOMAIN client
      BY <1>1, <1>6 DEF FetchPage, ListShape, ListFields
    <3>2. PICK s : client' = [client EXCEPT
                       !.got = @ \o Page(s, client.offset, Limit),
                       !.offset = @ + Limit,
                       !.at = IF client.offset + Limit < client.total THEN "count" ELSE "listed"]
      BY <1>6, Zenon DEF FetchPage
    <3> QED
      BY <3>1, <3>2
  <2> QED
    BY <1>1, <2>1, <2>2 DEF PagesInv, DetailShape, Opened
<1>7. ASSUME NEW s \in Sessions, ReadSummary(s) PROVE PagesInv'
  <2>1. client'.at \in {"not_found", "traces"}
    BY <1>7 DEF ReadSummary
  <2>2. client'.at = "traces" => DOMAIN client' = DetailFields /\ client'.torn = FALSE
    BY <1>7 DEF ReadSummary, DetailFields
  <2> QED
    BY <1>1, <2>1, <2>2, NotListing DEF PagesInv, DetailShape, Opened
<1>8. ASSUME ReadTraces \/ ReadSpans \/ ReadStats PROVE PagesInv'
  <2>1. ASSUME ReadTraces PROVE PagesInv'
    <3>1. client.at = "traces"
      BY <2>1, Zenon DEF ReadTraces
    <3>2. PICK shown : client' = [client EXCEPT !.at = "spans", !.shown = shown]
      BY <2>1, Zenon DEF ReadTraces
    <3>3. DOMAIN client = DetailFields /\ client.torn \in BOOLEAN
      BY <1>1, <3>1 DEF DetailShape, Opened
    <3>4. client'.at = "spans" /\ client'.torn = client.torn /\ DOMAIN client' = DetailFields
      BY <3>2, <3>3 DEF DetailFields
    <3> QED
      BY <1>1, <3>3, <3>4, NotListing DEF PagesInv, DetailShape
  <2>2. ASSUME ReadSpans PROVE PagesInv'
    <3>1. DOMAIN client = DetailFields /\ client.torn \in BOOLEAN
      BY <1>1, <2>2 DEF DetailShape, Opened, ReadSpans
    <3>2. PICK spans : client' = [client EXCEPT !.at = "stats", !.spans = spans]
      BY <2>2, Zenon DEF ReadSpans
    <3>3. client'.at = "stats" /\ client'.torn = client.torn /\ DOMAIN client' = DetailFields
      BY <3>1, <3>2 DEF DetailFields
    <3> QED
      BY <1>1, <3>1, <3>3, NotListing DEF PagesInv, DetailShape
  <2>3. ASSUME ReadStats PROVE PagesInv'
    <3>1. DOMAIN client = DetailFields /\ client.torn \in BOOLEAN
      BY <1>1, <2>3 DEF DetailShape, Opened, ReadStats
    <3>2. PICK tokens : client' = [client EXCEPT !.at = "shown", !.tokens = tokens]
      BY <2>3, Zenon DEF ReadStats
    <3>3. client'.at = "shown" /\ client'.torn = client.torn /\ DOMAIN client' = DetailFields
      BY <3>1, <3>2 DEF DetailFields
    <3> QED
      BY <1>1, <3>1, <3>3, NotListing DEF PagesInv, DetailShape
  <2> QED
    BY <1>8, <2>1, <2>2, <2>3
<1>9. ASSUME Reads PROVE PagesInv'
  BY <1>4, <1>5, <1>6, <1>7, <1>8, <1>9 DEF Reads
<1> QED
  BY <1>1, <1>2, <1>3, <1>9

(* It holds before the client begins.                                      *)
LEMMA PagesInit == DashboardInit => PagesInv
<1> SUFFICES ASSUME DashboardInit PROVE PagesInv
  OBVIOUS
<1>1. client.at = "idle" /\ db = [t \in Tables |-> {}]
  BY DEF DashboardInit, Away
<1>2. \A t \in Tables : db[t] = {}
  BY <1>1
<1>3. Tabled(db)
  BY <1>1, <1>2, FS_EmptySet DEF Tabled, Named, Tables
<1> QED
  BY <1>1, <1>3
  DEF PagesInv, ListShape, DetailShape, SkipInv, RepeatInv, Listing, Opened, PagesSkipNothing,
      PagesRepeatNothing

(* The invariant of the listing, of which the two properties are parts.    *)
THEOREM PagesInvCorrect == DashboardSpec => []PagesInv
<1> QED
  BY PagesInit, PagesStep, PTL DEF DashboardSpec

(* No row that keeps its place is skipped by a client that pages by offset,*)
(* whatever comes in meanwhile.                                            *)
THEOREM PagesSkipCorrect == DashboardSpec => []PagesSkipNothing
<1>1. PagesInv => PagesSkipNothing
  BY DEF PagesInv, SkipInv
<1> QED
  BY <1>1, PagesInvCorrect, PTL

(* No row is seen twice unless one comes in or forward, whatever leaves.   *)
THEOREM PagesRepeatCorrect == DashboardSpec => []PagesRepeatNothing
<1>1. PagesInv => PagesRepeatNothing
  BY DEF PagesInv, RepeatInv
<1> QED
  BY <1>1, PagesInvCorrect, PTL

-----------------------------------------------------------------------------
(* A session and its traces, read in four statements                       *)

(* The sums of the model, in the form of Sums.                             *)
LEMMA TotalIs == ASSUME NEW seq PROVE Total(seq) = Sums(seq, DOMAIN seq)
  BY DEF Total, Sums

(* The spans of several traces are those of each, added up.                *)
LEMMA SpanCountIs ==
    ASSUME NEW rows
    PROVE  T!SpanCount(rows) = Sums([t \in rows |-> T!SpanStats(t).count], rows)
<1> DEFINE f == [t \in rows |-> T!SpanStats(t).count]
           A(it) == [s \in SUBSET rows |-> IF s = {} THEN 0
                       ELSE T!SpanStats(CHOOSE x \in s : TRUE).count + it[s \ {CHOOSE x \in s : TRUE}]]
           B(it) == [s \in SUBSET rows |-> IF s = {} THEN 0
                       ELSE f[CHOOSE x \in s : TRUE] + it[s \ {CHOOSE x \in s : TRUE}]]
<1>1. \A it : A(it) = B(it)
  <2> HIDE DEF f
  <2>1. \A s \in SUBSET rows : s # {} => (CHOOSE x \in s : TRUE) \in rows
    OBVIOUS
  <2>2. \A t \in rows : f[t] = T!SpanStats(t).count
    BY DEF f
  <2> QED
    BY <2>1, <2>2
<1>2. T!SpanCount(rows) = (CHOOSE it : it = A(it))[rows]
  BY DEF T!SpanCount, T!MapThenSumSet, T!MapThenFoldSet
<1>3. Sums(f, rows) = (CHOOSE it : it = B(it))[rows]
  BY DEF Sums, MapThenSumSet, MapThenFoldSet
<1> HIDE DEF A, B, f
<1>4. (CHOOSE it : it = A(it)) = (CHOOSE it : it = B(it))
  BY <1>1, Zenon
<1> QED
  BY <1>2, <1>3, <1>4 DEF f

(* So are their tokens.                                                    *)
LEMMA TokensIs ==
    ASSUME NEW rows
    PROVE  T!Tokens(rows) = Sums([t \in rows |-> T!SpanStats(t).tokens], rows)
<1> DEFINE f == [t \in rows |-> T!SpanStats(t).tokens]
           A(it) == [s \in SUBSET rows |-> IF s = {} THEN 0
                       ELSE T!SpanStats(CHOOSE x \in s : TRUE).tokens + it[s \ {CHOOSE x \in s : TRUE}]]
           B(it) == [s \in SUBSET rows |-> IF s = {} THEN 0
                       ELSE f[CHOOSE x \in s : TRUE] + it[s \ {CHOOSE x \in s : TRUE}]]
<1>1. \A it : A(it) = B(it)
  <2> HIDE DEF f
  <2>1. \A s \in SUBSET rows : s # {} => (CHOOSE x \in s : TRUE) \in rows
    OBVIOUS
  <2>2. \A t \in rows : f[t] = T!SpanStats(t).tokens
    BY DEF f
  <2> QED
    BY <2>1, <2>2
<1>2. T!Tokens(rows) = (CHOOSE it : it = A(it))[rows]
  BY DEF T!Tokens, T!MapThenSumSet, T!MapThenFoldSet
<1>3. Sums(f, rows) = (CHOOSE it : it = B(it))[rows]
  BY DEF Sums, MapThenSumSet, MapThenFoldSet
<1> HIDE DEF A, B, f
<1>4. (CHOOSE it : it = A(it)) = (CHOOSE it : it = B(it))
  BY <1>1, Zenon
<1> QED
  BY <1>2, <1>3, <1>4 DEF f

SpanTokens(t) == Sums([s \in t.spans |-> s.tokens], t.spans)

(* What is counted of the spans of one trace.                              *)
LEMMA SpanStatsIs ==
    ASSUME NEW t
    PROVE  T!SpanStats(t) = [count |-> Cardinality(t.spans), tokens |-> SpanTokens(t)]
<1> DEFINE ids == t.spans
<1> HIDE DEF ids
<1> DEFINE f == [s \in ids |-> s.tokens]
           A(it) == [s \in SUBSET ids |-> IF s = {} THEN 0
                       ELSE (CHOOSE x \in s : TRUE).tokens + it[s \ {CHOOSE x \in s : TRUE}]]
           B(it) == [s \in SUBSET ids |-> IF s = {} THEN 0
                       ELSE f[CHOOSE x \in s : TRUE] + it[s \ {CHOOSE x \in s : TRUE}]]
<1>1. \A it : A(it) = B(it)
  <2> HIDE DEF f
  <2>1. \A s \in SUBSET ids : s # {} => (CHOOSE x \in s : TRUE) \in ids
    OBVIOUS
  <2>2. \A s \in ids : f[s] = s.tokens
    BY DEF f
  <2> QED
    BY <2>1, <2>2
<1>2. T!SpanStats(t) = [count |-> T!Cardinality(t.spans), tokens |-> (CHOOSE it : it = A(it))[ids]]
  BY DEF T!SpanStats, T!MapThenSumSet, T!MapThenFoldSet, ids
<1>3. Sums(f, ids) = (CHOOSE it : it = B(it))[ids]
  BY DEF Sums, MapThenSumSet, MapThenFoldSet
<1>4. SpanTokens(t) = Sums(f, ids)
  BY DEF SpanTokens, ids
<1> HIDE DEF A, B, f
<1>5. (CHOOSE it : it = A(it)) = (CHOOSE it : it = B(it))
  BY <1>1, Zenon
<1> QED
  BY <1>2, <1>3, <1>4, <1>5, SameCount

(* Both are numbers.                                                       *)
LEMMA SpanStatsInt ==
    ASSUME NEW t, IsTrace(t)
    PROVE  T!SpanStats(t).count \in Int /\ T!SpanStats(t).tokens \in Int
<1>1. IsFiniteSet(t.spans) /\ \A s \in t.spans : s.tokens \in Int
  BY DEF IsTrace
<1> DEFINE ids == t.spans
           f == [s \in ids |-> s.tokens]
<1>2. \A s \in ids : f[s] \in Int
  BY <1>1
<1> HIDE DEF f
<1>3. Sums(f, ids) \in Int
  BY <1>1, <1>2, SumsInt
<1>4. SpanTokens(t) \in Int
  BY <1>3 DEF SpanTokens, f
<1> QED
  BY <1>1, <1>4, SpanStatsIs, FS_CardinalityType

(* The sums over one row.                                                  *)
LEMMA OneRow ==
    ASSUME NEW t, IsTrace(t)
    PROVE  T!SpanCount({t}) = T!SpanStats(t).count /\ T!Tokens({t}) = T!SpanStats(t).tokens
<1>1. ASSUME NEW f, f[t] \in Int PROVE Sums(f, {t}) = f[t]
  <2>1. IsFiniteSet({t}) /\ {t} \ {t} = {}
    BY FS_Singleton
  <2>2. Sums(f, {t}) = f[t] + Sums(f, {t} \ {t}) /\ Sums(f, {}) = 0
    BY <1>1, <2>1, SumsRec
  <2> QED
    BY <1>1, <2>1, <2>2
<1> DEFINE count == [u \in {t} |-> T!SpanStats(u).count]
           tokens == [u \in {t} |-> T!SpanStats(u).tokens]
<1>2. count[t] = T!SpanStats(t).count /\ tokens[t] = T!SpanStats(t).tokens
  OBVIOUS
<1>3. T!SpanCount({t}) = Sums(count, {t}) /\ T!Tokens({t}) = Sums(tokens, {t})
  BY SpanCountIs, TokensIs
<1> HIDE DEF count, tokens
<1> QED
  BY <1>1, <1>2, <1>3, SpanStatsInt

Own == T!OfSession(db["traces"], client.session)

(* The first of a session's traces, as many as the answer has room for.    *)
FirstOf(own, shown) ==
    /\ own # {}
    /\ shown \in Seq(own)
    /\ Len(shown) = Min({Cardinality(own), DetailLimit})
    /\ IsInjective(shown)
    /\ shown[1].started = Min({t.started : t \in own})

Counted(shown, spans) == spans = [i \in DOMAIN shown |-> T!SpanStats(shown[i]).count]
Weighed(shown, tokens) == tokens = [i \in DOMAIN shown |-> T!SpanStats(shown[i]).tokens]

(* Without a commit in between, what has been read is of the rows as they  *)
(* are.                                                                    *)
DetailInv ==
    /\ ~client.torn =>
         /\ client.at \in {"traces", "spans", "stats"} =>
               Own # {} /\ client.summary = T!SessionRow(db["traces"], client.session)
         /\ client.at \in {"spans", "stats"} => FirstOf(Own, client.shown)
         /\ client.at = "stats" => Counted(client.shown, client.spans)
    /\ DetailAddsUp

(* The traces of a session are some of the traces.                         *)
LEMMA OwnRows ==
    ASSUME NEW rows, Named(rows), \A r \in rows : IsTrace(r), NEW s
    PROVE  /\ T!OfSession(rows, s) \in SUBSET rows
           /\ Named(T!OfSession(rows, s))
           /\ \A r \in T!OfSession(rows, s) : IsTrace(r)
<1>1. T!OfSession(rows, s) \in SUBSET rows
  BY DEF T!OfSession
<1>2. Named(T!OfSession(rows, s))
  BY <1>1, LessNamed
<1> QED
  BY <1>1, <1>2

\* what the rows are sorted by, and what is shown of the sorted list s
ByStart(own, keys) == keys = [t \in {u.created : u \in own} |-> <<Row(own, t).started, 0>>]
Shows(own, s, shown) == shown = [i \in 1..Len(Page(s, 0, DetailLimit)) |-> Row(own, s[i])]

(* Sorting the rows by their start and cutting the list leaves the first.  *)
LEMMA SortedShown ==
    ASSUME NEW own, Named(own), \A r \in own : IsTrace(r), own # {},
           NEW keys, ByStart(own, keys), NEW p, p.desc = FALSE,
           NEW s \in Sorted(p, keys), NEW shown, Shows(own, s, shown)
    PROVE  FirstOf(own, shown)
<1> DEFINE ids == {u.created : u \in own}
           created == [u \in own |-> u.created]
           page == Page(s, 0, DetailLimit)
<1> HIDE DEF page
<1>1. IsFiniteSet(own) /\ \A r, u \in own : r.created = u.created => r = u
  BY DEF Named
<1>2. DOMAIN keys = ids /\ \A id \in ids : keys[id] = <<Row(own, id).started, 0>>
  BY DEF ByStart
<1>3. \A id \in ids : Row(own, id) \in own /\ Row(own, id).created = id
  BY RowIs
<1>4. \A r \in own : r.created \in ids /\ Row(own, r.created) = r /\ created[r] = r.created
  BY <1>1, <1>3
<1>5. created \in Bijection(own, ids)
  <2>1. created \in [own -> ids]
    OBVIOUS
  <2>2. \A id \in ids : \E r \in own : created[r] = id
    OBVIOUS
  <2>3. \A r, u \in own : created[r] = created[u] => r = u
    BY <1>1
  <2> HIDE DEF created, ids
  <2> QED
    BY <2>1, <2>2, <2>3 DEF Bijection, Injection, Surjection, IsInjective
<1> HIDE DEF created, ids
<1>6. IsFiniteSet(ids) /\ Cardinality(ids) = Cardinality(own)
  <2>1. ExistsBijection(own, ids)
    BY <1>5 DEF ExistsBijection
  <2> QED
    BY <1>1, <2>1, FS_Bijection
<1>7. Keyed(keys)
  <2>1. \A id \in ids : keys[id] \in Key
    BY <1>2, <1>3 DEF IsTrace, Key, OrNull
  <2> QED
    BY <1>2, <1>6, <2>1 DEF Keyed
<1>8. PICK n \in Nat :
              /\ n = Cardinality(DOMAIN keys) /\ s \in [1..n -> DOMAIN keys] /\ Len(s) = n
              /\ s \in Seq(DOMAIN keys)
              /\ \A j, k \in 1..n : s[j] = s[k] => j = k
              /\ \A i \in DOMAIN keys : \E k \in 1..n : s[k] = i
  BY <1>7, SortedRows
<1>9. DetailLimit \in Nat /\ DetailLimit # 0
  BY DashboardAssumption
<1>10. PICK m \in Nat : IsPage(page, DOMAIN keys, s, 0, DetailLimit, m)
  BY <1>8, <1>9, PageRows DEF page
<1>11. Len(page) = m /\ m = Min({Cardinality(own), DetailLimit}) /\ m <= n /\ n = Cardinality(own)
  <2>1. Len(page) = m /\ m = IF DetailLimit <= n THEN DetailLimit ELSE n
    BY <1>8, <1>9, <1>10 DEF IsPage
  <2>2. n = Cardinality(own)
    BY <1>2, <1>6, <1>8
  <2>3. Min({n, DetailLimit}) = IF n <= DetailLimit THEN n ELSE DetailLimit
    BY <1>9, MinOfTwo
  <2> QED
    BY <1>9, <2>1, <2>2, <2>3
<1>12. shown = [i \in 1..m |-> Row(own, s[i])]
  BY <1>11 DEF Shows, page
<1>13. \A i \in 1..m : i \in 1..n /\ s[i] \in ids /\ shown[i] = Row(own, s[i])
                        /\ shown[i] \in own /\ shown[i].created = s[i]
  BY <1>2, <1>3, <1>8, <1>11, <1>12
<1>14. shown \in Seq(own) /\ Len(shown) = m /\ DOMAIN shown = 1..m
  <2>1. shown \in [1..m -> own]
    BY <1>12, <1>13
  <2> QED
    BY <2>1
<1>15. IsInjective(shown)
  <2> SUFFICES ASSUME NEW i \in 1..m, NEW j \in 1..m, shown[i] = shown[j] PROVE i = j
    BY <1>14 DEF IsInjective
  <2>1. s[i] = s[j] /\ i \in 1..n /\ j \in 1..n
    BY <1>13
  <2> QED
    BY <1>8, <2>1
<1>16. n # 0
  BY <1>1, <1>11, FS_EmptySet
<1>17. 1 \in 1..m /\ 1 \in 1..n
  <2>1. m # 0
    BY <1>9, <1>11, <1>16, MinOfTwo
  <2> QED
    BY <1>11, <2>1
<1>18. shown[1].started \in {t.started : t \in own}
  BY <1>13, <1>17
<1>19. ASSUME NEW t \in own PROVE shown[1].started <= t.started
  <2>1. PICK j \in 1..n : s[j] = t.created
    BY <1>2, <1>4, <1>8
  <2>2. Row(own, s[j]) = t
    BY <1>4, <2>1
  <2>3. t.started \in Int /\ shown[1].started \in Int
    BY <1>13, <1>17 DEF IsTrace
  <2>4. CASE j = 1
    BY <1>13, <1>17, <2>2, <2>3, <2>4
  <2>5. CASE 1 < j
    <3>1. ~Ahead(p, keys[s[j]], keys[s[1]])
      BY <1>8, <1>17, <2>5 DEF Sorted
    <3>2. s[j] \in ids /\ s[1] \in ids
      BY <1>2, <1>8, <1>17
    <3>3. keys[s[j]] = <<t.started, 0>> /\ keys[s[1]] = <<shown[1].started, 0>>
      BY <1>2, <1>13, <1>17, <2>2, <3>2
    <3>4. ~Larger(shown[1].started, t.started)
      BY <3>1, <3>3 DEF Ahead, Sooner
    <3>5. None \notin Int
      BY DashboardAssumption
    <3> QED
      BY <2>3, <3>4, <3>5 DEF Larger
  <2> QED
    BY <2>4, <2>5
<1>20. shown[1].started = Min({t.started : t \in own})
  <2> DEFINE N == {t.started : t \in own}
  <2>1. N \in SUBSET Int /\ N # {}
    BY DEF IsTrace
  <2>2. IsFiniteSet(N)
    <3> DEFINE f == [t \in own |-> t.started]
    <3>1. f = [t \in own |-> f[t]] /\ {f[t] : t \in own} = N
      OBVIOUS
    <3> HIDE DEF f, N
    <3> QED
      BY <1>1, <3>1, ImageFinite
  <2>3. \A x \in N : shown[1].started <= x
    BY <1>19
  <2>4. shown[1].started \in N
    BY <1>18
  <2> HIDE DEF N
  <2>5. Min(N) \in N /\ \A x \in N : Min(N) <= x
    BY <2>1, <2>2, MinOf
  <2>6. \A x, y \in N : x <= y /\ y <= x => x = y
    BY <2>1
  <2>7. shown[1].started = Min(N)
    BY <2>3, <2>4, <2>5, <2>6
  <2> QED
    BY <2>7 DEF N
<1> QED
  BY <1>11, <1>14, <1>15, <1>20 DEF FirstOf

AddsUp(sum, shown, spans, tokens) ==
    /\ Len(shown) = Min({sum.count, DetailLimit})
    /\ Len(shown) = sum.count =>
          /\ sum.spans = Total(spans)
          /\ sum.tokens = Total(tokens)
          /\ sum.error = (\E t \in RowsIn(shown) : t.status = "ERROR")
          /\ sum.latency = T!TotalLatency(RowsIn(shown))
          /\ sum.users = T!FirstUsers(RowsIn(shown))
    /\ sum.first = shown[1].started

(* What was read statement by statement adds up to what the summary says.  *)
LEMMA DetailSums ==
    ASSUME NEW rows, Named(rows), \A r \in rows : IsTrace(r), NEW s,
           NEW own, own = T!OfSession(rows, s),
           NEW shown, FirstOf(own, shown), NEW sum, sum = T!SessionRow(rows, s),
           NEW spans, Counted(shown, spans), NEW tokens, Weighed(shown, tokens)
    PROVE  AddsUp(sum, shown, spans, tokens)
<1>1. /\ sum.count = Cardinality(own) /\ sum.first = Min({t.started : t \in own})
      /\ sum.latency = T!TotalLatency(own) /\ sum.error = T!HasError(own)
      /\ sum.users = T!FirstUsers(own)
      /\ sum.spans = T!SpanCount(own) /\ sum.tokens = T!Tokens(own)
  BY SameCount, SameEnds DEF T!SessionRow
<1>2. IsFiniteSet(own) /\ \A t \in own : IsTrace(t)
  BY OwnRows DEF Named
<1>3. /\ shown \in Seq(own) /\ IsInjective(shown)
      /\ Len(shown) = Min({sum.count, DetailLimit}) /\ sum.first = shown[1].started
  BY <1>1 DEF FirstOf
<1>4. ASSUME Len(shown) = sum.count
      PROVE  /\ sum.spans = Total(spans)
             /\ sum.tokens = Total(tokens)
             /\ RowsIn(shown) = own
  <2>1. PICK n \in Nat : n = Len(shown) /\ DOMAIN shown = 1..n
    BY <1>3, LenProperties
  <2>2. shown \in [1..n -> own] /\ \A i, j \in 1..n : shown[i] = shown[j] => i = j
    <3>1. shown \in Seq(own) /\ IsInjective(shown)
      BY <1>3
    <3>2. shown \in [1..n -> own]
      BY <2>1, <3>1, LenProperties
    <3>3. \A i, j \in 1..n : shown[i] = shown[j] => i = j
      BY <2>1, <3>1 DEF IsInjective
    <3> QED
      BY <3>2, <3>3
  <2>3. shown \in Injection(1..n, own)
    BY <2>2 DEF Injection, IsInjective
  <2>4. Cardinality(1..n) = n /\ n = Cardinality(own) /\ IsFiniteSet(1..n)
    BY <1>1, <1>4, <2>1, FS_Interval
  <2>5. shown \in Surjection(1..n, own)
    BY <1>2, <2>3, <2>4, FS_Injection
  <2>6. shown \in Bijection(1..n, own)
    BY <2>3, <2>5 DEF Bijection
  <2>7. RowsIn(shown) = own
    BY <2>1, <2>2, <2>5 DEF Surjection, RowsIn
  <2> DEFINE count == [t \in own |-> T!SpanStats(t).count]
             weight == [t \in own |-> T!SpanStats(t).tokens]
  <2>8. /\ \A t \in own : count[t] \in Int /\ weight[t] \in Int
        /\ \A i \in 1..n : spans[i] = count[shown[i]] /\ tokens[i] = weight[shown[i]]
        /\ DOMAIN spans = 1..n /\ DOMAIN tokens = 1..n
    <3>1. \A t \in own : T!SpanStats(t).count \in Int /\ T!SpanStats(t).tokens \in Int
      BY <1>2, SpanStatsInt
    <3> QED
      BY <2>1, <2>2, <3>1 DEF Counted, Weighed
  <2>9. sum.spans = Sums(count, own) /\ sum.tokens = Sums(weight, own)
    BY <1>1, SpanCountIs, TokensIs
  <2> HIDE DEF count, weight
  <2>10. Sums(spans, 1..n) = Sums(count, own)
    BY <2>4, <2>6, <2>8, SumsMatch
  <2>11. Sums(tokens, 1..n) = Sums(weight, own)
    BY <2>4, <2>6, <2>8, SumsMatch
  <2>12. Total(spans) = Sums(spans, 1..n) /\ Total(tokens) = Sums(tokens, 1..n)
    BY <2>8, TotalIs
  <2> QED
    BY <2>7, <2>9, <2>10, <2>11, <2>12
<1> QED
  BY <1>1, <1>3, <1>4 DEF T!HasError, AddsUp

(* A commit tears the answer about a session, and changes nothing else of  *)
(* it.                                                                     *)
LEMMA DetailChange ==
    ASSUME PagesInv, DetailInv, Tabled(db'), NEW t, NEW rows, Change(t, rows)
    PROVE  DetailInv'
<1>1. Listing \/ client' = client \/ (Opened /\ client' = [client EXCEPT !.torn = TRUE])
  BY ChangeInv
<1>2. CASE Listing
  <2>1. client'.at \notin {"traces", "spans", "stats", "shown"}
    <3>1. "at" \in DOMAIN client
      BY <1>2 DEF PagesInv, ListShape, Listing, ListFields
    <3>2. client' = [client EXCEPT
                    !.moved = client'.moved, !.entered = client'.entered, !.left = client'.left,
                    !.torn = client'.torn, !.tied = client'.tied]
      BY <1>2 DEF Change, Track, Listing, PagesInv, ListShape, ListFields
    <3>3. client'.at = client.at
      BY <3>1, <3>2
    <3> QED
      BY <1>2, <3>3 DEF Listing
  <2> QED
    BY <2>1 DEF DetailInv, DetailAddsUp
<1>3. CASE Opened /\ client' = [client EXCEPT !.torn = TRUE]
  <2>1. client'.torn = TRUE
    BY <1>3 DEF PagesInv, DetailShape, DetailFields
  <2> QED
    BY <2>1 DEF DetailInv, DetailAddsUp
<1>4. CASE ~Listing /\ ~(Opened /\ client' = [client EXCEPT !.torn = TRUE]) /\ client' = client
  <2>1. client = Away
    <3>1. client.at \in {"traces", "spans", "stats"} => client' = [client EXCEPT !.torn = TRUE]
      BY Zenon DEF Change, Track
    <3> QED
      BY <1>4, <3>1 DEF Change, Reading, Listing, Opened
  <2>2. client'.at = "idle"
    BY <1>4, <2>1 DEF Away
  <2> QED
    BY <2>2 DEF DetailInv, DetailAddsUp
<1> QED
  BY <1>1, <1>2, <1>3, <1>4

(* Each statement adds its part to the answer.                             *)
LEMMA DetailRead ==
    ASSUME PagesInv, DetailInv, Reads, db' = db
    PROVE  DetailInv'
<1> DEFINE traces == db["traces"]
           s == client.session
<1>1. Named(traces) /\ \A r \in traces : IsTrace(r)
  BY DEF PagesInv, Tabled, Tables
<1>2. ASSUME client'.at \notin {"traces", "spans", "stats", "shown"} PROVE DetailInv'
  BY <1>2 DEF DetailInv, DetailAddsUp
<1>3. ASSUME NEW p \in Listings, Open(p) PROVE DetailInv'
  BY <1>2, <1>3 DEF Open
<1>4. ASSUME CountRows PROVE DetailInv'
  <2>1. client'.at = "page"
    BY <1>4 DEF CountRows, PagesInv, ListShape, ListFields
  <2> QED
    BY <1>2, <2>1
<1>5. ASSUME FetchPage PROVE DetailInv'
  <2>1. "at" \in DOMAIN client
    BY <1>5 DEF FetchPage, PagesInv, ListShape, ListFields
  <2>2. PICK seq : client' = [client EXCEPT
                     !.got = @ \o Page(seq, client.offset, Limit),
                     !.offset = @ + Limit,
                     !.at = IF client.offset + Limit < client.total THEN "count" ELSE "listed"]
    BY <1>5, Zenon DEF FetchPage
  <2>3. client'.at \in {"count", "listed"}
    BY <2>1, <2>2
  <2> QED
    BY <1>2, <2>3
<1>6. ASSUME NEW u \in Sessions, ReadSummary(u) PROVE DetailInv'
  <2>1. CASE T!SessionSummary(traces, u) = None
    BY <1>2, <1>6, <2>1 DEF ReadSummary
  <2>2. CASE T!SessionSummary(traces, u) # None
    <3>1. T!OfSession(traces, u) # {} /\ T!SessionSummary(traces, u) = T!SessionRow(traces, u)
      BY <2>2 DEF T!SessionSummary
    <3>2. client'.at = "traces" /\ client'.session = u /\ client'.summary = T!SessionSummary(traces, u)
      BY <1>6, <2>2 DEF ReadSummary
    <3>3. Own' # {} /\ client'.summary = T!SessionRow(db'["traces"], client'.session)
      BY <3>1, <3>2 DEF Own
    <3> QED
      BY <3>2, <3>3 DEF DetailInv, DetailAddsUp
  <2> QED
    BY <2>1, <2>2
<1>7. ASSUME ReadTraces PROVE DetailInv'
  <2> DEFINE keys == [t \in {u.created : u \in Own} |-> <<Row(Own, t).started, 0>>]
             p == [desc |-> FALSE]
  <2>1. client.at = "traces"
    BY <1>7, Zenon DEF ReadTraces
  <2>2. PICK seq \in Sorted(p, keys) :
          client' = [client EXCEPT
                       !.at = "spans",
                       !.shown = [i \in 1..Len(Page(seq, 0, DetailLimit)) |-> Row(Own, seq[i])]]
    BY <1>7, Zenon DEF ReadTraces, Own
  <2>3. DOMAIN client = DetailFields
    BY <2>1 DEF PagesInv, DetailShape, Opened
  <2> DEFINE shown == [i \in 1..Len(Page(seq, 0, DetailLimit)) |-> Row(Own, seq[i])]
  <2>4. ByStart(Own, keys) /\ p.desc = FALSE /\ Shows(Own, seq, shown)
    BY DEF ByStart, Shows
  <2> HIDE DEF keys, p, shown
  <2>5. client'.at = "spans" /\ client'.session = client.session /\ client'.summary = client.summary
        /\ client'.torn = client.torn /\ client'.shown = shown
    BY <2>2, <2>3 DEF DetailFields, shown
  <2>6. ASSUME ~client.torn PROVE FirstOf(Own, shown)
    <3>1. Own # {}
      BY <2>1, <2>6 DEF DetailInv
    <3>2. Named(Own) /\ \A r \in Own : IsTrace(r)
      BY <1>1, OwnRows DEF Own
    <3> QED
      BY <2>2, <2>4, <3>1, <3>2, SortedShown
  <2>7. Own' = Own
    BY <2>5 DEF Own
  <2> QED
    BY <2>1, <2>5, <2>6, <2>7 DEF DetailInv, DetailAddsUp
<1>8. ASSUME FirstOf(Own, client.shown), NEW i \in DOMAIN client.shown
      PROVE  /\ T!SpanCount(StillThere(client.shown[i])) = T!SpanStats(client.shown[i]).count
             /\ T!Tokens(StillThere(client.shown[i])) = T!SpanStats(client.shown[i]).tokens
  <2>1. client.shown[i] \in Own
    <3>1. client.shown \in Seq(Own)
      BY <1>8 DEF FirstOf
    <3> QED
      BY <1>8, <3>1, LenProperties, ElementOfSeq
  <2>2. client.shown[i] \in traces
    BY <2>1 DEF Own, T!OfSession
  <2>3. StillThere(client.shown[i]) = {client.shown[i]}
    BY <1>1, <2>2 DEF StillThere, Named
  <2> QED
    BY <1>1, <2>2, <2>3, OneRow
<1>9. ASSUME ReadSpans PROVE DetailInv'
  <2>1. client.at = "spans" /\ DOMAIN client = DetailFields
    BY <1>9 DEF ReadSpans, PagesInv, DetailShape, Opened
  <2> DEFINE spans == [i \in DOMAIN client.shown |-> T!SpanCount(StillThere(client.shown[i]))]
  <2>2. client' = [client EXCEPT !.at = "stats", !.spans = spans]
    BY <1>9 DEF ReadSpans
  <2>3. FirstOf(Own, client.shown) => Counted(client.shown, spans)
    BY <1>8 DEF Counted
  <2> HIDE DEF spans
  <2>4. client'.at = "stats" /\ client'.session = client.session /\ client'.summary = client.summary
        /\ client'.torn = client.torn /\ client'.shown = client.shown /\ client'.spans = spans
    BY <2>1, <2>2 DEF DetailFields
  <2>5. Own' = Own
    BY <2>4 DEF Own
  <2> QED
    BY <2>1, <2>3, <2>4, <2>5 DEF DetailInv, DetailAddsUp
<1>10. ASSUME ReadStats PROVE DetailInv'
  <2>1. client.at = "stats" /\ DOMAIN client = DetailFields
    BY <1>10 DEF ReadStats, PagesInv, DetailShape, Opened
  <2> DEFINE tokens == [i \in DOMAIN client.shown |-> T!Tokens(StillThere(client.shown[i]))]
  <2>2. client' = [client EXCEPT !.at = "shown", !.tokens = tokens]
    BY <1>10 DEF ReadStats
  <2>3. FirstOf(Own, client.shown) => Weighed(client.shown, tokens)
    BY <1>8 DEF Weighed
  <2> HIDE DEF tokens
  <2>4. client'.at = "shown" /\ client'.session = client.session /\ client'.summary = client.summary
        /\ client'.torn = client.torn /\ client'.shown = client.shown /\ client'.spans = client.spans
        /\ client'.tokens = tokens
    BY <2>1, <2>2 DEF DetailFields
  <2>5. ASSUME ~client.torn PROVE DetailAddsUp'
    <3>1. /\ FirstOf(Own, client.shown) /\ client.summary = T!SessionRow(traces, s)
          /\ Counted(client.shown, client.spans) /\ Weighed(client.shown, tokens)
          /\ Own = T!OfSession(traces, s)
      BY <2>1, <2>3, <2>5 DEF DetailInv, Own
    <3>2. Shown' = RowsIn(client.shown)
      BY <2>4 DEF Shown, RowsIn
    <3> HIDE DEF traces, s
    <3>3. AddsUp(client.summary, client.shown, client.spans, tokens)
      BY <1>1, <3>1, DetailSums
    <3> QED
      BY <2>4, <3>2, <3>3 DEF DetailAddsUp, AddsUp
  <2>6. client.torn => DetailAddsUp'
    BY <2>4 DEF DetailAddsUp
  <2> QED
    BY <2>4, <2>5, <2>6 DEF DetailInv
<1> QED
  BY <1>3, <1>4, <1>5, <1>6, <1>7, <1>9, <1>10 DEF Reads

(* DetailInv is inductive, given PagesInv.                                 *)
LEMMA DetailStep == PagesInv /\ DetailInv /\ [DashboardNext]_dashboardVars => DetailInv'
<1> SUFFICES ASSUME PagesInv, DetailInv, [DashboardNext]_dashboardVars PROVE DetailInv'
  OBVIOUS
<1>1. /\ Tabled(db')
      /\ (Reads /\ db' = db) \/ UNCHANGED dashboardVars \/ \E t, rows : Change(t, rows)
  BY TabledStep DEF PagesInv
<1>2. ASSUME UNCHANGED dashboardVars PROVE DetailInv'
  BY <1>2 DEF dashboardVars, DetailInv, DetailAddsUp, Own, Shown
<1> QED
  BY <1>1, <1>2, DetailChange, DetailRead

(* What is answered about a session adds up, however many traces it has and*)
(* whatever is committed before and after.                                 *)
THEOREM DetailCorrect == DashboardSpec => []DetailAddsUp
<1>1. DashboardInit => DetailInv
  BY DEF DashboardInit, Away, DetailInv, DetailAddsUp
<1>2. DetailInv => DetailAddsUp
  BY DEF DetailInv
<1> QED
  BY <1>1, <1>2, PagesInvCorrect, DetailStep, PTL DEF DashboardSpec

-----------------------------------------------------------------------------
(* Figures that several queries make of the same rows                      *)

\* a line for each value of the key
IsLines(lines, line, K) ==
    lines = {line[k] : k \in K} /\ \A j, k \in K : line[j] = line[k] => j = k

IsKey(key, rows, K) == K = {key[r] : r \in rows}

(* A figure that is given line by line, over all lines.                    *)
LEMMA LinesSum ==
    ASSUME NEW rows, IsFiniteSet(rows), NEW f, \A r \in rows : f[r] \in Int,
           NEW key, NEW K, IsKey(key, rows, K), NEW lines, NEW line, IsLines(lines, line, K),
           NEW h, \A k \in K : h[line[k]] = Sums(f, Part(rows, key, k))
    PROVE  Sums(h, lines) = Sums(f, rows)
<1> DEFINE b == [k \in K |-> line[k]]
           g == [k \in K |-> h[line[k]]]
<1>1. IsFiniteSet(K)
  <2> DEFINE c == [r \in rows |-> key[r]]
  <2>1. c = [r \in rows |-> c[r]] /\ {c[r] : r \in rows} = K
    BY DEF IsKey
  <2> HIDE DEF c
  <2> QED
    BY <2>1, ImageFinite
<1>2. \A k \in K : b[k] = line[k] /\ g[k] = h[b[k]] /\ g[k] = Sums(f, Part(rows, key, k))
  OBVIOUS
<1>3. b \in Bijection(K, lines)
  <2>1. b \in [K -> lines] /\ \A j, k \in K : b[j] = b[k] => j = k
    BY DEF IsLines
  <2>2. \A x \in lines : \E k \in K : b[k] = x
    BY DEF IsLines
  <2> HIDE DEF b
  <2> QED
    BY <2>1, <2>2 DEF Bijection, Injection, Surjection, IsInjective
<1> HIDE DEF b, g
<1>4. \A k \in K : Part(rows, key, k) \in SUBSET rows /\ Sums(f, Part(rows, key, k)) \in Int
  <2> TAKE k \in K
  <2>1. Part(rows, key, k) \in SUBSET rows
    BY DEF Part
  <2>2. IsFiniteSet(Part(rows, key, k)) /\ \A r \in Part(rows, key, k) : f[r] \in Int
    BY <2>1, FS_Subset
  <2> QED
    BY <2>1, <2>2, SumsInt
<1>5. \A x \in lines : h[x] \in Int
  BY <1>2, <1>4 DEF IsLines
<1>6. Sums(g, K) = Sums(h, lines)
  BY <1>1, <1>2, <1>3, <1>5, SumsMatch
<1>7. \A r \in rows : key[r] \in K
  BY DEF IsKey
<1>8. Sums(g, K) = Sums(f, rows)
  BY <1>1, <1>2, <1>7, SumsParts
<1> QED
  BY <1>6, <1>8

(* The rows that are counted line by line are all rows.                    *)
LEMMA LinesCount ==
    ASSUME NEW rows, IsFiniteSet(rows),
           NEW key, NEW K, IsKey(key, rows, K), NEW lines, NEW line, IsLines(lines, line, K),
           NEW h, \A k \in K : h[line[k]] = Cardinality(Part(rows, key, k))
    PROVE  Sums(h, lines) = Cardinality(rows)
<1> DEFINE f == [r \in rows |-> 1]
<1>1. \A r \in rows : f[r] = 1
  OBVIOUS
<1> HIDE DEF f
<1>2. ASSUME NEW k \in K PROVE Sums(f, Part(rows, key, k)) = Cardinality(Part(rows, key, k))
  <2>1. Part(rows, key, k) \in SUBSET rows
    BY DEF Part
  <2>2. IsFiniteSet(Part(rows, key, k)) /\ \A r \in Part(rows, key, k) : f[r] = 1
    BY <1>1, <2>1, FS_Subset
  <2> QED
    BY <2>2, SumsOnes
<1>3. Sums(f, rows) = Cardinality(rows)
  BY <1>1, SumsOnes
<1> QED
  BY <1>1, <1>2, <1>3, LinesSum

(* The counts of several lines, added up.                                  *)
LEMMA CountOfIs == ASSUME NEW lines PROVE CountOf(lines) = Sums([x \in lines |-> x.count], lines)
<1> DEFINE f == [x \in lines |-> x.count]
           A(it) == [s \in SUBSET lines |-> IF s = {} THEN 0
                       ELSE (CHOOSE x \in s : TRUE).count + it[s \ {CHOOSE x \in s : TRUE}]]
           B(it) == [s \in SUBSET lines |-> IF s = {} THEN 0
                       ELSE f[CHOOSE x \in s : TRUE] + it[s \ {CHOOSE x \in s : TRUE}]]
<1>1. \A it : A(it) = B(it)
  OBVIOUS
<1>2. CountOf(lines) = (CHOOSE it : it = A(it))[lines]
  BY DEF CountOf, MapThenSumSet, MapThenFoldSet
<1>3. Sums(f, lines) = (CHOOSE it : it = B(it))[lines]
  BY DEF Sums, MapThenSumSet, MapThenFoldSet
<1> HIDE DEF A, B, f
<1>4. (CHOOSE it : it = A(it)) = (CHOOSE it : it = B(it))
  BY <1>1, Zenon
<1> QED
  BY <1>2, <1>3, <1>4 DEF f

IsTraces(traces) == Named(traces) /\ \A t \in traces : IsTrace(t)

\* the traces of a window
Within(traces, w) == {t \in traces : T!Started(t.started, w)}

(* The traces that the analytics count, period by period, are those of the *)
(* window.                                                                 *)
LEMMA VolumeAgrees ==
    ASSUME NEW traces, IsTraces(traces), NEW w
    PROVE  CountOf(T!TraceAnalytics(traces, w, Period)) = Cardinality(Within(traces, w))
<1> DEFINE rows == Within(traces, w)
           key == [t \in rows |-> t.started \div Period]
           K == {t.started \div Period : t \in rows}
           Here(k) == {t \in rows : t.started \div Period = k}
           Line(k) == [bucket |-> k, count |-> T!Cardinality(Here(k)),
                       errors |-> T!Cardinality({t \in Here(k) : t.status = "ERROR"}),
                       latency |-> T!TotalLatency(Here(k))]
           line == [k \in K |-> Line(k)]
           lines == T!TraceAnalytics(traces, w, Period)
           h == [x \in lines |-> x.count]
<1>1. IsFiniteSet(rows)
  BY FS_Subset DEF IsTraces, Named, Within
<1>2. lines = {Line(k) : k \in K}
  BY DEF T!TraceAnalytics, Within
<1>3. IsKey(key, rows, K)
  BY DEF IsKey
<1>4. \A k \in K : Part(rows, key, k) = Here(k)
  BY DEF Part
<1> HIDE DEF rows, key, K, Here, lines
<1>5. \A k \in K : line[k] \in lines /\ line[k].bucket = k /\ line[k].count = Cardinality(Here(k))
  BY <1>2, SameCount
<1>6. lines = {line[k] : k \in K}
  BY <1>2
<1> HIDE DEF line
<1>7. IsLines(lines, line, K)
  BY <1>5, <1>6 DEF IsLines
<1>8. \A k \in K : h[line[k]] = Cardinality(Part(rows, key, k))
  BY <1>4, <1>5
<1> HIDE DEF h
<1>9. Sums(h, lines) = Cardinality(rows)
  BY <1>1, <1>3, <1>7, <1>8, LinesCount
<1> QED
  BY <1>9, CountOfIs DEF h, lines, rows

(* The users of the list have the traces that have a user.                 *)
LEMMA UsersAgree ==
    ASSUME NEW traces, IsTraces(traces)
    PROVE  CountOf(T!TraceUsers(traces)) = Cardinality({t \in traces : t.user # None})
<1> DEFINE rows == {t \in traces : t.user # None}
           key == [t \in rows |-> t.user]
           K == {t.user : t \in traces} \ {None}
           Mine(u) == {t \in traces : t.user = u}
           Line(u) ==
               [user |-> u, count |-> T!Cardinality(Mine(u)), first |-> T!Min({t.started : t \in Mine(u)}),
                last |-> T!Max({t.started : t \in Mine(u)}),
                errors |-> T!Cardinality({t \in Mine(u) : t.status = "ERROR"})]
           line == [u \in K |-> Line(u)]
           lines == T!TraceUsers(traces)
           h == [x \in lines |-> x.count]
<1>1. IsFiniteSet(rows)
  BY FS_Subset DEF IsTraces, Named
<1>2. lines = {Line(u) : u \in K}
  BY DEF T!TraceUsers
<1>3. IsKey(key, rows, K)
  BY DEF IsKey
<1>4. \A u \in K : Part(rows, key, u) = Mine(u)
  BY DEF Part
<1> HIDE DEF rows, key, K, Mine, lines
<1>5. \A u \in K : line[u] \in lines /\ line[u].user = u /\ line[u].count = Cardinality(Mine(u))
  BY <1>2, SameCount
<1>6. lines = {line[u] : u \in K}
  BY <1>2
<1> HIDE DEF line
<1>7. IsLines(lines, line, K)
  BY <1>5, <1>6 DEF IsLines
<1>8. \A u \in K : h[line[u]] = Cardinality(Part(rows, key, u))
  BY <1>4, <1>5
<1> HIDE DEF h
<1>9. Sums(h, lines) = Cardinality(rows)
  BY <1>1, <1>3, <1>7, <1>8, LinesCount
<1> QED
  BY <1>9, CountOfIs DEF h, lines, rows

(* Spans of all times are those of the traces.                             *)
LEMMA SpansAre ==
    ASSUME NEW traces, IsTraces(traces)
    PROVE  /\ IsFiniteSet(T!SpansOf(traces, Always))
           /\ \A x \in T!SpansOf(traces, Always) :
                 \E t \in traces : \E s \in t.spans : x = [of |-> t.created, span |-> s]
           /\ \A t \in traces : \A s \in t.spans :
                 [of |-> t.created, span |-> s] \in T!SpansOf(traces, Always)
<1> DEFINE Its(t) == {[of |-> t.created, span |-> s] : s \in t.spans}
           family == {Its(t) : t \in traces}
<1>1. \A t \in traces : {x \in t.spans : T!Started(x.started, Always)} = t.spans
  BY DEF T!Started, Always
<1>2. T!SpansOf(traces, Always) = UNION family
  <2>1. \A t \in traces :
           {[of |-> t.created, span |-> s] : s \in {x \in t.spans : T!Started(x.started, Always)}} = Its(t)
    BY <1>1
  <2> QED
    BY <2>1 DEF T!SpansOf
<1>3. \A t \in traces : IsFiniteSet(Its(t))
  <2> TAKE t \in traces
  <2> DEFINE f == [s \in t.spans |-> [of |-> t.created, span |-> s]]
  <2>1. f = [s \in t.spans |-> f[s]] /\ {f[s] : s \in t.spans} = Its(t)
    OBVIOUS
  <2>2. IsFiniteSet(t.spans)
    BY DEF IsTraces, IsTrace
  <2> HIDE DEF f, Its
  <2> QED
    BY <2>1, <2>2, ImageFinite
<1>4. IsFiniteSet(family)
  <2> DEFINE f == [t \in traces |-> Its(t)]
  <2>1. f = [t \in traces |-> f[t]] /\ {f[t] : t \in traces} = family
    OBVIOUS
  <2>2. IsFiniteSet(traces)
    BY DEF IsTraces, Named
  <2> HIDE DEF f, family
  <2> QED
    BY <2>1, <2>2, ImageFinite
<1>5. IsFiniteSet(UNION family)
  BY <1>3, <1>4, FS_UNION
<1> QED
  BY <1>2, <1>5

(* The calls of the models are the spans that name one.                    *)
CallsOf(lines) == MapThenSumSet(LAMBDA m : m.calls, lines)

(* Their calls, added up.                                                  *)
LEMMA CallsOfIs == ASSUME NEW lines PROVE CallsOf(lines) = Sums([x \in lines |-> x.calls], lines)
<1> DEFINE f == [x \in lines |-> x.calls]
           A(it) == [s \in SUBSET lines |-> IF s = {} THEN 0
                       ELSE (CHOOSE x \in s : TRUE).calls + it[s \ {CHOOSE x \in s : TRUE}]]
           B(it) == [s \in SUBSET lines |-> IF s = {} THEN 0
                       ELSE f[CHOOSE x \in s : TRUE] + it[s \ {CHOOSE x \in s : TRUE}]]
<1>1. \A it : A(it) = B(it)
  OBVIOUS
<1>2. CallsOf(lines) = (CHOOSE it : it = A(it))[lines]
  BY DEF CallsOf, MapThenSumSet, MapThenFoldSet
<1>3. Sums(f, lines) = (CHOOSE it : it = B(it))[lines]
  BY DEF Sums, MapThenSumSet, MapThenFoldSet
<1> HIDE DEF A, B, f
<1>4. (CHOOSE it : it = A(it)) = (CHOOSE it : it = B(it))
  BY <1>1, Zenon
<1> QED
  BY <1>2, <1>3, <1>4 DEF f

SpanSum(xs) == MapThenSumSet(LAMBDA x : x.span.tokens, xs)

(* The tokens of several spans, added up.                                  *)
LEMMA SpanSumIs == ASSUME NEW xs PROVE SpanSum(xs) = Sums([x \in xs |-> x.span.tokens], xs)
<1> DEFINE f == [x \in xs |-> x.span.tokens]
           A(it) == [s \in SUBSET xs |-> IF s = {} THEN 0
                       ELSE (CHOOSE x \in s : TRUE).span.tokens + it[s \ {CHOOSE x \in s : TRUE}]]
           B(it) == [s \in SUBSET xs |-> IF s = {} THEN 0
                       ELSE f[CHOOSE x \in s : TRUE] + it[s \ {CHOOSE x \in s : TRUE}]]
<1>1. \A it : A(it) = B(it)
  OBVIOUS
<1>2. SpanSum(xs) = (CHOOSE it : it = A(it))[xs]
  BY DEF SpanSum, MapThenSumSet, MapThenFoldSet
<1>3. Sums(f, xs) = (CHOOSE it : it = B(it))[xs]
  BY DEF Sums, MapThenSumSet, MapThenFoldSet
<1> HIDE DEF A, B, f
<1>4. (CHOOSE it : it = A(it)) = (CHOOSE it : it = B(it))
  BY <1>1, Zenon
<1> QED
  BY <1>2, <1>3, <1>4 DEF f

\* the lines of the models and of the tokens, with sums of this module
ModelLine(xs, m) ==
    LET mine == {x \in xs : x.span.model = m}
    IN  [model |-> m, calls |-> Cardinality(mine), tokens |-> SpanSum(mine)]
TokenLine(xs, k) ==
    [bucket |-> k, tokens |-> SpanSum({x \in xs : x.span.started \div Period = k})]

Modelled(traces) == {x \in T!SpansOf(traces, Always) : x.span.model # None}

(* The lines of the models.                                                *)
LEMMA ModelLines ==
    ASSUME NEW traces
    PROVE  T!TopModels(traces, Always)
             = {ModelLine(Modelled(traces), m) : m \in {x.span.model : x \in Modelled(traces)}}
  BY SameCount
  DEF T!TopModels, Modelled, ModelLine, SpanSum, T!MapThenSumSet, T!MapThenFoldSet, MapThenSumSet,
      MapThenFoldSet

(* The lines of the periods.                                               *)
LEMMA TokenLines ==
    ASSUME NEW traces, NEW w, NEW xs, xs = T!SpansOf(traces, w)
    PROVE  T!TokenAnalytics(traces, w, Period)
             = {TokenLine(xs, k) : k \in {x.span.started \div Period : x \in xs}}
  BY DEF T!TokenAnalytics, TokenLine, SpanSum, T!MapThenSumSet, T!MapThenFoldSet, MapThenSumSet, MapThenFoldSet

(* The calls of the models are the spans that have a model.                *)
LEMMA ModelsAgree ==
    ASSUME NEW traces, IsTraces(traces)
    PROVE  CallsOf(T!TopModels(traces, Always))
             = Cardinality({x \in T!SpansOf(traces, Always) : x.span.model # None})
<1> DEFINE xs == Modelled(traces)
           key == [x \in xs |-> x.span.model]
           K == {x.span.model : x \in xs}
           line == [m \in K |-> ModelLine(xs, m)]
           lines == T!TopModels(traces, Always)
           h == [x \in lines |-> x.calls]
<1>1. IsFiniteSet(xs)
  <2>1. IsFiniteSet(T!SpansOf(traces, Always)) /\ xs \in SUBSET T!SpansOf(traces, Always)
    BY SpansAre DEF Modelled
  <2> HIDE DEF xs
  <2> QED
    BY <2>1, FS_Subset
<1>2. lines = {ModelLine(xs, m) : m \in K}
  BY ModelLines
<1>3. IsKey(key, xs, K)
  BY DEF IsKey
<1>4. \A m \in K : ModelLine(xs, m).model = m /\ ModelLine(xs, m).calls = Cardinality(Part(xs, key, m))
  BY DEF Part, ModelLine
<1> HIDE DEF xs, key, K, lines
<1>5. \A m \in K : line[m] \in lines /\ line[m].model = m /\ line[m].calls = Cardinality(Part(xs, key, m))
  BY <1>2, <1>4
<1>6. lines = {line[m] : m \in K}
  BY <1>2
<1> HIDE DEF line
<1>7. IsLines(lines, line, K)
  BY <1>5, <1>6 DEF IsLines
<1>8. \A m \in K : h[line[m]] = Cardinality(Part(xs, key, m))
  BY <1>5
<1> HIDE DEF h
<1>9. Sums(h, lines) = Cardinality(xs)
  BY <1>1, <1>3, <1>7, <1>8, LinesCount
<1> QED
  BY <1>9, CallsOfIs DEF h, lines, xs, Modelled

(* The tokens of several lines, added up.                                  *)
LEMMA TokensOfIs == ASSUME NEW lines PROVE TokensOf(lines) = Sums([x \in lines |-> x.tokens], lines)
<1> DEFINE f == [x \in lines |-> x.tokens]
           A(it) == [s \in SUBSET lines |-> IF s = {} THEN 0
                       ELSE (CHOOSE x \in s : TRUE).tokens + it[s \ {CHOOSE x \in s : TRUE}]]
           B(it) == [s \in SUBSET lines |-> IF s = {} THEN 0
                       ELSE f[CHOOSE x \in s : TRUE] + it[s \ {CHOOSE x \in s : TRUE}]]
<1>1. \A it : A(it) = B(it)
  OBVIOUS
<1>2. TokensOf(lines) = (CHOOSE it : it = A(it))[lines]
  BY DEF TokensOf, MapThenSumSet, MapThenFoldSet
<1>3. Sums(f, lines) = (CHOOSE it : it = B(it))[lines]
  BY DEF Sums, MapThenSumSet, MapThenFoldSet
<1> HIDE DEF A, B, f
<1>4. (CHOOSE it : it = A(it)) = (CHOOSE it : it = B(it))
  BY <1>1, Zenon
<1> QED
  BY <1>2, <1>3, <1>4 DEF f

(* Tokens by the time of the span are the tokens of the traces.            *)
LEMMA TokensAgree ==
    ASSUME NEW traces, IsTraces(traces)
    PROVE  TokensOf(T!TokenAnalytics(traces, Always, Period)) = T!Tokens(traces)
<1> DEFINE xs == T!SpansOf(traces, Always)
           f == [x \in xs |-> x.span.tokens]
           key == [x \in xs |-> x.span.started \div Period]
           K == {x.span.started \div Period : x \in xs}
           line == [k \in K |-> TokenLine(xs, k)]
           lines == T!TokenAnalytics(traces, Always, Period)
           h == [x \in lines |-> x.tokens]
           owner == [x \in xs |-> Row(traces, x.of)]
           each == [t \in traces |-> T!SpanStats(t).tokens]
           One(t, s) == [of |-> t.created, span |-> s]
<1>1. /\ IsFiniteSet(xs)
      /\ \A x \in xs : \E t \in traces : \E s \in t.spans : x = One(t, s)
      /\ \A t \in traces : \A s \in t.spans : One(t, s) \in xs
  BY SpansAre
<1>2. lines = {TokenLine(xs, k) : k \in K}
  BY TokenLines
<1>3. IsKey(key, xs, K)
  BY DEF IsKey
<1>4. \A k \in K : TokenLine(xs, k).bucket = k /\ TokenLine(xs, k).tokens = SpanSum(Part(xs, key, k))
  BY DEF Part, TokenLine
<1>5. \A x \in xs : f[x] \in Int
  <2>1. \A t \in traces : \A s \in t.spans : s.tokens \in Int
    BY DEF IsTraces, IsTrace
  <2> HIDE DEF xs
  <2> QED
    BY <1>1, <2>1
<1>6. \A some \in SUBSET xs : SpanSum(some) = Sums(f, some)
  <2> TAKE some \in SUBSET xs
  <2> DEFINE g == [x \in some |-> x.span.tokens]
             id == [x \in some |-> x]
  <2>1. IsFiniteSet(some)
    BY <1>1, FS_Subset
  <2>2. id \in Bijection(some, some)
    BY DEF Bijection, Injection, Surjection, IsInjective
  <2>3. \A x \in some : g[x] = f[id[x]] /\ f[x] \in Int
    BY <1>5
  <2>4. SpanSum(some) = Sums(g, some)
    BY SpanSumIs
  <2> HIDE DEF g, id, f
  <2>5. Sums(g, some) = Sums(f, some)
    BY <2>1, <2>2, <2>3, SumsMatch
  <2> QED
    BY <2>4, <2>5
<1> HIDE DEF xs, key, K, lines
<1>7. \A k \in K : line[k] \in lines /\ line[k].bucket = k /\ line[k].tokens = SpanSum(Part(xs, key, k))
  BY <1>2, <1>4
<1>8. lines = {line[k] : k \in K}
  BY <1>2
<1> HIDE DEF line, f
<1>9. IsLines(lines, line, K)
  BY <1>7, <1>8 DEF IsLines
<1>10. \A k \in K : h[line[k]] = Sums(f, Part(xs, key, k))
  <2> TAKE k \in K
  <2>1. Part(xs, key, k) \in SUBSET xs
    BY DEF Part
  <2> QED
    BY <1>6, <1>7, <2>1
<1> HIDE DEF h
<1>11. Sums(h, lines) = Sums(f, xs)
  BY <1>1, <1>3, <1>5, <1>9, <1>10, LinesSum
<1>12. ASSUME NEW t \in traces PROVE each[t] = Sums(f, Part(xs, owner, t))
  <2> DEFINE b == [s \in t.spans |-> One(t, s)]
             its == Part(xs, owner, t)
             g == [s \in t.spans |-> s.tokens]
  <2>1. IsTrace(t) /\ \A r, u \in traces : r.created = u.created => r = u
    BY DEF IsTraces, Named
  <2>2. \A s \in t.spans : b[s] \in its /\ f[b[s]] = g[s] /\ b[s].span = s
    <3> TAKE s \in t.spans
    <3>1. b[s] \in xs /\ b[s].of = t.created /\ b[s].span = s
      BY <1>1
    <3>2. owner[b[s]] = Row(traces, t.created) /\ f[b[s]] = s.tokens
      BY <3>1 DEF f
    <3>3. Row(traces, t.created) = t
      BY <2>1, RowIs
    <3> QED
      BY <3>1, <3>2, <3>3 DEF Part
  <2>3. \A x \in its : \E s \in t.spans : b[s] = x
    <3> TAKE x \in its
    <3>0. x \in xs /\ owner[x] = t
      BY DEF Part
    <3>1. PICK u \in traces : \E s \in u.spans : x = One(u, s)
      BY <1>1, <3>0
    <3>2. PICK s \in u.spans : x = One(u, s)
      BY <3>1
    <3>3. owner[x] = Row(traces, u.created)
      BY <3>0, <3>2
    <3>4. Row(traces, u.created) = u
      BY <2>1, RowIs
    <3> QED
      BY <3>0, <3>2, <3>3, <3>4
  <2>4. \A x \in its : f[x] \in Int
    BY <1>5 DEF Part
  <2>5. DOMAIN b = t.spans /\ b = [s \in t.spans |-> b[s]]
    OBVIOUS
  <2> HIDE DEF b, its
  <2>6. b \in [t.spans -> its]
    BY <2>2, <2>5
  <2>7. b \in Bijection(t.spans, its)
    <3> DEFINE ids == t.spans
    <3>1. \A r, u \in ids : b[r] = b[u] => r = u
      BY <2>2
    <3>2. b \in [ids -> its] /\ \A x \in its : \E r \in ids : b[r] = x
      BY <2>3, <2>6
    <3> HIDE DEF ids
    <3>3. b \in Bijection(ids, its)
      BY <3>1, <3>2 DEF Bijection, Injection, Surjection, IsInjective
    <3> QED
      BY <3>3 DEF ids
  <2>8. SpanTokens(t) = Sums(g, t.spans)
    BY DEF SpanTokens
  <2> HIDE DEF g
  <2>9. Sums(g, t.spans) = Sums(f, its)
    <3>1. IsFiniteSet(t.spans)
      BY <2>1 DEF IsTrace
    <3> DEFINE ids == t.spans
    <3> HIDE DEF ids
    <3> QED
      BY <2>2, <2>4, <2>7, <3>1, SumsMatch DEF ids
  <2>10. each[t] = SpanTokens(t)
    BY SpanStatsIs
  <2> QED
    BY <2>8, <2>9, <2>10 DEF its
<1>13. \A x \in xs : owner[x] \in traces
  <2> TAKE x \in xs
  <2>1. x.of \in {t.created : t \in traces}
    BY <1>1
  <2> QED
    BY <2>1, RowIs
<1> HIDE DEF owner, each
<1>14. Sums(each, traces) = Sums(f, xs)
  <2>1. IsFiniteSet(traces)
    BY DEF IsTraces, Named
  <2> QED
    BY <1>1, <1>5, <1>12, <1>13, <2>1, SumsParts
<1> QED
  BY <1>11, <1>14, TokensOfIs, TokensIs DEF h, lines, each

(* Sessions whose traces in the window are counted.                        *)
SessionsWithin(traces, w) == {t \in traces : t.session # None /\ T!Started(t.started, w)}

FirstStart(rows, s) == T!Min({t.started : t \in T!OfSession(rows, s)})
SizeSum(rows, ss) == MapThenSumSet(LAMBDA s : T!Cardinality(T!OfSession(rows, s)), ss)
SessionLine(rows, k) ==
    LET here == {s \in T!SessionsIn(rows) : FirstStart(rows, s) \div Period = k}
    IN  [bucket |-> k, count |-> Cardinality(here), traces |-> SizeSum(rows, here)]

(* The lines of the sessions, by the period of their first trace.          *)
LEMMA SessionLines ==
    ASSUME NEW traces, NEW w
    PROVE  T!SessionAnalytics(traces, w, Period)
             = {SessionLine(SessionsWithin(traces, w), k) :
                k \in {FirstStart(SessionsWithin(traces, w), s) \div Period :
                       s \in T!SessionsIn(SessionsWithin(traces, w))}}
  BY SameCount
  DEF T!SessionAnalytics, SessionsWithin, SessionLine, FirstStart, SizeSum, T!MapThenSumSet,
      T!MapThenFoldSet, MapThenSumSet, MapThenFoldSet

(* The traces of several sessions, added up.                               *)
LEMMA SizeSumIs ==
    ASSUME NEW rows, NEW ss
    PROVE  SizeSum(rows, ss) = Sums([s \in ss |-> Cardinality(T!OfSession(rows, s))], ss)
<1> DEFINE f == [s \in ss |-> Cardinality(T!OfSession(rows, s))]
           A(it) == [s \in SUBSET ss |-> IF s = {} THEN 0
                       ELSE T!Cardinality(T!OfSession(rows, CHOOSE x \in s : TRUE))
                              + it[s \ {CHOOSE x \in s : TRUE}]]
           B(it) == [s \in SUBSET ss |-> IF s = {} THEN 0
                       ELSE f[CHOOSE x \in s : TRUE] + it[s \ {CHOOSE x \in s : TRUE}]]
<1>1. \A it : A(it) = B(it)
  <2> HIDE DEF f
  <2>1. \A s \in SUBSET ss : s # {} => (CHOOSE x \in s : TRUE) \in ss
    OBVIOUS
  <2>2. \A s \in ss : f[s] = T!Cardinality(T!OfSession(rows, s))
    BY SameCount DEF f
  <2> QED
    BY <2>1, <2>2
<1>2. SizeSum(rows, ss) = (CHOOSE it : it = A(it))[ss]
  BY DEF SizeSum, MapThenSumSet, MapThenFoldSet
<1>3. Sums(f, ss) = (CHOOSE it : it = B(it))[ss]
  BY DEF Sums, MapThenSumSet, MapThenFoldSet
<1> HIDE DEF A, B, f
<1>4. (CHOOSE it : it = A(it)) = (CHOOSE it : it = B(it))
  BY <1>1, Zenon
<1> QED
  BY <1>2, <1>3, <1>4 DEF f

(* What the list of sessions counts, in all.                               *)
ListedSum(traces, f) ==
    MapThenSumSet(LAMBDA s : T!SessionRow(T!SessionTraces(traces, f), s).count, T!ListSessions(traces, f))

NoFilter(w) == [user |-> None, error |-> None, window |-> w]

(* The list of sessions, when only a window is asked for.                  *)
LEMMA ListedAre ==
    ASSUME NEW traces, NEW w
    PROVE  /\ T!SessionTraces(traces, NoFilter(w)) = SessionsWithin(traces, w)
           /\ T!ListSessions(traces, NoFilter(w)) = T!SessionsIn(SessionsWithin(traces, w))
  BY DEF T!ListSessions, T!SessionTraces, T!Given, NoFilter, SessionsWithin

(* The traces of the listed sessions, added up.                            *)
LEMMA ListedSumIs ==
    ASSUME NEW traces, NEW w
    PROVE  ListedSum(traces, NoFilter(w))
             = Sums([s \in T!SessionsIn(SessionsWithin(traces, w)) |->
                       Cardinality(T!OfSession(SessionsWithin(traces, w), s))],
                    T!SessionsIn(SessionsWithin(traces, w)))
<1> DEFINE rows == SessionsWithin(traces, w)
           ss == T!SessionsIn(rows)
           f == [s \in ss |-> Cardinality(T!OfSession(rows, s))]
           counted == T!SessionTraces(traces, NoFilter(w))
           listed == T!ListSessions(traces, NoFilter(w))
           A(it) == [s \in SUBSET listed |-> IF s = {} THEN 0
                       ELSE T!SessionRow(counted, CHOOSE x \in s : TRUE).count
                              + it[s \ {CHOOSE x \in s : TRUE}]]
           B(it) == [s \in SUBSET ss |-> IF s = {} THEN 0
                       ELSE f[CHOOSE x \in s : TRUE] + it[s \ {CHOOSE x \in s : TRUE}]]
<1>1. counted = rows /\ listed = ss
  BY ListedAre
<1>2. ListedSum(traces, NoFilter(w)) = (CHOOSE it : it = A(it))[listed]
  BY DEF ListedSum, MapThenSumSet, MapThenFoldSet
<1>3. Sums(f, ss) = (CHOOSE it : it = B(it))[ss]
  BY DEF Sums, MapThenSumSet, MapThenFoldSet
<1> HIDE DEF counted, listed, rows, ss, f
<1>4. \A it : A(it) = B(it)
  <2>1. \A s \in SUBSET ss : s # {} => (CHOOSE x \in s : TRUE) \in ss
    OBVIOUS
  <2>2. \A s \in ss : f[s] = T!SessionRow(counted, s).count
    BY <1>1, SameCount DEF f, T!SessionRow
  <2> QED
    BY <1>1, <2>1, <2>2
<1> HIDE DEF A, B
<1>5. (CHOOSE it : it = A(it)) = (CHOOSE it : it = B(it))
  BY <1>4, Zenon
<1> QED
  BY <1>1, <1>2, <1>3, <1>5 DEF f, ss, rows

TracesOf(lines) == MapThenSumSet(LAMBDA x : x.traces, lines)

(* The traces of several lines, added up.                                  *)
LEMMA TracesOfIs == ASSUME NEW lines PROVE TracesOf(lines) = Sums([x \in lines |-> x.traces], lines)
<1> DEFINE f == [x \in lines |-> x.traces]
           A(it) == [s \in SUBSET lines |-> IF s = {} THEN 0
                       ELSE (CHOOSE x \in s : TRUE).traces + it[s \ {CHOOSE x \in s : TRUE}]]
           B(it) == [s \in SUBSET lines |-> IF s = {} THEN 0
                       ELSE f[CHOOSE x \in s : TRUE] + it[s \ {CHOOSE x \in s : TRUE}]]
<1>1. \A it : A(it) = B(it)
  OBVIOUS
<1>2. TracesOf(lines) = (CHOOSE it : it = A(it))[lines]
  BY DEF TracesOf, MapThenSumSet, MapThenFoldSet
<1>3. Sums(f, lines) = (CHOOSE it : it = B(it))[lines]
  BY DEF Sums, MapThenSumSet, MapThenFoldSet
<1> HIDE DEF A, B, f
<1>4. (CHOOSE it : it = A(it)) = (CHOOSE it : it = B(it))
  BY <1>1, Zenon
<1> QED
  BY <1>2, <1>3, <1>4 DEF f

(* The sessions of the analytics, and the traces they have, are those of   *)
(* the list.                                                               *)
LEMMA SessionsAgree ==
    ASSUME NEW traces, IsTraces(traces), NEW w
    PROVE  /\ CountOf(T!SessionAnalytics(traces, w, Period)) = Cardinality(T!ListSessions(traces, NoFilter(w)))
           /\ TracesOf(T!SessionAnalytics(traces, w, Period)) = ListedSum(traces, NoFilter(w))
<1> DEFINE rows == SessionsWithin(traces, w)
           ss == T!SessionsIn(rows)
           f == [s \in ss |-> Cardinality(T!OfSession(rows, s))]
           key == [s \in ss |-> FirstStart(rows, s) \div Period]
           K == {FirstStart(rows, s) \div Period : s \in ss}
           line == [k \in K |-> SessionLine(rows, k)]
           lines == T!SessionAnalytics(traces, w, Period)
           counts == [x \in lines |-> x.count]
           sizes == [x \in lines |-> x.traces]
<1>1. IsFiniteSet(rows)
  <2>1. rows \in SUBSET traces
    BY DEF SessionsWithin
  <2> QED
    BY <2>1, FS_Subset DEF IsTraces, Named
<1>2. lines = {SessionLine(rows, k) : k \in K}
  BY SessionLines
<1>3. IsKey(key, ss, K)
  BY DEF IsKey
<1>4. \A k \in K : /\ SessionLine(rows, k).bucket = k
                   /\ SessionLine(rows, k).count = Cardinality(Part(ss, key, k))
                   /\ SessionLine(rows, k).traces = SizeSum(rows, Part(ss, key, k))
  BY DEF Part, SessionLine
<1> HIDE DEF rows
<1>5. IsFiniteSet(ss)
  <2> DEFINE g == [t \in rows |-> t.session]
             names == {g[t] : t \in rows}
  <2>1. ss \in SUBSET names /\ g = [t \in rows |-> g[t]]
    BY DEF T!SessionsIn
  <2> HIDE DEF g, ss
  <2>2. IsFiniteSet({g[t] : t \in rows})
    BY <1>1, <2>1, ImageFinite
  <2> HIDE DEF names
  <2>3. IsFiniteSet(names)
    BY <2>2 DEF names
  <2> QED
    BY <2>1, <2>3, FS_Subset
<1>6. \A s \in ss : f[s] \in Int
  <2> TAKE s \in ss
  <2>1. T!OfSession(rows, s) \in SUBSET rows
    BY DEF T!OfSession
  <2>2. Cardinality(T!OfSession(rows, s)) \in Int
    BY <1>1, <2>1, FS_Subset, FS_CardinalityType
  <2> QED
    BY <2>2
<1>7. \A some \in SUBSET ss : SizeSum(rows, some) = Sums(f, some)
  <2> TAKE some \in SUBSET ss
  <2> DEFINE g == [s \in some |-> Cardinality(T!OfSession(rows, s))]
             id == [s \in some |-> s]
  <2>1. IsFiniteSet(some)
    BY <1>5, FS_Subset
  <2>2. id \in Bijection(some, some)
    BY DEF Bijection, Injection, Surjection, IsInjective
  <2>3. \A s \in some : g[s] = f[id[s]] /\ f[s] \in Int
    BY <1>6
  <2>4. SizeSum(rows, some) = Sums(g, some)
    BY SizeSumIs
  <2> HIDE DEF g, id, f
  <2>5. Sums(g, some) = Sums(f, some)
    BY <2>1, <2>2, <2>3, SumsMatch
  <2> QED
    BY <2>4, <2>5
<1> HIDE DEF ss, key, K, lines
<1>8. \A k \in K : /\ line[k] \in lines /\ line[k].bucket = k
                   /\ line[k].count = Cardinality(Part(ss, key, k))
                   /\ line[k].traces = SizeSum(rows, Part(ss, key, k))
  BY <1>2, <1>4
<1>9. lines = {line[k] : k \in K}
  BY <1>2
<1> HIDE DEF line, f
<1>10. IsLines(lines, line, K)
  BY <1>8, <1>9 DEF IsLines
<1>11. \A k \in K : counts[line[k]] = Cardinality(Part(ss, key, k))
  BY <1>8
<1>12. \A k \in K : sizes[line[k]] = Sums(f, Part(ss, key, k))
  <2> TAKE k \in K
  <2>1. Part(ss, key, k) \in SUBSET ss
    BY DEF Part
  <2> QED
    BY <1>7, <1>8, <2>1
<1> HIDE DEF counts, sizes
<1>13. Sums(counts, lines) = Cardinality(ss)
  BY <1>3, <1>5, <1>10, <1>11, LinesCount
<1>14. Sums(sizes, lines) = Sums(f, ss)
  BY <1>3, <1>5, <1>6, <1>10, <1>12, LinesSum
<1>15. CountOf(lines) = Cardinality(T!ListSessions(traces, NoFilter(w)))
  BY <1>13, CountOfIs, ListedAre DEF counts, ss, rows
<1>16. TracesOf(lines) = ListedSum(traces, NoFilter(w))
  BY <1>14, TracesOfIs, ListedSumIs DEF sizes, ss, rows, f
<1> QED
  BY <1>15, <1>16 DEF lines

(* What is counted of the traces agrees, whatever query counts it.         *)
LEMMA TraceFiguresCorrect == Tabled(db) => TraceFiguresAgree
<1> SUFFICES ASSUME Tabled(db) PROVE TraceFiguresAgree
  OBVIOUS
<1> DEFINE traces == db["traces"]
<1>1. IsTraces(traces)
  BY DEF Tabled, Tables, IsTraces
<1>2. ASSUME NEW w \in Windows
      PROVE  T!TracesMatching(traces, [NoTraceFilter EXCEPT !.window = w]) = Within(traces, w)
  BY DEF T!TracesMatching, NoTraceFilter, T!Given, Within
<1> HIDE DEF traces
<1>3. ASSUME NEW w \in Windows
      PROVE  LET listed == T!TracesMatching(traces, [NoTraceFilter EXCEPT !.window = w])
                 f == [user |-> None, error |-> None, window |-> w]
                 perSession == T!SessionAnalytics(traces, w, Period)
             IN  /\ CountOf(T!TraceAnalytics(traces, w, Period)) = Cardinality(listed)
                 /\ CountOf(perSession) = Cardinality(T!ListSessions(traces, f))
                 /\ MapThenSumSet(LAMBDA x : x.traces, perSession)
                      = MapThenSumSet(LAMBDA s : T!SessionRow(T!SessionTraces(traces, f), s).count,
                                      T!ListSessions(traces, f))
  <2>1. CountOf(T!TraceAnalytics(traces, w, Period)) = Cardinality(Within(traces, w))
    BY <1>1, VolumeAgrees
  <2>2. /\ CountOf(T!SessionAnalytics(traces, w, Period)) = Cardinality(T!ListSessions(traces, NoFilter(w)))
        /\ TracesOf(T!SessionAnalytics(traces, w, Period)) = ListedSum(traces, NoFilter(w))
    BY <1>1, SessionsAgree
  <2> QED
    BY <1>2, <2>1, <2>2 DEF NoFilter, TracesOf, ListedSum
<1>4. /\ TokensOf(T!TokenAnalytics(traces, Always, Period)) = T!Tokens(traces)
      /\ MapThenSumSet(LAMBDA m : m.calls, T!TopModels(traces, Always))
           = Cardinality({x \in T!SpansOf(traces, Always) : x.span.model # None})
      /\ CountOf(T!TraceUsers(traces)) = Cardinality({t \in traces : t.user # None})
  BY <1>1, TokensAgree, ModelsAgree, UsersAgree DEF CallsOf
<1>5. \A w : /\ TraceFigures(db, "volume", w) = T!TraceAnalytics(traces, w, Period)
             /\ TraceFigures(db, "tokens", w) = T!TokenAnalytics(traces, w, Period)
             /\ TraceFigures(db, "models", w) = T!TopModels(traces, w)
             /\ SessionFigures(db, w) = T!SessionAnalytics(traces, w, Period)
  BY DEF TraceFigures, SessionFigures, traces
<1> QED
  BY <1>3, <1>4, <1>5 DEF TraceFiguresAgree, traces

-----------------------------------------------------------------------------
(* The figures of scores                                                   *)

IsScores(rows) == Named(rows) /\ \A s \in rows : IsScore(s)

(* Scores are told apart by created_at, of which there are as many as      *)
(* there are instants.                                                     *)
LEMMA FewScores ==
    ASSUME NEW rows, IsScores(rows), NEW some \in SUBSET rows, NEW times \in SUBSET Times,
           \A s \in some : s.created \in times
    PROVE  /\ IsFiniteSet(some) /\ IsFiniteSet(times)
           /\ Cardinality(some) \in Nat /\ Cardinality(times) \in Nat
           /\ Cardinality(some) <= Cardinality(times)
<1> DEFINE f == [s \in some |-> s.created]
<1>1. f \in Injection(some, times)
  BY DEF Injection, IsInjective, IsScores, Named
<1>2. IsFiniteSet(some) /\ IsFiniteSet(times)
  BY TimesAre, FS_Subset DEF IsScores, Named
<1> HIDE DEF f
<1> QED
  BY <1>1, <1>2, FS_Injection, FS_CardinalityType

(* The list of a metric's successes has the rows that its figures are of.  *)
LEMMA GoodAre ==
    ASSUME NEW rows, NEW n, n # None, NEW w
    PROVE  S!ListScores(rows, ScoreFilter(n, w)) = S!NumericOf(rows, n, w)
<1>1. "SUCCESS" # None /\ "NUMERIC" # None
  <2>1. None \notin {"NUMERIC", "SUCCESS", "m"}
    BY DashboardAssumption
  <2> QED
    BY <2>1
<1> QED
  BY <1>1 DEF S!ListScores, S!Is, ScoreFilter, S!NumericOf, S!Numeric

(* The scores of a trend, period by period, are those of the list.         *)
LEMMA TrendAgrees ==
    ASSUME NEW rows, IsScores(rows), NEW n, NEW w
    PROVE  CountOf(S!ScoreTrend(rows, n, w, Period)) = Cardinality(S!NumericOf(rows, n, w))
<1> DEFINE good == S!NumericOf(rows, n, w)
           key == [s \in good |-> s.created \div Period]
           K == {s.created \div Period : s \in good}
           Here(k) == {s \in good : s.created \div Period = k}
           Line(k) == [bucket |-> k, avg |-> S!Average(Here(k)), count |-> S!Cardinality(Here(k))]
           line == [k \in K |-> Line(k)]
           lines == S!ScoreTrend(rows, n, w, Period)
           h == [x \in lines |-> x.count]
<1>1. IsFiniteSet(good)
  <2>1. good \in SUBSET rows
    BY DEF S!NumericOf
  <2> QED
    BY <2>1, FS_Subset DEF IsScores, Named
<1>2. lines = {Line(k) : k \in K}
  BY DEF S!ScoreTrend
<1> HIDE DEF good
<1>3. IsKey(key, good, K)
  BY DEF IsKey
<1>4. \A k \in K : Part(good, key, k) = Here(k)
  BY DEF Part
<1> HIDE DEF key, K, Here, lines
<1>5. \A k \in K : line[k] \in lines /\ line[k].bucket = k /\ line[k].count = Cardinality(Here(k))
  BY <1>2, SameCount
<1>6. lines = {line[k] : k \in K}
  BY <1>2
<1> HIDE DEF line
<1>7. IsLines(lines, line, K)
  BY <1>5, <1>6 DEF IsLines
<1>8. \A k \in K : h[line[k]] = Cardinality(Part(good, key, k))
  BY <1>4, <1>5
<1> HIDE DEF h
<1>9. Sums(h, lines) = Cardinality(good)
  BY <1>1, <1>3, <1>7, <1>8, LinesCount
<1> QED
  BY <1>9, CountOfIs DEF h, lines, good

(* Division rounds down.                                                   *)
LEMMA Division ==
    ASSUME NEW n \in Int, NEW d \in Nat \ {0}
    PROVE  n \div d \in Int /\ (n \div d) * d <= n /\ n < (n \div d) * d + d
  OBVIOUS

(* A value in the range lies between the bounds of its bucket, both of     *)
(* them rounded down.                                                      *)
LEMMA BetweenBounds ==
    ASSUME NEW v \in Nat, NEW s \in Nat \ {0}, NEW b \in Nat \ {0}, NEW q \in Int,
           q * s <= v * b, v * b < q * s + s
    PROVE  (q * s) \div b <= v /\ v <= ((q + 1) * s) \div b
<1>1. PICK m \in Int : m = (q * s) \div b /\ m * b <= q * s
  BY Division
<1>2. PICK k \in Int : k = ((q + 1) * s) \div b /\ (q + 1) * s < k * b + b
  BY Division
<1>3. m * b <= v * b
  BY <1>1
<1>4. m <= v
  BY <1>3
<1>5. v * b < k * b + b
  BY <1>2
<1>6. v < k + 1
  BY <1>5
<1> QED
  BY <1>1, <1>2, <1>4, <1>6

(* The larger of two.                                                      *)
LEMMA MaxOfTwo ==
    ASSUME NEW a \in Int, NEW b \in Int
    PROVE  Max({a, b}) = IF a > b THEN a ELSE b
  BY DEF Max

(* Every value has a bucket, and lies in its bounds if it is in the range. *)
LEMMA BucketIs ==
    ASSUME NEW v \in Int
    PROVE  LET k == S!WidthBucket(v, Buckets)
           IN  /\ k \in 0..(Buckets + 1)
               /\ v \in 0..Scale =>
                    v \in S!BucketBounds(k, Buckets).min..S!BucketBounds(k, Buckets).max
<1> DEFINE k == S!WidthBucket(v, Buckets)
           lo == ((k - 1) * Scale) \div Buckets
           hi == (k * Scale) \div Buckets
<1>1. Scale \in Nat \ {0} /\ Buckets \in Nat \ {0}
  BY DashboardAssumption
<1>2. S!BucketBounds(k, Buckets).min = Max({0, lo}) /\ S!BucketBounds(k, Buckets).max = Min({Scale, hi})
  BY SameEnds DEF S!BucketBounds
<1>3. ASSUME v < 0 PROVE k = 0
  BY <1>1, <1>3 DEF S!WidthBucket
<1>4. ASSUME v >= Scale PROVE k = Buckets + 1
  BY <1>1, <1>4 DEF S!WidthBucket
<1>5. ASSUME 0 <= v, v < Scale PROVE k = (v * Buckets) \div Scale + 1
  BY <1>1, <1>5 DEF S!WidthBucket
<1>6. ASSUME 0 <= v, v < Scale
      PROVE  k \in 1..Buckets /\ v \in Max({0, lo})..Min({Scale, hi})
  <2>1. PICK q \in Int : q = (v * Buckets) \div Scale /\ q * Scale <= v * Buckets /\ v * Buckets < q * Scale + Scale
    BY <1>1, Division
  <2>2. k = q + 1
    BY <1>5, <1>6, <2>1
  <2>3. q >= 0
    <3>1. v * Buckets >= 0
      BY <1>1, <1>6
    <3> QED
      BY <1>1, <2>1, <3>1
  <2>4. q < Buckets
    <3>1. v * Buckets < Scale * Buckets
      BY <1>1, <1>6
    <3>2. q * Scale < Buckets * Scale
      BY <1>1, <2>1, <3>1
    <3> QED
      BY <1>1, <3>2
  <2>5. lo <= v /\ v <= hi
    <3>1. v \in Nat
      BY <1>6
    <3>2. (q * Scale) \div Buckets <= v /\ v <= ((q + 1) * Scale) \div Buckets
      BY <1>1, <2>1, <3>1, BetweenBounds
    <3>3. k - 1 = q
      BY <2>2
    <3> QED
      BY <2>2, <3>2, <3>3
  <2>6. lo \in Int /\ hi \in Int
    BY <1>1, <2>2, Division
  <2> HIDE DEF k, lo, hi
  <2>7. Max({0, lo}) <= v /\ v <= Min({Scale, hi}) /\ Max({0, lo}) \in Int /\ Min({Scale, hi}) \in Int
    BY <1>1, <1>6, <2>5, <2>6, MaxOfTwo, MinOfTwo
  <2> QED
    BY <1>1, <2>2, <2>3, <2>4, <2>7
<1>7. ASSUME v = Scale PROVE v \in Max({0, lo})..Min({Scale, hi})
  <2>1. k = Buckets + 1
    BY <1>1, <1>4, <1>7
  <2>2. lo = Scale
    <3>1. k - 1 = Buckets
      BY <1>1, <2>1
    <3>2. (Buckets * Scale) \div Buckets = Scale
      BY <1>1
    <3> QED
      BY <3>1, <3>2
  <2>3. hi \in Int /\ hi >= Scale
    <3> DEFINE n == (Buckets + 1) * Scale
    <3>1. n \in Int /\ n >= Buckets * Scale
      BY <1>1
    <3> HIDE DEF n
    <3>2. PICK m \in Int : m = n \div Buckets /\ n < m * Buckets + Buckets
      BY <1>1, <3>1, Division
    <3>3. Scale * Buckets < (m + 1) * Buckets
      BY <1>1, <3>1, <3>2
    <3>4. Scale < m + 1
      BY <1>1, <3>3
    <3> QED
      BY <1>1, <2>1, <3>2, <3>4 DEF n
  <2> HIDE DEF k, lo, hi
  <2>4. Max({0, lo}) = Scale /\ Min({Scale, hi}) = Scale
    BY <1>1, <2>2, <2>3, MaxOfTwo, MinOfTwo
  <2> QED
    BY <1>1, <1>7, <2>4
<1> HIDE DEF k, lo, hi
<1>8. k \in 0..(Buckets + 1)
  BY <1>1, <1>3, <1>4, <1>6
<1>9. v \in 0..Scale => v \in S!BucketBounds(k, Buckets).min..S!BucketBounds(k, Buckets).max
  BY <1>1, <1>2, <1>6, <1>7
<1> QED
  BY <1>8, <1>9 DEF k

(* The buckets of a distribution hold the scores of the list, each in the  *)
(* bounds of its bucket.                                                   *)
LEMMA BarsAgree ==
    ASSUME NEW rows, IsScores(rows), NEW n, NEW w,
           \A s \in S!NumericOf(rows, n, w) : s.value # None
    PROVE  LET good == S!NumericOf(rows, n, w)
               bars == S!ScoreDistribution(rows, n, w, Buckets)
           IN  /\ bars # None
               /\ CountOf(bars) = Cardinality(good)
               /\ \A s \in good : s.value \in 0..Scale =>
                    \E b \in bars : s.value \in b.bounds.min..b.bounds.max
<1> DEFINE good == S!NumericOf(rows, n, w)
           bars == S!ScoreDistribution(rows, n, w, Buckets)
           key == [s \in good |-> S!WidthBucket(s.value, Buckets)]
           K == {S!WidthBucket(s.value, Buckets) : s \in good}
           Here(k) == {s \in good : S!WidthBucket(s.value, Buckets) = k}
           Bar(k) == [bucket |-> k, bounds |-> S!BucketBounds(k, Buckets), count |-> S!Cardinality(Here(k))]
           bar == [k \in K |-> Bar(k)]
           h == [x \in bars |-> x.count]
<1>1. good \in SUBSET rows /\ IsFiniteSet(good)
  <2>1. good \in SUBSET rows
    BY DEF S!NumericOf
  <2> QED
    BY <2>1, FS_Subset DEF IsScores, Named
<1>2. \A s \in good : s.value \in Int
  BY <1>1 DEF IsScores, IsScore, OrNull
<1>3. bars = {Bar(k) : k \in K}
  BY DEF S!ScoreDistribution
<1> HIDE DEF good
<1>4. \A s \in good :
        LET k == S!WidthBucket(s.value, Buckets)
        IN  /\ k \in 0..(Buckets + 1)
            /\ s.value \in 0..Scale =>
                 s.value \in S!BucketBounds(k, Buckets).min..S!BucketBounds(k, Buckets).max
  BY <1>2, BucketIs
<1>5. IsKey(key, good, K)
  BY DEF IsKey
<1>6. \A k \in K : Part(good, key, k) = Here(k)
  BY DEF Part
<1>7. \A k \in K : k \in 0..(Buckets + 1) /\ Here(k) # {} /\ Here(k) \in SUBSET rows
  BY <1>1, <1>4
<1>8. \A s \in good : S!WidthBucket(s.value, Buckets) \in K
  OBVIOUS
<1> HIDE DEF key, K, Here, bars
<1>9. \A k \in K : bar[k] \in bars /\ bar[k].bucket = k /\ bar[k].count = Cardinality(Here(k))
  BY <1>3, SameCount
<1>10. bars = {bar[k] : k \in K}
  BY <1>3
<1>11. bars \in SUBSET Bars
  <2> SUFFICES ASSUME NEW k \in K PROVE Bar(k) \in Bars
    BY <1>3
  <2>1. Cardinality(Here(k)) \in 1..Cardinality(Times)
    <3>1. \A s \in Here(k) : s.created \in Times
      BY <1>7 DEF IsScores, IsScore
    <3>2. /\ IsFiniteSet(Here(k)) /\ Cardinality(Here(k)) \in Nat
          /\ Cardinality(Times) \in Nat /\ Cardinality(Here(k)) <= Cardinality(Times)
      BY <1>7, <3>1, FewScores
    <3>3. Cardinality(Here(k)) # 0
      BY <1>7, <3>2, FS_EmptySet
    <3> QED
      BY <3>2, <3>3
  <2>2. Bar(k) = [bucket |-> k, bounds |-> S!BucketBounds(k, Buckets), count |-> Cardinality(Here(k))]
    BY SameCount
  <2> QED
    BY <1>7, <2>1, <2>2 DEF Bars
<1>12. bars # None
  BY <1>11, NoneAssumption
<1> HIDE DEF bar
<1>13. IsLines(bars, bar, K)
  BY <1>9, <1>10 DEF IsLines
<1>14. \A k \in K : h[bar[k]] = Cardinality(Part(good, key, k))
  BY <1>6, <1>9
<1> HIDE DEF h
<1>15. Sums(h, bars) = Cardinality(good)
  BY <1>1, <1>5, <1>13, <1>14, LinesCount
<1>16. CountOf(bars) = Cardinality(good)
  BY <1>15, CountOfIs DEF h
<1>17. \A k \in K : Bar(k) \in bars /\ Bar(k).bounds = S!BucketBounds(k, Buckets)
  BY <1>3
<1>18. ASSUME NEW s \in good, s.value \in 0..Scale
       PROVE  \E b \in bars : s.value \in b.bounds.min..b.bounds.max
  <2> DEFINE k == S!WidthBucket(s.value, Buckets)
  <2>1. k \in K /\ s.value \in S!BucketBounds(k, Buckets).min..S!BucketBounds(k, Buckets).max
    BY <1>4, <1>8, <1>18
  <2> HIDE DEF k
  <2> QED
    BY <1>17, <2>1
<1> QED
  BY <1>12, <1>16, <1>18 DEF bars, good

(* The values of several scores, added up.                                 *)
LEMMA ValueSumIs ==
    ASSUME NEW rows
    PROVE  S!MapThenSumSet(LAMBDA s : s.value, rows) = Sums([s \in rows |-> s.value], rows)
<1> DEFINE f == [x \in rows |-> x.value]
           A(it) == [s \in SUBSET rows |-> IF s = {} THEN 0
                       ELSE (CHOOSE x \in s : TRUE).value + it[s \ {CHOOSE x \in s : TRUE}]]
           B(it) == [s \in SUBSET rows |-> IF s = {} THEN 0
                       ELSE f[CHOOSE x \in s : TRUE] + it[s \ {CHOOSE x \in s : TRUE}]]
<1>1. \A it : A(it) = B(it)
  OBVIOUS
<1>2. S!MapThenSumSet(LAMBDA s : s.value, rows) = (CHOOSE it : it = A(it))[rows]
  BY DEF S!MapThenSumSet, S!MapThenFoldSet
<1>3. Sums(f, rows) = (CHOOSE it : it = B(it))[rows]
  BY DEF Sums, MapThenSumSet, MapThenFoldSet
<1> HIDE DEF A, B, f
<1>4. (CHOOSE it : it = A(it)) = (CHOOSE it : it = B(it))
  BY <1>1, Zenon
<1> QED
  BY <1>2, <1>3, <1>4 DEF f

(* An average and a median are of the same values, some of the rows'.      *)
LEMMA AverageIs ==
    ASSUME NEW rows, IsFiniteSet(rows), \A s \in rows : s.value \in OrNull
    PROVE  /\ (S!Average(rows) = None) = (S!TwiceMedian(rows) = None)
           /\ S!Average(rows) # None => S!Average(rows).of <= Cardinality(rows)
<1> DEFINE with == S!Valued(rows)
           V == {s.value : s \in with}
           Upto(v) == Cardinality({s \in with : s.value <= v})
           AtLeast(k) == {v \in V : Upto(v) >= k}
           n == Cardinality(with)
<1>1. with \in SUBSET rows /\ \A s \in with : s.value \in Int
  BY DEF S!Valued, OrNull
<1>2. IsFiniteSet(with) /\ n \in Nat /\ n <= Cardinality(rows)
  BY <1>1, FS_Subset, FS_CardinalityType
<1>3. ASSUME with = {}
      PROVE  S!Average(rows) = None /\ S!TwiceMedian(rows) = None
  BY <1>3 DEF S!Average, S!TwiceMedian
<1>4. ASSUME with # {}
      PROVE  S!Average(rows) # None /\ S!Average(rows).of = n
  <2> DEFINE f == [s \in with |-> s.value]
             sum == S!MapThenSumSet(LAMBDA s : s.value, with)
  <2>1. sum = Sums(f, with)
    BY ValueSumIs
  <2>2. f \in [with -> Int]
    BY <1>1
  <2>3. S!Average(rows) = [sum |-> sum, of |-> n]
    BY <1>4, SameCount DEF S!Average
  <2> HIDE DEF f, with, sum, n
  <2>4. sum \in Int
    BY <1>2, <2>1, <2>2, SumsInt
  <2>5. [sum |-> sum, of |-> n] \in [sum : Int, of : Nat]
    BY <1>2, <2>4
  <2> QED
    BY <2>3, <2>5, DashboardAssumption
<1>5. ASSUME with # {}
      PROVE  S!TwiceMedian(rows) # None
  <2> DEFINE f == [s \in with |-> s.value]
  <2>1. V \in SUBSET Int /\ V # {} /\ IsFiniteSet(V)
    <3>1. f = [s \in with |-> f[s]] /\ {f[s] : s \in with} = V
      OBVIOUS
    <3>2. V \in SUBSET Int /\ V # {}
      BY <1>1, <1>5
    <3> HIDE DEF f, with, V
    <3> QED
      BY <1>2, <3>1, <3>2, ImageFinite
  <2>2. Max(V) \in V /\ \A v \in V : Max(V) >= v
    <3> HIDE DEF V
    <3> QED
      BY <2>1, MaxOf
  <2>3. {s \in with : s.value <= Max(V)} = with
    BY <2>2
  <2>4. Upto(Max(V)) = n
    BY <2>3
  <2> HIDE DEF V, Upto, n
  <2>5. ASSUME NEW k \in Int, k <= n PROVE Min(AtLeast(k)) \in Int
    <3>1. AtLeast(k) \in SUBSET V
      OBVIOUS
    <3>2. Max(V) \in AtLeast(k)
      BY <1>2, <2>2, <2>4, <2>5
    <3>3. IsFiniteSet(AtLeast(k)) /\ AtLeast(k) \in SUBSET Int
      BY <2>1, <3>1, FS_Subset
    <3> HIDE DEF AtLeast
    <3>4. Min(AtLeast(k)) \in AtLeast(k)
      BY <3>2, <3>3, MinOf
    <3> QED
      BY <3>3, <3>4
  <2>6. (n + 1) \div 2 \in Int /\ (n + 1) \div 2 <= n /\ (n + 2) \div 2 \in Int /\ (n + 2) \div 2 <= n
    <3>1. n # 0
      BY <1>2, <1>5, FS_EmptySet DEF n
    <3> QED
      BY <1>2, <3>1
  <2>7. S!TwiceMedian(rows) = Min(AtLeast((n + 1) \div 2)) + Min(AtLeast((n + 2) \div 2))
    BY <1>5, SameCount, SameEnds DEF S!TwiceMedian, V, Upto, n
  <2> HIDE DEF AtLeast
  <2>8. Min(AtLeast((n + 1) \div 2)) \in Int /\ Min(AtLeast((n + 2) \div 2)) \in Int
    BY <2>5, <2>6
  <2>9. S!TwiceMedian(rows) \in Int
    BY <2>7, <2>8
  <2> QED
    BY <2>9, DashboardAssumption
<1> HIDE DEF with
<1> QED
  BY <1>2, <1>3, <1>4, <1>5

(* The line of a metric in the summary.                                    *)
LEMMA SummaryAgrees ==
    ASSUME NEW rows, IsScores(rows), NEW w, NEW n \in DOMAIN S!ScoreSummary(rows, w)
    PROVE  LET line == S!ScoreSummary(rows, w)[n]
               good == S!NumericOf(rows, n, w)
           IN  /\ n # None
               /\ line.success >= Cardinality(good)
               /\ (line.avg = None) = (line.median = None)
               /\ line.avg # None => line.avg.of <= Cardinality(good)
<1> DEFINE all == {s \in rows : S!InWindow(s.created, w)}
           names == {s.name : s \in all}
           Of(m) == {s \in all : s.name = m}
           Good(m) == {s \in Of(m) : S!Numeric(s)}
           Line(m) == [success |-> S!Cardinality({s \in Of(m) : s.status = "SUCCESS"}),
                       failed |-> S!Cardinality({s \in Of(m) : s.status = "FAILED"}),
                       avg |-> S!Average(Good(m)),
                       median |-> S!TwiceMedian(Good(m)),
                       latest |-> S!Newest(Of(m)).created]
           done == {s \in Of(n) : s.status = "SUCCESS"}
<1>1. S!ScoreSummary(rows, w) = [m \in names |-> Line(m)]
  BY DEF S!ScoreSummary
<1>2. Good(n) = S!NumericOf(rows, n, w)
  BY DEF S!NumericOf
<1>3. Good(n) \in SUBSET done /\ done \in SUBSET rows /\ Good(n) \in SUBSET rows
  BY DEF S!Numeric
<1>4. n \in names
  <2> HIDE DEF Line, names
  <2> QED
    BY <1>1
<1>5. /\ S!ScoreSummary(rows, w)[n].success = S!Cardinality(done)
      /\ S!ScoreSummary(rows, w)[n].avg = S!Average(Good(n))
      /\ S!ScoreSummary(rows, w)[n].median = S!TwiceMedian(Good(n))
  <2>1. S!ScoreSummary(rows, w)[n] = Line(n)
    <3> HIDE DEF Line, names
    <3> QED
      BY <1>1, <1>4
  <2> QED
    BY <2>1
<1>6. n # None
  BY <1>4 DEF IsScores, IsScore
<1> HIDE DEF Good, done, names
<1>7. IsFiniteSet(done) /\ IsFiniteSet(Good(n)) /\ \A s \in Good(n) : s.value \in OrNull
  BY <1>3, FS_Subset DEF IsScores, Named, IsScore
<1>8. S!Cardinality(done) >= Cardinality(Good(n))
  <2>1. Cardinality(Good(n)) <= Cardinality(done) /\ Cardinality(Good(n)) \in Nat /\ Cardinality(done) \in Nat
    BY <1>3, <1>7, FS_Subset, FS_CardinalityType
  <2> QED
    BY <2>1, SameCount
<1>9. /\ (S!Average(Good(n)) = None) = (S!TwiceMedian(Good(n)) = None)
      /\ S!Average(Good(n)) # None => S!Average(Good(n)).of <= Cardinality(Good(n))
  BY <1>7, AverageIs
<1> QED
  BY <1>2, <1>5, <1>6, <1>8, <1>9, Zenon

(* What is counted of the scores agrees, whatever query counts it.         *)
LEMMA ScoreFiguresCorrect == Tabled(db) => ScoreFiguresAgree
<1> SUFFICES ASSUME Tabled(db), NEW t \in {"trace_scores", "session_scores"}, NEW w \in Windows
             PROVE  /\ \A n \in {s.name : s \in db[t]} :
                         LET good == S!ListScores(db[t], ScoreFilter(n, w))
                             bars == ScoreDistribution(db, t, n, w)
                         IN  /\ CountOf(ScoreTrend(db, t, n, w)) = Cardinality(good)
                             /\ IF bars = None THEN \E s \in good : s.value = None
                                ELSE /\ CountOf(bars) = Cardinality(good)
                                     /\ \A s \in good : s.value \in 0..Scale =>
                                          \E b \in bars : s.value \in b.bounds.min..b.bounds.max
                    /\ \A n \in DOMAIN ScoreSummary(db, t, w) :
                         LET line == ScoreSummary(db, t, w)[n]
                             good == S!ListScores(db[t], ScoreFilter(n, w))
                         IN  /\ line.success >= Cardinality(good)
                             /\ (line.avg = None) = (line.median = None)
                             /\ line.avg # None => line.avg.of <= Cardinality(good)
  BY Zenon DEF ScoreFiguresAgree
<1> DEFINE rows == db[t]
<1>1. IsScores(rows)
  BY DEF IsScores, Tabled, Tables
<1>2. /\ \A n : ScoreTrend(db, t, n, w) = S!ScoreTrend(rows, n, w, Period)
      /\ \A n : ScoreDistribution(db, t, n, w) = S!ScoreDistribution(rows, n, w, Buckets)
      /\ ScoreSummary(db, t, w) = S!ScoreSummary(rows, w)
  BY DEF ScoreTrend, ScoreDistribution, ScoreSummary
<1> HIDE DEF rows
<1>3. ASSUME NEW n \in {s.name : s \in rows}
      PROVE  LET good == S!ListScores(rows, ScoreFilter(n, w))
                 bars == ScoreDistribution(db, t, n, w)
             IN  /\ CountOf(ScoreTrend(db, t, n, w)) = Cardinality(good)
                 /\ IF bars = None THEN \E s \in good : s.value = None
                    ELSE /\ CountOf(bars) = Cardinality(good)
                         /\ \A s \in good : s.value \in 0..Scale =>
                              \E b \in bars : s.value \in b.bounds.min..b.bounds.max
  <2> DEFINE good == S!NumericOf(rows, n, w)
             bars == S!ScoreDistribution(rows, n, w, Buckets)
  <2>1. n # None
    BY <1>1 DEF IsScores, IsScore
  <2>2. S!ListScores(rows, ScoreFilter(n, w)) = good
    BY <2>1, GoodAre
  <2>3. CountOf(ScoreTrend(db, t, n, w)) = Cardinality(good)
    BY <1>1, <1>2, TrendAgrees
  <2>4. ASSUME \A s \in good : s.value # None
        PROVE  /\ bars # None
               /\ CountOf(bars) = Cardinality(good)
               /\ \A s \in good : s.value \in 0..Scale =>
                    \E b \in bars : s.value \in b.bounds.min..b.bounds.max
    BY <1>1, <2>4, BarsAgree
  <2>5. ASSUME \E s \in good : s.value = None PROVE bars = None
    BY <2>5 DEF S!ScoreDistribution
  <2>6. ScoreDistribution(db, t, n, w) = bars
    BY <1>2
  <2> HIDE DEF good, bars
  <2> QED
    BY <2>2, <2>3, <2>4, <2>5, <2>6, Zenon
<1>4. ASSUME NEW n \in DOMAIN ScoreSummary(db, t, w)
      PROVE  LET line == ScoreSummary(db, t, w)[n]
                 good == S!ListScores(rows, ScoreFilter(n, w))
             IN  /\ line.success >= Cardinality(good)
                 /\ (line.avg = None) = (line.median = None)
                 /\ line.avg # None => line.avg.of <= Cardinality(good)
  <2>1. n \in DOMAIN S!ScoreSummary(rows, w)
    BY <1>2
  <2>2. n # None
    BY <1>1, <2>1, SummaryAgrees, Zenon
  <2>3. S!ListScores(rows, ScoreFilter(n, w)) = S!NumericOf(rows, n, w)
    BY <2>2, GoodAre
  <2> DEFINE line == S!ScoreSummary(rows, w)[n]
             good == S!NumericOf(rows, n, w)
  <2>4. /\ line.success >= Cardinality(good)
        /\ (line.avg = None) = (line.median = None)
        /\ line.avg # None => line.avg.of <= Cardinality(good)
    BY <1>1, <2>1, SummaryAgrees
  <2>5. ScoreSummary(db, t, w)[n] = line
    BY <1>2
  <2> HIDE DEF line, good
  <2>6. S!ListScores(rows, ScoreFilter(n, w)) = good
    BY <2>3 DEF good
  <2> QED
    BY <2>4, <2>5, <2>6
<1> QED
  BY <1>3, <1>4, Zenon DEF rows

(* A session is ranked by the last success of its history, which is whole: *)
(* its limit is above the number of its scores.                            *)
LEMMA HistoryAgrees ==
    ASSUME NEW rows, IsScores(rows), NEW r \in S!ScoreComparison(rows, "m")
    PROVE  LET history == S!ScoreHistory(rows, r.target, "m", Cardinality(Times))
           IN  r.created = Max({s.created : s \in {x \in history : x.status = "SUCCESS"}})
<1> DEFINE good == S!NumericOf(rows, "m", [from |-> None, to |-> None])
           Mine(u) == {s \in good : s.target = u}
           own == {s \in rows : s.target = r.target /\ s.type = "NUMERIC" /\ S!Is("m", s.name)}
           Older(s) == {u \in own : u.created < s.created}
           history == S!ScoreHistory(rows, r.target, "m", Cardinality(Times))
           times == {s.created : s \in Mine(r.target)}
<1>1. PICK u \in {s.target : s \in good} : r = S!Newest(Mine(u))
  BY DEF S!ScoreComparison
<1>2. good \in SUBSET rows
  BY DEF S!NumericOf
<1>3. \A v : Mine(v) \in SUBSET rows /\ \A s \in Mine(v) : s.target = v
  BY <1>2
<1>4. \A s \in rows : s.created \in Times /\ s.created \in Int
  BY TimesAre DEF IsScores, IsScore
<1>5. r \in Mine(r.target) /\ \A s \in Mine(r.target) : r.created >= s.created
  <2>1. Mine(u) # {}
    OBVIOUS
  <2> HIDE DEF Mine
  <2>2. IsFiniteSet(Mine(u)) /\ \A s \in Mine(u) : s.created \in Int
    BY <1>3, <1>4, FS_Subset DEF IsScores, Named
  <2>3. r \in Mine(u) /\ \A s \in Mine(u) : r.created >= s.created
    BY <1>1, <2>1, <2>2, NewestIs
  <2>4. r.target = u
    BY <1>3, <2>3
  <2> QED
    BY <2>3, <2>4
<1>6. history = own
  <2>1. history = {s \in own : S!Cardinality(Older(s)) < Cardinality(Times)}
    BY DEF S!ScoreHistory
  <2>2. ASSUME NEW s \in own PROVE S!Cardinality(Older(s)) < Cardinality(Times)
    <3> DEFINE earlier == Times \ {s.created}
    <3>1. s \in rows /\ Older(s) \in SUBSET rows /\ earlier \in SUBSET Times
      OBVIOUS
    <3>2. \A x \in Older(s) : x.created \in earlier
      BY <1>4
    <3> HIDE DEF Older, own
    <3>3. Cardinality(Older(s)) <= Cardinality(earlier) /\ Cardinality(Older(s)) \in Nat
      <4> HIDE DEF earlier
      <4> QED
        BY <3>1, <3>2, FewScores
    <3>4. Cardinality(earlier) = Cardinality(Times) - 1 /\ Cardinality(Times) \in Nat
      BY <1>4, <3>1, TimesAre, FS_RemoveElement, FS_CardinalityType
    <3> QED
      BY <3>3, <3>4, SameCount
  <2> HIDE DEF history, own, Older
  <2> QED
    BY <2>1, <2>2
<1>7. {x \in own : x.status = "SUCCESS"} = Mine(r.target)
  <2>1. None # "m"
    BY DashboardAssumption
  <2> QED
    BY <2>1 DEF S!Is, S!NumericOf, S!Numeric, S!InWindow
<1> HIDE DEF Mine, own, history
<1>8. times \in SUBSET Times /\ r.created \in times /\ \A c \in times : r.created >= c
  BY <1>3, <1>4, <1>5
<1>9. {s.created : s \in {x \in history : x.status = "SUCCESS"}} = times
  BY <1>6, <1>7
<1> HIDE DEF times
<1>10. Max(times) \in times /\ \A c \in times : Max(times) >= c
  <2>1. times \in SUBSET Int /\ IsFiniteSet(times) /\ times # {}
    BY <1>8, TimesAre, FS_Subset
  <2> QED
    BY <2>1, MaxOf
<1>11. r.created = Max(times)
  <2>1. Max(times) \in Int /\ r.created \in Int
    BY <1>8, <1>10, TimesAre
  <2>2. Max(times) >= r.created /\ r.created >= Max(times)
    BY <1>8, <1>10
  <2> QED
    BY <2>1, <2>2
<1> QED
  BY <1>9, <1>11 DEF history

(* The latest score of a metric has no newer one beside it.                *)
LEMMA LatestAgrees ==
    ASSUME NEW rows, IsScores(rows), NEW t, NEW s \in S!LatestScores(rows, t),
           NEW u \in rows, u.target = t, u.name = s.name
    PROVE  u.created <= s.created
<1> DEFINE own == {x \in rows : x.target = t}
           Of(n) == {x \in own : x.name = n}
<1>1. PICK n \in {x.name : x \in own} : s = S!Newest(Of(n))
  BY DEF S!LatestScores
<1>2. Of(n) \in SUBSET rows /\ Of(n) # {} /\ \A x \in Of(n) : x.name = n
  OBVIOUS
<1>3. u \in Of(u.name)
  OBVIOUS
<1> HIDE DEF Of
<1>4. IsFiniteSet(Of(n)) /\ \A x \in Of(n) : x.created \in Int
  BY <1>2, TimesAre, FS_Subset DEF IsScores, Named, IsScore
<1>5. s \in Of(n) /\ \A x \in Of(n) : s.created >= x.created
  BY <1>1, <1>2, <1>4, NewestIs
<1>6. u.name = n
  BY <1>2, <1>5
<1> QED
  BY <1>2, <1>3, <1>4, <1>5, <1>6

(* However the tables are filled, the figures that several queries give of *)
(* the same rows agree (trace_repo.py, eval_repo.py).                      *)
THEOREM FiguresCorrect == DashboardSpec => []FiguresAgree
<1>1. Tabled(db) => FiguresAgree
  <2> SUFFICES ASSUME Tabled(db) PROVE FiguresAgree
    OBVIOUS
  <2> DEFINE traced == db["trace_scores"]
             sessioned == db["session_scores"]
  <2>1. IsScores(traced) /\ IsScores(sessioned)
    BY DEF IsScores, Tabled, Tables
  <2>2. TraceFiguresAgree /\ ScoreFiguresAgree
    BY TraceFiguresCorrect, ScoreFiguresCorrect
  <2>3. \A s, n : ScoreHistory(db, s, n) = S!ScoreHistory(sessioned, s, n, Cardinality(Times))
    BY DEF ScoreHistory
  <2> HIDE DEF traced, sessioned
  <2>4. ASSUME NEW r \in S!ScoreComparison(sessioned, "m")
        PROVE  LET history == ScoreHistory(db, r.target, "m")
               IN  r.created = Max({s.created : s \in {x \in history : x.status = "SUCCESS"}})
    BY <2>1, <2>3, HistoryAgrees
  <2>5. ASSUME NEW t \in {s.target : s \in traced}
        PROVE  LET own == {s \in traced : s.target = t}
               IN  \A s \in S!LatestScores(traced, t) :
                     \A u \in own : u.name = s.name => u.created <= s.created
    BY <2>1, LatestAgrees
  <2> QED
    BY <2>2, <2>4, <2>5, Zenon DEF FiguresAgree, traced, sessioned
<1>2. PagesInv => FiguresAgree
  BY <1>1, Zenon DEF PagesInv
<1> QED
  BY <1>2, PagesInvCorrect, PTL

=============================================================================

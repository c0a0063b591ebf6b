--------------------------- MODULE BoundedWindow ---------------------------
(***************************************************************************)
(* One ClickHouse table refreshed through rolling windows:                 *)
(* RollingWindowRuntime.run over BoundedWindowExecutor, the SQLite lease   *)
(* and journal, and ClickHouseWindowTarget.                                *)
(*                                                                         *)
(* An execution is named by the fence of the lease it acquired; it works   *)
(* on one run (one immutable plan).  A lease expires whenever its holder   *)
(* stops renewing it, so a superseded execution may go on beside its       *)
(* successor until a fenced step refuses it.  A journal write checks the   *)
(* lease and the revision in one SQLite transaction; only the lease holder *)
(* writes, so the revision can only agree and is not represented.          *)
(*                                                                         *)
(* A physical table is a UUID with, for every window, the run whose rows   *)
(* fill it and whether those rows are all of them.  EXCHANGE TABLES swaps  *)
(* the tables behind two names.                                            *)
(***************************************************************************)
EXTENDS Integers, FiniteSets

CONSTANTS Runs,        \* plans, by run_id
          Windows,     \* disjoint intervals of the target
          WindowOf,    \* the window a run replaces
          NumChunks,   \* chunks of every plan
          Workers,     \* plan.workers
          LastAttempt, \* 2 in the code: three attempts per chunk
          MaxFence,    \* bound on lease acquisitions
          MaxFaults,   \* bound on crashes, stalls, errors and lost replies
          NoRun        \* rows that predate every run; no pending marker

ASSUME WindowAssumption ==
    /\ WindowOf \in [Runs -> Windows]
    /\ NoRun \notin Runs
    /\ NumChunks \in Nat \ {0} /\ Workers \in Nat \ {0}
    /\ LastAttempt \in Nat /\ MaxFence \in Nat /\ MaxFaults \in Nat

VARIABLES lease,      \* window_leases: the last fence, and whether it is unexpired
          held,       \* the execution inside ExclusiveWindowWriterGuard.hold, 0 if none
          run,        \* the run of each execution
          pc,         \* where the main thread of each execution is
          cancelled,  \* the executions whose cancelled/lost event is set
          threads,    \* the chunk threads of each execution
          plans,      \* the runs whose plan is in the invocation registry
          phase,      \* journal record "run"
          chunks,     \* journal records "chunk/<id>"
          attempts,   \* staging table of each attempt, and its receipt
          target,     \* the table behind the target's name
          gen,        \* the table behind each run's generation name
          genMeta,    \* the metadata file of each generation
          pending,    \* the run in the pending-publication marker
          evidenced,  \* runs whose evidence is durable
          advanced,   \* runs that advanced the source state
          exchanged,  \* history: runs whose EXCHANGE was executed
          settled,    \* history: runs whose exchange was observed as published
          faults      \* faults so far

store  == <<lease, plans, phase, chunks>>
table  == <<attempts, target, gen, genMeta, pending, exchanged, settled>>
effect == <<evidenced, advanced>>
vars   == <<lease, held, run, pc, cancelled, threads, plans, phase, chunks, attempts,
            target, gen, genMeta, pending, evidenced, advanced, exchanged, settled, faults>>

Execs    == 1..MaxFence
Chunks   == 1..NumChunks
Attempts == 0..LastAttempt

MainSteps == {"unused", "begin", "validate", "read", "chunks", "joining", "prepare", "prepared",
              "intend", "publish", "mark", "exchange", "settle", "confirm", "published",
              "evidence", "evidenced", "advance", "advanced", "release", "done", "dead"}

ThreadSteps == {"idle", "inspect", "discard", "write", "stage", "load", "receipt", "verify", "done", "error"}

Phases == {"none", "planned", "publishing", "published", "evidence-complete", "succeeded"}

\* The steps inside one publish call, whose exceptions are reconciled.
PublishSteps == {"publish", "mark", "exchange", "settle"}

Idle      == [step |-> "idle", attempt |-> 0, next |-> 0]
NoRecord  == [phase |-> "none", attempt |-> 0]
NoMeta    == [original |-> -1, prepared |-> -1, base |-> [w \in Windows |-> NoRun],
              receipts |-> [c \in Chunks |-> -1]]
EmptyRows == [w \in Windows |-> [run |-> NoRun, whole |-> TRUE]]
NoTable   == [uuid |-> -1, rows |-> EmptyRows]

Init ==
    /\ lease = [fence |-> 0, live |-> FALSE]
    /\ held = 0
    /\ run = [e \in Execs |-> NoRun]
    /\ pc = [e \in Execs |-> "unused"]
    /\ cancelled = {}
    /\ threads = [e \in Execs |-> [c \in Chunks |-> Idle]]
    /\ plans = {}
    /\ phase = [r \in Runs |-> "none"]
    /\ chunks = [r \in Runs |-> [c \in Chunks |-> NoRecord]]
    /\ attempts = [r \in Runs |-> [c \in Chunks |-> [a \in Attempts |-> "absent"]]]
    /\ target = [uuid |-> 0, rows |-> EmptyRows]
    /\ gen = [r \in Runs |-> NoTable]
    /\ genMeta = [r \in Runs |-> NoMeta]
    /\ pending = NoRun
    /\ evidenced = {} /\ advanced = {} /\ exchanged = {} /\ settled = {}
    /\ faults = 0

(***************************************************************************)
(* The lease.                                                              *)
(***************************************************************************)

\* SQLiteWindowStore._assert: this epoch, and unexpired.
Live(e) == lease.live /\ lease.fence = e

\* BoundedWindowExecutor._check.
Checked(e) == Live(e) /\ e \notin cancelled

Goto(e, step) == pc' = [pc EXCEPT ![e] = step]

\* The execution is over and its events and threads with it.
Forget(e) ==
    /\ cancelled' = cancelled \ {e}
    /\ threads' = [threads EXCEPT ![e] = [c \in Chunks |-> Idle]]

\* RollingWindowRuntime.run acquires the target before anything else; an expired
\* or released lease gives the next fence, whoever asks.
Acquire(r) ==
    /\ ~lease.live
    /\ lease.fence < MaxFence
    /\ LET e == lease.fence + 1 IN
       /\ lease' = [fence |-> e, live |-> TRUE]
       /\ run' = [run EXCEPT ![e] = r]
       /\ Goto(e, "begin")
    /\ UNCHANGED <<held, cancelled, threads, plans, phase, chunks, table, effect, faults>>

\* The lease runs out: its holder is dead, or stalled past the renewals.
Expire ==
    /\ lease.live
    /\ IF pc[lease.fence] = "dead" THEN UNCHANGED faults
       ELSE faults < MaxFaults /\ faults' = faults + 1
    /\ lease' = [lease EXCEPT !.live = FALSE]
    /\ UNCHANGED <<held, run, pc, cancelled, threads, plans, phase, chunks, table, effect>>

\* _heartbeat: a renewal that raises sets the event that cancels the execution.
Heartbeat(e) ==
    /\ pc[e] \notin {"unused", "begin", "release", "done", "dead"}
    /\ e \notin cancelled
    /\ IF Live(e) THEN faults < MaxFaults /\ faults' = faults + 1 ELSE UNCHANGED faults
    /\ cancelled' = cancelled \cup {e}
    /\ UNCHANGED <<held, run, pc, threads, store, table, effect>>

\* release: only this epoch is expired, and the fence is kept.
Release(e) ==
    /\ pc[e] = "release"
    /\ lease' = [lease EXCEPT !.live = lease.live /\ lease.fence # e]
    /\ Goto(e, "done") /\ Forget(e)
    /\ UNCHANGED <<held, run, plans, phase, chunks, table, effect, faults>>

(***************************************************************************)
(* Admission: the invocation registry, the pending marker, the run record. *)
(***************************************************************************)

\* Mutant of Begin: a saved plan is never resumed without its snapshot.
BeginNeedsSnapshot(e) ==
    LET r == run[e] IN
    /\ pc[e] = "begin" /\ Live(e)
    /\ plans' = plans \cup {r}
    /\ Goto(e, IF r \in plans THEN "release" ELSE "validate")
    /\ UNCHANGED <<lease, held, run, cancelled, threads, phase, chunks, table, effect, faults>>

\* A saved plan past "planned" is resumed without a source; one that is not is
\* resumed only on the same snapshot; without one the plan is created.
Begin(e) ==
    LET r == run[e] IN
    /\ pc[e] = "begin" /\ Live(e)
    /\ \/ plans' = plans \cup {r} /\ Goto(e, "validate") /\ UNCHANGED faults
       \/ /\ r \in plans /\ phase[r] \in {"none", "planned"}
          /\ faults < MaxFaults /\ faults' = faults + 1
          /\ Goto(e, "release") /\ UNCHANGED plans
    /\ UNCHANGED <<lease, held, run, cancelled, threads, phase, chunks, table, effect>>

\* Mutant of Validate: the pending marker of another run is not looked at.
ValidateIgnoresMarker(e) ==
    /\ pc[e] = "validate" /\ Live(e)
    /\ Goto(e, "read")
    /\ UNCHANGED <<held, run, cancelled, threads, store, table, effect, faults>>

\* execute_leased and ClickHouseWindowTarget.validate: refuse while another run's
\* publication is unresolved.
Validate(e) ==
    /\ pc[e] = "validate" /\ Live(e)
    /\ Goto(e, IF pending \in {NoRun, run[e]} THEN "read" ELSE "release")
    /\ UNCHANGED <<held, run, cancelled, threads, store, table, effect, faults>>

\* Mutant of ReadRun: a run found publishing is exchanged again.
ReplayPublishing(e) ==
    LET r == run[e] IN
    /\ pc[e] = "read"
    /\ \/ phase[r] = "none" /\ Live(e) /\ phase' = [phase EXCEPT ![r] = "planned"] /\ Goto(e, "chunks")
       \/ phase[r] = "planned" /\ Goto(e, "chunks") /\ UNCHANGED phase
       \/ phase[r] = "publishing" /\ Goto(e, "mark") /\ UNCHANGED phase
       \/ phase[r] \notin {"none", "planned", "publishing"} /\ Goto(e, "confirm") /\ UNCHANGED phase
    /\ UNCHANGED <<lease, held, run, cancelled, threads, plans, chunks, table, effect, faults>>

\* _run: a run past "planned" only reconciles its publication.
ReadRun(e) ==
    LET r == run[e] IN
    /\ pc[e] = "read"
    /\ \/ phase[r] = "none" /\ Live(e) /\ phase' = [phase EXCEPT ![r] = "planned"] /\ Goto(e, "chunks")
       \/ phase[r] = "planned" /\ Goto(e, "chunks") /\ UNCHANGED phase
       \/ phase[r] \notin {"none", "planned"} /\ Goto(e, "confirm") /\ UNCHANGED phase
    /\ UNCHANGED <<lease, held, run, cancelled, threads, plans, chunks, table, effect, faults>>

(***************************************************************************)
(* Chunk threads.  hold serialises target calls; a call whose statements   *)
(* can be separated by a crash, an expiry or a fault is several steps      *)
(* under one hold.                                                         *)
(***************************************************************************)

Thread(e, c, step) == threads' = [threads EXCEPT ![e][c].step = step]
Write(e, c, rec)   == chunks' = [chunks EXCEPT ![run[e]][c] = rec]
SetAttempt(e, c, state) ==
    attempts' = [attempts EXCEPT ![run[e]][c][threads[e][c].attempt] = state]

Running(e) == {c \in Chunks : threads[e][c].step \notin {"idle", "done", "error"}}

\* Mutant of HasReceipt: the table alone counts as a staged attempt.
HasTable(r, c, a) == attempts[r][c][a] # "absent"

\* WindowStaging.inspect: an attempt counts only with its durable receipt.
HasReceipt(r, c, a) == attempts[r][c][a] = "verified"

\* _chunks submits in plan order, at most plan.workers at a time; _chunk reads its
\* record, which may already be terminal.
StartChunk(e, c) ==
    LET rec == chunks[run[e]][c] IN
    /\ pc[e] = "chunks"
    /\ threads[e][c].step = "idle"
    /\ \A d \in 1..(c - 1) : threads[e][d].step # "idle"
    /\ Cardinality(Running(e)) < Workers
    /\ threads' = [threads EXCEPT ![e][c] =
          [step |-> CASE rec.phase = "failed" -> "error"
                      [] rec.phase = "none"   -> "write"
                      [] OTHER                -> "inspect",
           attempt |-> rec.attempt, next |-> 0]]
    /\ UNCHANGED <<held, run, pc, cancelled, store, table, effect, faults>>

\* Mutant of InspectChunk: the last attempt may be retried too.
InspectPastBudget(e, c) ==
    LET r == run[e]
        a == threads[e][c].attempt IN
    /\ threads[e][c].step = "inspect" /\ Checked(e) /\ held = 0
    /\ IF HasReceipt(r, c, a)
       THEN Write(e, c, [phase |-> "verified", attempt |-> a]) /\ Thread(e, c, "done")
       ELSE /\ Write(e, c, [phase |-> "staging", attempt |-> a + 1])
            /\ threads' = [threads EXCEPT ![e][c] =
                             [step |-> "discard", attempt |-> a + 1, next |-> 0]]
    /\ UNCHANGED <<lease, held, run, pc, cancelled, plans, phase, table, effect, faults>>

\* A journalled attempt is adopted if its receipt is durable, and otherwise given
\* up for the next one; the budget counts attempts across restarts.
InspectChunk(e, c) ==
    LET r == run[e]
        a == threads[e][c].attempt IN
    /\ threads[e][c].step = "inspect" /\ Checked(e) /\ held = 0
    /\ CASE HasReceipt(r, c, a) ->
               Write(e, c, [phase |-> "verified", attempt |-> a]) /\ Thread(e, c, "done")
         [] ~HasReceipt(r, c, a) /\ chunks[r][c].phase = "verified" ->
               Thread(e, c, "error") /\ UNCHANGED chunks
         [] ~HasReceipt(r, c, a) /\ chunks[r][c].phase # "verified" /\ a = LastAttempt ->
               Write(e, c, [phase |-> "failed", attempt |-> a]) /\ Thread(e, c, "error")
         [] OTHER ->
               /\ Write(e, c, [phase |-> "staging", attempt |-> a + 1])
               /\ threads' = [threads EXCEPT ![e][c] =
                                [step |-> "discard", attempt |-> a + 1, next |-> 0]]
    /\ UNCHANGED <<lease, held, run, pc, cancelled, plans, phase, table, effect, faults>>

\* WindowStaging.discard of one older attempt; every older one is confirmed.
DiscardChunk(e, c) ==
    LET t == threads[e][c] IN
    /\ t.step = "discard" /\ Checked(e) /\ held = 0
    /\ attempts' = [attempts EXCEPT ![run[e]][c][t.next] = "absent"]
    /\ threads' = [threads EXCEPT ![e][c] =
          [t EXCEPT !.next = t.next + 1, !.step = IF t.next + 1 = t.attempt THEN "write" ELSE "discard"]]
    /\ UNCHANGED <<held, run, pc, cancelled, store, target, gen, genMeta, pending,
                   exchanged, settled, effect, faults>>

\* The attempt is journalled before anything is staged for it.
WriteStaging(e, c) ==
    /\ threads[e][c].step = "write" /\ Live(e)
    /\ Write(e, c, [phase |-> "staging", attempt |-> threads[e][c].attempt])
    /\ Thread(e, c, "stage")
    /\ UNCHANGED <<lease, held, run, pc, cancelled, plans, phase, table, effect, faults>>

\* WindowStaging.stage up to CREATE TABLE; a table without a receipt is a contract
\* error, which _chunk records as terminal.
StageChunk(e, c) ==
    LET r == run[e]
        a == threads[e][c].attempt IN
    /\ threads[e][c].step = "stage" /\ Live(e) /\ held = 0
    /\ CASE attempts[r][c][a] = "absent" ->
               SetAttempt(e, c, "partial") /\ held' = e /\ Thread(e, c, "load") /\ UNCHANGED chunks
         [] HasReceipt(r, c, a) ->
               Thread(e, c, "verify") /\ UNCHANGED <<attempts, held, chunks>>
         [] OTHER ->
               /\ Write(e, c, [phase |-> "failed", attempt |-> a])
               /\ Thread(e, c, "error") /\ UNCHANGED <<attempts, held>>
    /\ UNCHANGED <<lease, run, pc, cancelled, plans, phase, target, gen, genMeta, pending,
                   exchanged, settled, effect, faults>>

\* The rows are streamed and read back; the last lease check precedes the receipt.
LoadChunk(e, c) ==
    /\ threads[e][c].step = "load" /\ Checked(e)
    /\ SetAttempt(e, c, "whole")
    /\ Thread(e, c, "receipt")
    /\ UNCHANGED <<held, run, pc, cancelled, store, target, gen, genMeta, pending,
                   exchanged, settled, effect, faults>>

\* The insert fails or its reply is lost, all rows written or not: no receipt, and
\* the chunk looks again.
LoseChunk(e, c) ==
    /\ threads[e][c].step = "load"
    /\ faults < MaxFaults /\ faults' = faults + 1
    /\ \E state \in {"partial", "whole"} : SetAttempt(e, c, state)
    /\ held' = 0
    /\ Thread(e, c, "inspect")
    /\ UNCHANGED <<run, pc, cancelled, store, target, gen, genMeta, pending,
                   exchanged, settled, effect>>

\* The receipt is written to its file without a further lease check.
SaveReceipt(e, c) ==
    /\ threads[e][c].step = "receipt"
    /\ SetAttempt(e, c, "verified")
    /\ held' = 0
    /\ Thread(e, c, "verify")
    /\ UNCHANGED <<run, pc, cancelled, store, target, gen, genMeta, pending,
                   exchanged, settled, effect, faults>>

\* The staged attempt is read back once more and journalled.
VerifyChunk(e, c) ==
    LET a == threads[e][c].attempt IN
    /\ threads[e][c].step = "verify" /\ Live(e) /\ held = 0
    /\ IF HasReceipt(run[e], c, a)
       THEN Write(e, c, [phase |-> "verified", attempt |-> a]) /\ Thread(e, c, "done")
       ELSE Write(e, c, [phase |-> "failed", attempt |-> a]) /\ Thread(e, c, "error")
    /\ UNCHANGED <<lease, held, run, pc, cancelled, plans, phase, table, effect, faults>>

\* Mutant of StopChunk: the guard is not released when the stream is stopped.
StopHolding(e, c) ==
    LET a == threads[e][c].attempt IN
    /\ threads[e][c].step = "load" /\ ~Checked(e)
    /\ IF Live(e) THEN Write(e, c, [phase |-> "failed", attempt |-> a]) ELSE UNCHANGED chunks
    /\ Thread(e, c, "error")
    /\ UNCHANGED <<lease, held, run, pc, cancelled, plans, phase, table, effect, faults>>

\* A check in the row stream refuses: a contract error, which the chunk records as
\* terminal while its lease still lets it write.
StopChunk(e, c) ==
    LET a == threads[e][c].attempt IN
    /\ threads[e][c].step = "load" /\ ~Checked(e)
    /\ IF Live(e) THEN Write(e, c, [phase |-> "failed", attempt |-> a]) ELSE UNCHANGED chunks
    /\ held' = 0
    /\ Thread(e, c, "error")
    /\ UNCHANGED <<lease, run, pc, cancelled, plans, phase, table, effect, faults>>

\* Any other thread step whose check refuses just raises.
RefuseChunk(e, c) ==
    /\ \/ threads[e][c].step \in {"inspect", "discard"} /\ ~Checked(e)
       \/ threads[e][c].step \in {"write", "stage", "verify"} /\ ~Live(e)
    /\ Thread(e, c, "error")
    /\ UNCHANGED <<held, run, pc, cancelled, store, table, effect, faults>>

\* The rows leave the chunk's bounds, or their read-back is not what was sent: a
\* contract error, which _chunk records as terminal.
RejectChunk(e, c) ==
    /\ threads[e][c].step \in {"stage", "load", "verify"} /\ Live(e)
    /\ faults < MaxFaults /\ faults' = faults + 1
    /\ Write(e, c, [phase |-> "failed", attempt |-> threads[e][c].attempt])
    /\ held' = IF threads[e][c].step = "load" THEN 0 ELSE held
    /\ Thread(e, c, "error")
    /\ UNCHANGED <<lease, run, pc, cancelled, plans, phase, table, effect>>

\* An error nobody classified (driver, file system): the record stays "staging".
BreakChunk(e, c) ==
    /\ threads[e][c].step \in {"write", "stage", "load", "receipt", "verify", "discard", "inspect"}
    /\ faults < MaxFaults /\ faults' = faults + 1
    /\ held' = IF threads[e][c].step \in {"load", "receipt"} THEN 0 ELSE held
    /\ Thread(e, c, "error")
    /\ UNCHANGED <<run, pc, cancelled, store, table, effect>>

\* _chunks sees a failed future: it cancels the others, and the pool joins them.
ChunksFail(e) ==
    /\ pc[e] = "chunks"
    /\ \E c \in Chunks : threads[e][c].step = "error"
    /\ cancelled' = cancelled \cup {e}
    /\ Goto(e, "joining")
    /\ UNCHANGED <<held, run, threads, store, table, effect, faults>>

JoinChunks(e) ==
    /\ pc[e] = "joining" /\ Running(e) = {}
    /\ Goto(e, "release")
    /\ UNCHANGED <<held, run, cancelled, threads, store, table, effect, faults>>

ChunksDone(e) ==
    /\ pc[e] = "chunks"
    /\ \A c \in Chunks : threads[e][c].step = "done"
    /\ Goto(e, "prepare")
    /\ UNCHANGED <<held, run, cancelled, threads, store, table, effect, faults>>

(***************************************************************************)
(* Preparation and publication.                                            *)
(***************************************************************************)

Receipts(e) == [c \in Chunks |-> threads[e][c].attempt]

RunsIn(rows) == [w \in Windows |-> rows[w].run]

\* _inspect_publication: which of the two UUIDs each name has.
Status(r) ==
    LET meta == genMeta[r] IN
    CASE meta = NoMeta -> "unknown"
      [] target.uuid = meta.prepared /\ gen[r].uuid = meta.original -> "published"
      [] target.uuid = meta.original /\ gen[r].uuid = meta.prepared -> "absent"
      [] OTHER -> "unknown"

\* An inspection that finds the run published removes the run's own marker.
Settle(r) ==
    /\ pending' = IF pending = r THEN NoRun ELSE pending
    /\ settled' = settled \cup {r}

\* prepare with earlier metadata: reuse the generation, unless its place is unclear.
ReusePrepared(e) ==
    LET r == run[e] IN
    /\ pc[e] = "prepare" /\ Checked(e) /\ held = 0
    /\ genMeta[r] # NoMeta
    /\ IF genMeta[r].receipts = Receipts(e) /\ Status(r) # "unknown"
       THEN Goto(e, "intend") ELSE Goto(e, "release")
    /\ IF genMeta[r].receipts = Receipts(e) /\ Status(r) = "published"
       THEN Settle(r) ELSE UNCHANGED <<pending, settled>>
    /\ UNCHANGED <<held, run, cancelled, threads, store, attempts, target, gen, genMeta,
                   exchanged, effect, faults>>

\* prepare from scratch: drop, create, copy what is outside the window, add every
\* chunk whose receipt still stands.
Prepare(e) ==
    LET r == run[e]
        staged == {c \in Chunks : HasReceipt(r, c, Receipts(e)[c])}
        rows == [run |-> r, whole |-> \A c \in Chunks :
                     attempts[r][c][Receipts(e)[c]] \in {"whole", "verified"}] IN
    /\ pc[e] = "prepare" /\ Checked(e) /\ held = 0
    /\ genMeta[r] = NoMeta
    /\ IF staged = Chunks
       THEN /\ gen' = [gen EXCEPT ![r] =
                  [uuid |-> e, rows |-> [target.rows EXCEPT ![WindowOf[r]] = rows]]]
            /\ held' = e /\ Goto(e, "prepared")
       ELSE Goto(e, "release") /\ UNCHANGED <<gen, held>>
    /\ UNCHANGED <<run, cancelled, threads, store, attempts, target, genMeta, pending,
                   exchanged, settled, effect, faults>>

\* The parity of the whole generation holds: its metadata is saved.
SavePrepared(e) ==
    LET r == run[e] IN
    /\ pc[e] = "prepared"
    /\ genMeta' = [genMeta EXCEPT ![r] =
          [original |-> target.uuid, prepared |-> gen[r].uuid,
           base |-> RunsIn(target.rows), receipts |-> Receipts(e)]]
    /\ held' = 0
    /\ Goto(e, "intend")
    /\ UNCHANGED <<run, cancelled, threads, store, attempts, target, gen, pending,
                   exchanged, settled, effect, faults>>

\* The intent to publish is journalled before the exchange.
RecordIntent(e) ==
    /\ pc[e] = "intend" /\ Live(e)
    /\ phase' = [phase EXCEPT ![run[e]] = "publishing"]
    /\ Goto(e, "publish")
    /\ UNCHANGED <<lease, held, run, cancelled, threads, plans, chunks, table, effect, faults>>

\* publish up to the last comparison: the target is still the table, with the rows,
\* that the generation was built from.
Publish(e) ==
    LET r == run[e] IN
    /\ pc[e] = "publish" /\ Checked(e) /\ held = 0
    /\ CASE Status(r) = "published" ->
               Settle(r) /\ Goto(e, "confirm") /\ UNCHANGED held
         [] Status(r) = "absent" /\ RunsIn(target.rows) = genMeta[r].base ->
               held' = e /\ Goto(e, "mark") /\ UNCHANGED <<pending, settled>>
         [] OTHER ->
               Goto(e, "confirm") /\ UNCHANGED <<held, pending, settled>>
    /\ UNCHANGED <<run, cancelled, threads, store, attempts, target, gen, genMeta,
                   exchanged, effect, faults>>

\* The pending marker is saved, whatever it held, without a further lease check.
MarkPending(e) ==
    /\ pc[e] = "mark"
    /\ pending' = run[e]
    /\ Goto(e, "exchange")
    /\ UNCHANGED <<held, run, cancelled, threads, store, attempts, target, gen, genMeta,
                   exchanged, settled, effect, faults>>

Swap(r) ==
    /\ target' = gen[r]
    /\ gen' = [gen EXCEPT ![r] = target]
    /\ exchanged' = exchanged \cup {r}

\* EXCHANGE TABLES acknowledged; lost after it was applied; or refused.
Exchange(e) ==
    /\ pc[e] = "exchange" /\ Live(e)
    /\ Swap(run[e])
    /\ Goto(e, "settle")
    /\ UNCHANGED <<held, run, cancelled, threads, store, attempts, genMeta, pending,
                   settled, effect, faults>>

LoseReply(e) ==
    /\ pc[e] = "exchange" /\ Live(e)
    /\ faults < MaxFaults /\ faults' = faults + 1
    /\ Swap(run[e])
    /\ held' = 0
    /\ Goto(e, "confirm")
    /\ UNCHANGED <<run, cancelled, threads, store, attempts, genMeta, pending, settled, effect>>

\* The acknowledged exchange is inspected under the same hold.
SettleExchange(e) ==
    LET r == run[e] IN
    /\ pc[e] = "settle"
    /\ IF Status(r) = "published" THEN Settle(r) ELSE UNCHANGED <<pending, settled>>
    /\ held' = 0
    /\ Goto(e, "confirm")
    /\ UNCHANGED <<run, cancelled, threads, store, attempts, target, gen, genMeta,
                   exchanged, effect, faults>>

\* Mutant of Confirm: an exchange observed as absent passes for published.
ConfirmUnlessUnknown(e) ==
    LET r == run[e] IN
    /\ pc[e] = "confirm" /\ Live(e) /\ held = 0
    /\ IF Status(r) # "unknown"
       THEN Settle(r) /\ Goto(e, "published")
       ELSE Goto(e, "release") /\ UNCHANGED <<pending, settled>>
    /\ UNCHANGED <<held, run, cancelled, threads, store, attempts, target, gen, genMeta,
                   exchanged, effect, faults>>

\* recover_publication: go on only when the target proves the publication.
Confirm(e) ==
    LET r == run[e] IN
    /\ pc[e] = "confirm" /\ Live(e) /\ held = 0
    /\ IF Status(r) = "published"
       THEN Settle(r) /\ Goto(e, "published")
       ELSE Goto(e, "release") /\ UNCHANGED <<pending, settled>>
    /\ UNCHANGED <<held, run, cancelled, threads, store, attempts, target, gen, genMeta,
                   exchanged, effect, faults>>

\* "published" is journalled; a run that had succeeded is just reported again.
RecordPublished(e) ==
    LET r == run[e] IN
    /\ pc[e] = "published" /\ Checked(e)
    /\ IF phase[r] = "succeeded"
       THEN Goto(e, "release") /\ UNCHANGED phase
       ELSE phase' = [phase EXCEPT ![r] = "published"] /\ Goto(e, "evidence")
    /\ UNCHANGED <<lease, held, run, cancelled, threads, plans, chunks, table, effect, faults>>

\* The injected callbacks fence their own write.
WriteEvidence(e) ==
    /\ pc[e] = "evidence" /\ Checked(e)
    /\ evidenced' = evidenced \cup {run[e]}
    /\ Goto(e, "evidenced")
    /\ UNCHANGED <<held, run, cancelled, threads, store, table, advanced, faults>>

RecordEvidence(e) ==
    /\ pc[e] = "evidenced" /\ Live(e)
    /\ phase' = [phase EXCEPT ![run[e]] = "evidence-complete"]
    /\ Goto(e, "advance")
    /\ UNCHANGED <<lease, held, run, cancelled, threads, plans, chunks, table, effect, faults>>

AdvanceState(e) ==
    /\ pc[e] = "advance" /\ Checked(e)
    /\ advanced' = advanced \cup {run[e]}
    /\ Goto(e, "advanced")
    /\ UNCHANGED <<held, run, cancelled, threads, store, table, evidenced, faults>>

RecordSucceeded(e) ==
    /\ pc[e] = "advanced" /\ Live(e)
    /\ phase' = [phase EXCEPT ![run[e]] = "succeeded"]
    /\ Goto(e, "release")
    /\ UNCHANGED <<lease, held, run, cancelled, threads, plans, chunks, table, effect, faults>>

(***************************************************************************)
(* Failures.                                                               *)
(***************************************************************************)

Unwound(e) == IF pc[e] \in PublishSteps THEN "confirm" ELSE "release"

MainHolds(e) == held = e /\ pc[e] \in {"prepared", "mark", "exchange", "settle"}

\* A lease check of a call raises, or the _check before it, which nothing reconciles.
Refuse(e) ==
    /\ \/ /\ \/ pc[e] \in {"begin", "validate", "prepared", "intend", "publish", "exchange",
                           "confirm", "evidenced", "advanced"}
             \/ pc[e] = "read" /\ phase[run[e]] = "none"
          /\ ~Live(e)
          /\ Goto(e, Unwound(e))
       \/ /\ pc[e] \in {"prepare", "publish", "published", "evidence", "advance"}
          /\ ~Checked(e)
          /\ Goto(e, "release")
    /\ held' = IF MainHolds(e) THEN 0 ELSE held
    /\ UNCHANGED <<run, cancelled, threads, store, table, effect, faults>>

\* Any other exception of a call of the main thread: the source is gone, the
\* connector or a callback fails, the EXCHANGE is refused.
Break(e) ==
    /\ pc[e] \in {"begin", "validate", "read", "prepare", "prepared", "intend", "publish", "mark", "exchange",
                  "settle", "confirm", "published", "evidence", "evidenced", "advance", "advanced"}
    /\ faults < MaxFaults /\ faults' = faults + 1
    /\ held' = IF MainHolds(e) THEN 0 ELSE held
    /\ Goto(e, Unwound(e))
    /\ UNCHANGED <<run, cancelled, threads, store, table, effect>>

\* The process dies.  The guard joins what it had in flight.
Crash(e) ==
    /\ pc[e] \notin {"unused", "done", "dead"}
    /\ faults < MaxFaults /\ faults' = faults + 1
    /\ held' = IF held = e THEN 0 ELSE held
    /\ Goto(e, "dead") /\ Forget(e)
    /\ UNCHANGED <<run, store, table, effect>>

(***************************************************************************)
(* The specification.                                                      *)
(***************************************************************************)

ChunkStep(e, c) ==
    \/ StartChunk(e, c)   \/ InspectChunk(e, c) \/ DiscardChunk(e, c) \/ WriteStaging(e, c)
    \/ StageChunk(e, c)   \/ LoadChunk(e, c)    \/ SaveReceipt(e, c)  \/ VerifyChunk(e, c)
    \/ StopChunk(e, c)    \/ RefuseChunk(e, c)

MainStep(e) ==
    \/ Begin(e)          \/ Validate(e)     \/ ReadRun(e)        \/ ChunksFail(e)
    \/ JoinChunks(e)     \/ ChunksDone(e)   \/ ReusePrepared(e)  \/ Prepare(e)
    \/ SavePrepared(e)   \/ RecordIntent(e) \/ Publish(e)        \/ MarkPending(e)
    \/ Exchange(e)       \/ SettleExchange(e) \/ Confirm(e)      \/ RecordPublished(e)
    \/ WriteEvidence(e)  \/ RecordEvidence(e) \/ AdvanceState(e) \/ RecordSucceeded(e)
    \/ Refuse(e)         \/ Release(e)

Fault(e) ==
    \/ Heartbeat(e) \/ LoseReply(e) \/ Break(e) \/ Crash(e)
    \/ \E c \in Chunks : LoseChunk(e, c) \/ RejectChunk(e, c) \/ BreakChunk(e, c)

Next ==
    \/ \E r \in Runs : Acquire(r)
    \/ Expire
    \/ \E e \in Execs :
          \/ MainStep(e)
          \/ \E c \in Chunks : ChunkStep(e, c)
          \/ Fault(e)

Spec == Init /\ [][Next]_vars

(***************************************************************************)
(* Threads are scheduled, an unrenewed lease runs out, and the scheduler   *)
(* starts again a run that has not succeeded.  No fault is assumed.        *)
(***************************************************************************)
FairSpec ==
    /\ Spec
    /\ \A e \in Execs : WF_vars(MainStep(e))
    /\ \A e \in Execs : \A c \in Chunks : WF_vars(ChunkStep(e, c))
    /\ WF_vars(lease.live /\ pc[lease.fence] = "dead" /\ Expire)
    /\ \A r \in Runs : WF_vars(phase[r] # "succeeded" /\ Acquire(r))

(***************************************************************************)
(* Properties.                                                             *)
(***************************************************************************)

Rows == [Windows -> [run : Runs \cup {NoRun}, whole : BOOLEAN]]

\* Every variable holds a value of its kind.
TypeOK ==
    /\ lease \in [fence : 0..MaxFence, live : BOOLEAN]
    /\ held \in 0..MaxFence
    /\ run \in [Execs -> Runs \cup {NoRun}]
    /\ pc \in [Execs -> MainSteps]
    /\ cancelled \subseteq Execs
    /\ threads \in [Execs -> [Chunks -> [step : ThreadSteps, attempt : Attempts, next : Attempts]]]
    /\ plans \subseteq Runs
    /\ phase \in [Runs -> Phases]
    /\ chunks \in [Runs -> [Chunks -> [phase : {"none", "staging", "verified", "failed"}, attempt : Attempts]]]
    /\ attempts \in [Runs -> [Chunks -> [Attempts -> {"absent", "partial", "whole", "verified"}]]]
    /\ target \in [uuid : 0..MaxFence, rows : Rows]
    /\ gen \in [Runs -> [uuid : -1..MaxFence, rows : Rows]]
    /\ genMeta \in [Runs -> [original : -1..MaxFence, prepared : -1..MaxFence,
                              base : [Windows -> Runs \cup {NoRun}],
                              receipts : [Chunks -> -1..LastAttempt]]]
    /\ pending \in Runs \cup {NoRun}
    /\ {evidenced, advanced, exchanged, settled} \subseteq SUBSET Runs
    /\ faults \in 0..MaxFaults

\* Nothing a run published is ever taken back: the only way a window of the target
\* changes is that a run of that window replaces it, once.  An EXCHANGE replayed
\* after a lost reply, or of a generation built from an older target, would put
\* earlier rows back.
NoPublicationIsUndone ==
    [][\A w \in Windows :
          target'.rows[w] # target.rows[w] =>
             /\ target'.rows[w].run \in Runs \ exchanged
             /\ WindowOf[target'.rows[w].run] = w]_vars

\* No run replaces the target while the exchange of another is still unproven: the
\* pending marker keeps the outcome readable until someone has read it.
NoExchangeIsBypassed ==
    [][target' # target => exchanged \subseteq settled]_vars

\* Source state moves on only for rows that are in the target and evidenced, even
\* when replies are lost, processes die, and others resume the run.
StateFollowsPublication == advanced \subseteq evidenced /\ evidenced \subseteq exchanged

\* Whatever fails and whoever resumes, the rows a window shows are all the rows of
\* its run, once: no attempt whose load was cut short reaches the target, and the
\* execution that may stage an attempt finds no table an earlier one left under
\* its name.
ChunksAreWholeAndLoadedOnce ==
    /\ \A w \in Windows : target.rows[w].whole
    /\ \A e \in Execs, c \in Chunks :
          threads[e][c].step = "stage" /\ Live(e) /\ held = 0
             => attempts[run[e]][c][threads[e][c].attempt] = "absent"

\* The guard, the pool and the lease never leave an execution waiting for good.
ExecutionsEnd ==
    \A e \in Execs : pc[e] # "unused" ~> pc[e] \in {"done", "dead"}

\* A run whose publication is journalled is brought to success by retrying it.
PublishedRunsComplete ==
    \A r \in Runs : phase[r] = "published" ~> phase[r] = "succeeded"

\* docs/rolling-window.md: after publication, evidence and state failures are
\* recovered by retrying the original invocation, which the target must prove.
PublishedIsRecoverable ==
    \A r \in Runs : phase[r] \in {"published", "evidence-complete"} => Status(r) = "published"
=============================================================================

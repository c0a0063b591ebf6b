------------------------ MODULE BoundedWindowProofs ------------------------
(***************************************************************************)
(* Proofs about bounded window executions, for every number of runs,       *)
(* windows, chunks, attempts and lease acquisitions.                       *)
(*                                                                         *)
(* A superseded execution goes on until a fenced step refuses it, so every *)
(* part of the invariant says which steps the lease fences, which ones the *)
(* guard's hold protects, and what neither does.                           *)
(***************************************************************************)
EXTENDS BoundedWindow, TLAPS

HoldSteps == {"prepared", "mark", "exchange", "settle"}
LoadSteps == {"load", "receipt"}
Early     == {"unused", "begin", "validate", "read", "chunks", "joining", "prepare"}
Admitted  == MainSteps \ {"unused", "begin", "validate", "release", "done", "dead"}
Published == {"published", "evidence", "evidenced", "advance", "advanced"}

Busy(e, c) == threads[e][c].step \notin {"idle", "done", "error"}
Record(e, c) == chunks[run[e]][c]
Attempt(e, c) == attempts[run[e]][c][threads[e][c].attempt]

\* Fences are handed out in order, and an execution that has one has a run.
LeaseInv ==
    /\ \A e \in Execs : pc[e] = "unused" <=> e > lease.fence
    /\ \A e \in Execs : pc[e] # "unused" => run[e] \in Runs
    /\ \A e \in Execs : pc[e] \notin {"chunks", "joining"} =>
          \A c \in Chunks : ~Busy(e, c)
    /\ \A e \in Execs : pc[e] \in {"unused", "begin", "validate", "read"} =>
          \A c \in Chunks : threads[e][c].step = "idle"

\* Who is in the middle of a call on the target holds the guard, alone.
HoldInv ==
    /\ \A e \in Execs : pc[e] \in HoldSteps => held = e
    /\ \A e \in Execs, c \in Chunks : threads[e][c].step \in LoadSteps => held = e
    /\ \A e \in Execs, c, d \in Chunks :
          threads[e][c].step \in LoadSteps /\ threads[e][d].step \in LoadSteps => c = d

\* Nothing is staged for an attempt that is not journalled.
JournalInv ==
    /\ \A r \in Runs, c \in Chunks :
          chunks[r][c].phase = "none" => chunks[r][c].attempt = 0
    /\ \A r \in Runs, c \in Chunks, a \in Attempts :
          a > chunks[r][c].attempt \/ chunks[r][c].phase = "none" =>
             attempts[r][c][a] = "absent"
    /\ \A e \in Execs, c \in Chunks : threads[e][c].step \in LoadSteps =>
          Record(e, c).phase # "none" /\ threads[e][c].attempt <= Record(e, c).attempt

\* The execution that has the lease works on the journalled attempt, and before it
\* stages an attempt nothing is there, nor is anyone about to put something there.
ThreadInv ==
    /\ \A e \in Execs, c \in Chunks :
          threads[e][c].step = "discard" => threads[e][c].next < threads[e][c].attempt
    /\ \A e \in Execs, c \in Chunks : Live(e) /\ Busy(e, c) =>
          /\ threads[e][c].attempt = Record(e, c).attempt
          /\ threads[e][c].step # "write" => Record(e, c).phase # "none"
    /\ \A e \in Execs, c \in Chunks :
          Live(e) /\ threads[e][c].step \in {"discard", "write", "stage"} =>
             /\ Attempt(e, c) = "absent"
             /\ \A f \in Execs \ {e} : run[f] = run[e] /\ threads[f][c].step \in LoadSteps
                   => threads[f][c].attempt # threads[e][c].attempt

\* Every table has its own UUID, that of the execution that created it, and only
\* whole rows.
TableInv ==
    /\ \A w \in Windows : target.rows[w].whole
    /\ \A r \in Runs, w \in Windows : gen[r].rows[w].whole
    /\ \A r \in Runs : gen[r].uuid # target.uuid
    /\ \A r, q \in Runs : gen[r].uuid = gen[q].uuid => r = q \/ gen[r].uuid = -1
    /\ \A e \in Execs : pc[e] \in Early =>
          target.uuid # e /\ \A r \in Runs : gen[r].uuid # e

\* A generation with metadata stands where it was built until its exchange, and
\* where the target was from then on.
GenerationInv ==
    /\ \A r \in Runs : genMeta[r] # NoMeta =>
          genMeta[r].original # genMeta[r].prepared /\ genMeta[r].prepared # -1
    /\ \A r \in exchanged : genMeta[r] # NoMeta /\ gen[r].uuid = genMeta[r].original
    /\ \A r \in Runs \ exchanged : genMeta[r] # NoMeta =>
          /\ gen[r].uuid = genMeta[r].prepared
          /\ gen[r].rows[WindowOf[r]].run = r
          /\ \A w \in Windows \ {WindowOf[r]} : gen[r].rows[w].run = genMeta[r].base[w]
    /\ \A e \in Execs : pc[e] = "prepared" =>
          /\ genMeta[run[e]] = NoMeta /\ gen[run[e]].uuid = e
          /\ gen[run[e]].rows[WindowOf[run[e]]].run = run[e]
          /\ \A w \in Windows \ {WindowOf[run[e]]} :
                gen[run[e]].rows[w].run = target.rows[w].run
    /\ \A e \in Execs : pc[e] \in {"mark", "exchange"} =>
          /\ genMeta[run[e]] # NoMeta /\ run[e] \notin exchanged
          /\ RunsIn(target.rows) = genMeta[run[e]].base
          /\ target.uuid = genMeta[run[e]].original

\* An exchange that nobody has read back yet has its run in the pending marker, and
\* the execution that has the lease found no other run there.
MarkerInv ==
    /\ exchanged \subseteq settled \cup {pending}
    /\ \A e \in Execs : Live(e) /\ pc[e] \in Admitted =>
          exchanged \subseteq settled \cup {run[e]}
    /\ \A e \in Execs : pc[e] \in {"mark", "exchange"} => exchanged \subseteq settled
    /\ \A e \in Execs : pc[e] = "exchange" => pending = run[e]

\* What follows the publication follows it.
EffectInv ==
    /\ advanced \subseteq evidenced /\ evidenced \subseteq exchanged
    /\ \A e \in Execs : pc[e] \in Published => run[e] \in exchanged
    /\ \A e \in Execs : pc[e] \in {"evidenced", "advance", "advanced"} =>
          run[e] \in evidenced

Inv == /\ TypeOK /\ LeaseInv /\ HoldInv /\ JournalInv /\ ThreadInv
       /\ TableInv /\ GenerationInv /\ MarkerInv /\ EffectInv

ThreadType  == [step : ThreadSteps, attempt : Attempts, next : Attempts]
RecordType  == [phase : {"none", "staging", "verified", "failed"}, attempt : Attempts]
AttemptType == {"absent", "partial", "whole", "verified"}

-----------------------------------------------------------------------------
(* Constants, updates and case distinctions *)

LEMMA ExecsAre ==
    /\ \A e \in Execs : e \in 0..MaxFence /\ e # 0 /\ e # -1 /\ e \in Int
    /\ 0 \notin Execs /\ 0 \in 0..MaxFence /\ 0 \in Attempts
    /\ \A a \in Attempts : a \in Nat
    /\ \A a \in Attempts : a # LastAttempt => a + 1 \in Attempts
  BY WindowAssumption DEF Execs, Attempts

LEMMA ThreadUpdate ==
    ASSUME TypeOK, NEW e \in Execs, NEW c \in Chunks, NEW t \in ThreadType,
           threads' = [threads EXCEPT ![e][c] = t]
    PROVE  /\ threads' \in [Execs -> [Chunks -> ThreadType]]
           /\ threads'[e][c] = t
           /\ \A f \in Execs, d \in Chunks :
                 f # e \/ d # c => threads'[f][d] = threads[f][d]
  <1>1. threads \in [Execs -> [Chunks -> ThreadType]]
    BY DEF TypeOK, ThreadType
  <1> QED
    BY <1>1

LEMMA StepUpdate ==
    ASSUME TypeOK, NEW e \in Execs, NEW c \in Chunks, NEW step \in ThreadSteps,
           Thread(e, c, step)
    PROVE  /\ threads' \in [Execs -> [Chunks -> ThreadType]]
           /\ threads'[e][c] \in ThreadType
           /\ threads'[e][c].step = step
           /\ threads'[e][c].attempt = threads[e][c].attempt
           /\ threads'[e][c].next = threads[e][c].next
           /\ \A f \in Execs, d \in Chunks :
                 f # e \/ d # c => threads'[f][d] = threads[f][d]
  <1>1. threads \in [Execs -> [Chunks -> ThreadType]] /\ threads[e][c] \in ThreadType
    BY DEF TypeOK, ThreadType
  <1> DEFINE t == [threads[e][c] EXCEPT !.step = step]
  <1>2. /\ t \in ThreadType /\ t.step = step /\ t.attempt = threads[e][c].attempt
        /\ t.next = threads[e][c].next
    BY <1>1 DEF ThreadType
  <1>3. threads' = [threads EXCEPT ![e][c] = t]
    BY <1>1 DEF Thread
  <1> HIDE DEF t
  <1> QED
    BY <1>2, <1>3, ThreadUpdate

LEMMA RecordUpdate ==
    ASSUME TypeOK, NEW e \in Execs, NEW c \in Chunks, NEW rec \in RecordType,
           run[e] \in Runs, Write(e, c, rec)
    PROVE  /\ chunks' \in [Runs -> [Chunks -> RecordType]]
           /\ chunks'[run[e]][c] = rec
           /\ \A r \in Runs, d \in Chunks :
                 r # run[e] \/ d # c => chunks'[r][d] = chunks[r][d]
  <1>1. chunks \in [Runs -> [Chunks -> RecordType]]
    BY DEF TypeOK, RecordType
  <1> QED
    BY <1>1 DEF Write

\* The table of attempt a of a chunk becomes this one.
PutAttempt(r, c, a, state) == attempts' = [attempts EXCEPT ![r][c][a] = state]

LEMMA AttemptUpdate ==
    ASSUME TypeOK, NEW r \in Runs, NEW c \in Chunks, NEW a \in Attempts,
           NEW state \in AttemptType,
           PutAttempt(r, c, a, state)
    PROVE  /\ attempts' \in [Runs -> [Chunks -> [Attempts -> AttemptType]]]
           /\ attempts'[r][c][a] = state
           /\ \A q \in Runs, d \in Chunks, b \in Attempts :
                 q # r \/ d # c \/ b # a => attempts'[q][d][b] = attempts[q][d][b]
  <1>1. attempts \in [Runs -> [Chunks -> [Attempts -> AttemptType]]]
    BY DEF TypeOK, AttemptType
  <1> QED
    BY <1>1 DEF PutAttempt

\* What a status says of the two names.
LEMMA StatusIs ==
    ASSUME TypeOK, NEW r \in Runs
    PROVE  /\ Status(r) = "published" =>
                 /\ genMeta[r] # NoMeta /\ target.uuid = genMeta[r].prepared
                 /\ gen[r].uuid = genMeta[r].original
           /\ Status(r) = "absent" =>
                 /\ genMeta[r] # NoMeta /\ target.uuid = genMeta[r].original
                 /\ gen[r].uuid = genMeta[r].prepared
  <1>1. CASE genMeta[r] = NoMeta
    <2>1. target.uuid # genMeta[r].prepared /\ target.uuid # genMeta[r].original
      BY <1>1, WindowAssumption DEF TypeOK, NoMeta
    <2>2. Status(r) = "unknown"
      BY <1>1, <2>1, Zenon DEF Status
    <2> QED
      BY <2>2
  <1>2. CASE genMeta[r] # NoMeta
    BY <1>2, Zenon DEF Status
  <1> QED
    BY <1>1, <1>2

-----------------------------------------------------------------------------
(* Steps of a main thread *)

\* Nobody gets the lease by a step of this kind, and no fence is handed out.
LeaseShrinks ==
    lease'.fence = lease.fence /\ \A f \in Execs : Live(f)' => Live(f)

\* Chunks and their threads do not notice a step of a main thread.
LEMMA ThreadsUnmoved ==
    ASSUME Inv, LeaseShrinks, UNCHANGED <<run, threads, chunks, attempts>>
    PROVE  JournalInv' /\ ThreadInv'
  <1>1. JournalInv'
    BY DEF Inv, JournalInv, Record
  <1>2. ThreadInv'
    BY DEF Inv, ThreadInv, Record, Attempt, Busy, LeaseShrinks
  <1> QED
    BY <1>1, <1>2

\* Where the main thread of e may go.
MovesOn(e, to) ==
    /\ pc' = [pc EXCEPT ![e] = to] /\ to \in MainSteps
    /\ pc[e] # "unused" /\ to # "unused"
    /\ to \in Early => pc[e] \in Early
    /\ to \in {"begin", "validate", "read"} => pc[e] \in {"begin", "validate", "read"}
    /\ pc[e] \in {"chunks", "joining"} /\ to \notin {"chunks", "joining"} =>
          \A c \in Chunks : ~Busy(e, c)

LEMMA PositionsMove ==
    ASSUME TypeOK, NEW e \in Execs, NEW to, MovesOn(e, to)
    PROVE  /\ pc'[e] = to /\ \A f \in Execs \ {e} : pc'[f] = pc[f]
           /\ pc' \in [Execs -> MainSteps]
  BY DEF TypeOK, MovesOn

LEMMA LeaseKept ==
    ASSUME Inv, NEW e \in Execs, NEW to, MovesOn(e, to), LeaseShrinks,
           UNCHANGED <<run, threads>>
    PROVE  LeaseInv'
  <1>1. pc'[e] = to /\ \A f \in Execs \ {e} : pc'[f] = pc[f]
    BY PositionsMove DEF Inv
  <1>2. \A f \in Execs : pc'[f] = "unused" <=> pc[f] = "unused"
    BY <1>1 DEF MovesOn
  <1>3. \A f \in Execs : pc'[f] \notin {"chunks", "joining"} =>
            \A c \in Chunks : ~Busy(f, c)'
    BY <1>1 DEF MovesOn, Inv, LeaseInv, Busy
  <1>4. \A f \in Execs : pc'[f] \in {"unused", "begin", "validate", "read"} =>
            \A c \in Chunks : threads'[f][c].step = "idle"
    BY <1>1 DEF MovesOn, Inv, LeaseInv
  <1> QED
    BY <1>2, <1>3, <1>4 DEF Inv, LeaseInv, LeaseShrinks

\* The guard is left alone, taken when free, or given back by its holder.
LEMMA HoldKept ==
    ASSUME Inv, NEW e \in Execs, NEW to, MovesOn(e, to), UNCHANGED threads,
           \/ held' = held
           \/ held' = e /\ held = 0
           \/ held' = 0 /\ pc[e] \in HoldSteps,
           to \in HoldSteps => held' = e
    PROVE  HoldInv'
  <1>1. pc'[e] = to /\ \A f \in Execs \ {e} : pc'[f] = pc[f]
    BY PositionsMove DEF Inv
  <1>2. \A f \in Execs : held = f => held' = f \/ (f = e /\ pc[e] \in HoldSteps)
    BY ExecsAre DEF Inv, HoldInv
  <1>3. \A f \in Execs : pc'[f] \in HoldSteps => held' = f
    BY <1>1, <1>2 DEF Inv, HoldInv
  <1>4. \A f \in Execs, c \in Chunks : threads[f][c].step \in LoadSteps => held' = f
    <2>1. \A f \in Execs, c \in Chunks : threads[f][c].step \in LoadSteps =>
              pc[f] \notin HoldSteps
      BY DEF Inv, LeaseInv, Busy, LoadSteps, HoldSteps
    <2> QED
      BY <1>2, <2>1 DEF Inv, HoldInv
  <1> QED
    BY <1>3, <1>4 DEF Inv, HoldInv

\* A step of e that leaves tables and generations alone.
LEMMA QuietMain ==
    ASSUME Inv, TypeOK', NEW e \in Execs, NEW to, MovesOn(e, to), LeaseShrinks,
           UNCHANGED <<run, threads, chunks, attempts, target, gen, genMeta, exchanged>>,
           \/ held' = held
           \/ held' = e /\ held = 0
           \/ held' = 0 /\ pc[e] \in HoldSteps,
           to \in HoldSteps => held' = e,
           to # "prepared",
           to \in {"mark", "exchange"} =>
              /\ genMeta[run[e]] # NoMeta /\ run[e] \notin exchanged
              /\ RunsIn(target.rows) = genMeta[run[e]].base
              /\ target.uuid = genMeta[run[e]].original
              /\ exchanged \subseteq settled',
           to = "exchange" => pending' = run[e],
           settled \subseteq settled',
           exchanged \subseteq settled' \cup {pending'},
           to \in Admitted /\ Live(e)' => exchanged \subseteq settled' \cup {run[e]},
           \A f \in Execs \ {e} : pc[f] = "exchange" => pending' = pending,
           evidenced \subseteq evidenced',
           advanced' \subseteq evidenced', evidenced' \subseteq exchanged,
           to \in Published => run[e] \in exchanged,
           to \in {"evidenced", "advance", "advanced"} => run[e] \in evidenced'
    PROVE  Inv'
  <1>1. pc'[e] = to /\ \A f \in Execs \ {e} : pc'[f] = pc[f]
    BY PositionsMove DEF Inv
  <1>2. LeaseInv' /\ HoldInv' /\ JournalInv' /\ ThreadInv'
    BY LeaseKept, HoldKept, ThreadsUnmoved
  <1>3. TableInv'
    <2>1. \A f \in Execs : pc'[f] \in Early => pc[f] \in Early
      BY <1>1 DEF MovesOn
    <2> QED
      BY <2>1 DEF Inv, TableInv
  <1>4. GenerationInv'
    <2>1. \A f \in Execs : pc'[f] = "prepared" => pc[f] = "prepared"
      BY <1>1
    <2>2. \A f \in Execs : pc'[f] \in {"mark", "exchange"} =>
              /\ genMeta[run[f]] # NoMeta /\ run[f] \notin exchanged
              /\ RunsIn(target.rows) = genMeta[run[f]].base
              /\ target.uuid = genMeta[run[f]].original
      BY <1>1 DEF Inv, GenerationInv
    <2>3. NoMeta' = NoMeta /\ RunsIn(target.rows)' = RunsIn(target.rows)
      BY DEF NoMeta, RunsIn
    <2> QED
      BY <2>1, <2>2, <2>3 DEF Inv, GenerationInv
  <1>5. MarkerInv'
    <2>1. \A f \in Execs : Live(f)' /\ pc'[f] \in Admitted =>
              exchanged \subseteq settled' \cup {run[f]}
      BY <1>1 DEF LeaseShrinks, Inv, MarkerInv
    <2>2. \A f \in Execs : pc'[f] \in {"mark", "exchange"} => exchanged \subseteq settled'
      BY <1>1 DEF Inv, MarkerInv
    <2>3. \A f \in Execs : pc'[f] = "exchange" => pending' = run[f]
      BY <1>1 DEF Inv, MarkerInv
    <2> QED
      BY <2>1, <2>2, <2>3 DEF MarkerInv
  <1>6. EffectInv'
    <2>1. \A f \in Execs : pc'[f] \in Published => run[f] \in exchanged
      BY <1>1 DEF Inv, EffectInv
    <2>2. \A f \in Execs : pc'[f] \in {"evidenced", "advance", "advanced"} =>
              run[f] \in evidenced'
      BY <1>1 DEF Inv, EffectInv
    <2> QED
      BY <2>1, <2>2 DEF EffectInv
  <1> QED
    BY <1>2, <1>3, <1>4, <1>5, <1>6 DEF Inv

\* A step of e that only moves e on.
LEMMA QuietPosition ==
    ASSUME Inv, TypeOK', NEW e \in Execs, NEW to, MovesOn(e, to), LeaseShrinks,
           UNCHANGED <<run, threads, chunks, table, effect>>,
           \/ held' = held
           \/ held' = 0 /\ pc[e] \in HoldSteps,
           to \notin HoldSteps,
           to \in Admitted => pc[e] \in Admitted,
           to \in Published => pc[e] \in Published,
           to \in {"evidenced", "advance", "advanced"} =>
              pc[e] \in {"evidenced", "advance", "advanced"}
    PROVE  Inv'
  <1>1. to \notin {"prepared", "mark", "exchange"}
    BY DEF HoldSteps
  <1>2. UNCHANGED <<attempts, target, gen, genMeta, pending, exchanged, settled,
                    evidenced, advanced>>
    BY DEF table, effect
  <1>3. /\ exchanged \subseteq settled \cup {pending}
        /\ advanced \subseteq evidenced /\ evidenced \subseteq exchanged
    BY DEF Inv, MarkerInv, EffectInv
  <1>4. to \in Admitted /\ Live(e)' => exchanged \subseteq settled \cup {run[e]}
    BY DEF LeaseShrinks, Inv, MarkerInv
  <1>5. /\ to \in Published => run[e] \in exchanged
        /\ to \in {"evidenced", "advance", "advanced"} => run[e] \in evidenced
    BY DEF Inv, EffectInv
  <1> QED
    BY <1>1, <1>2, <1>3, <1>4, <1>5, QuietMain

LEMMA BeginStep ==
    ASSUME Inv, NEW e \in Execs, Begin(e)
    PROVE  Inv'
  <1> DEFINE r == run[e]
  <1>1. PICK to \in {"validate", "release"} :
           /\ pc' = [pc EXCEPT ![e] = to]
           /\ \/ plans' = plans \cup {r} /\ UNCHANGED faults
              \/ faults < MaxFaults /\ faults' = faults + 1 /\ UNCHANGED plans
    BY DEF Begin, Goto
  <1>2. /\ pc[e] = "begin" /\ r \in Runs
        /\ UNCHANGED <<lease, held, run, cancelled, threads, phase, chunks, table, effect>>
    BY DEF Begin, Inv, LeaseInv
  <1>3. TypeOK'
    <2>1. pc' \in [Execs -> MainSteps]
      BY <1>1 DEF Inv, TypeOK, MainSteps
    <2>2. plans' \subseteq Runs
      BY <1>1, <1>2 DEF Inv, TypeOK
    <2>3. faults' \in 0..MaxFaults
      BY <1>1, WindowAssumption DEF Inv, TypeOK
    <2> QED
      BY <1>2, <2>1, <2>2, <2>3, Zenon DEF Inv, TypeOK, table, effect
  <1>4. MovesOn(e, to) /\ LeaseShrinks
    BY <1>1, <1>2 DEF MovesOn, LeaseShrinks, Live, Early, MainSteps
  <1> QED
    BY <1>1, <1>2, <1>3, <1>4, QuietPosition DEF HoldSteps, Admitted, Published

LEMMA ReadRunStep ==
    ASSUME Inv, NEW e \in Execs, ReadRun(e)
    PROVE  Inv'
  <1>1. PICK to \in {"chunks", "confirm"} :
           /\ pc' = [pc EXCEPT ![e] = to]
           /\ phase' = phase \/ phase' = [phase EXCEPT ![run[e]] = "planned"]
    BY DEF ReadRun, Goto
  <1>2. /\ pc[e] = "read"
        /\ UNCHANGED <<lease, held, run, cancelled, threads, plans, chunks, table, effect, faults>>
    BY DEF ReadRun
  <1>3. TypeOK'
    <2>1. pc' \in [Execs -> MainSteps]
      BY <1>1 DEF Inv, TypeOK, MainSteps
    <2>2. phase' \in [Runs -> Phases]
      BY <1>1 DEF Inv, TypeOK, Phases
    <2> QED
      BY <1>2, <2>1, <2>2, Zenon DEF Inv, TypeOK, table, effect
  <1>4. MovesOn(e, to) /\ LeaseShrinks
    BY <1>1, <1>2 DEF MovesOn, LeaseShrinks, Live, Early, MainSteps
  <1> QED
    BY <1>1, <1>2, <1>3, <1>4, QuietPosition DEF HoldSteps, Admitted, Published, MainSteps

LEMMA ChunksFailStep ==
    ASSUME Inv, NEW e \in Execs, ChunksFail(e)
    PROVE  Inv'
  <1>1. /\ pc[e] = "chunks" /\ pc' = [pc EXCEPT ![e] = "joining"]
        /\ cancelled' = cancelled \cup {e}
        /\ UNCHANGED <<held, run, threads, store, table, effect, faults>>
    BY DEF ChunksFail, Goto
  <1>2. UNCHANGED <<lease, plans, phase, chunks>>
    BY <1>1 DEF store
  <1>3. TypeOK'
    <2>1. pc' \in [Execs -> MainSteps]
      BY <1>1 DEF Inv, TypeOK, MainSteps
    <2>2. cancelled' \subseteq Execs
      BY <1>1 DEF Inv, TypeOK
    <2> QED
      BY <1>1, <1>2, <2>1, <2>2, Zenon DEF Inv, TypeOK, table, effect
  <1>4. MovesOn(e, "joining") /\ LeaseShrinks
    BY <1>1, <1>2 DEF MovesOn, LeaseShrinks, Live, Early, MainSteps
  <1> QED
    BY <1>1, <1>2, <1>3, <1>4, QuietPosition DEF HoldSteps, Admitted, Published, MainSteps

LEMMA JoinChunksStep ==
    ASSUME Inv, NEW e \in Execs, JoinChunks(e)
    PROVE  Inv'
  <1>1. /\ pc[e] = "joining" /\ pc' = [pc EXCEPT ![e] = "release"] /\ Running(e) = {}
        /\ UNCHANGED <<held, run, cancelled, threads, store, table, effect, faults>>
    BY DEF JoinChunks, Goto
  <1>2. UNCHANGED <<lease, plans, phase, chunks>>
    BY <1>1 DEF store
  <1>3. TypeOK'
    <2>1. pc' \in [Execs -> MainSteps]
      BY <1>1 DEF Inv, TypeOK, MainSteps
    <2> QED
      BY <1>1, <1>2, <2>1, Zenon DEF Inv, TypeOK, table, effect
  <1>4. MovesOn(e, "release") /\ LeaseShrinks
    BY <1>1, <1>2 DEF MovesOn, LeaseShrinks, Live, Early, MainSteps, Running, Busy
  <1> QED
    BY <1>1, <1>2, <1>3, <1>4, QuietPosition DEF HoldSteps, Admitted, Published

LEMMA ChunksDoneStep ==
    ASSUME Inv, NEW e \in Execs, ChunksDone(e)
    PROVE  Inv'
  <1>1. /\ pc[e] = "chunks" /\ pc' = [pc EXCEPT ![e] = "prepare"]
        /\ \A c \in Chunks : threads[e][c].step = "done"
        /\ UNCHANGED <<held, run, cancelled, threads, store, table, effect, faults>>
    BY DEF ChunksDone, Goto
  <1>2. UNCHANGED <<lease, plans, phase, chunks>>
    BY <1>1 DEF store
  <1>3. TypeOK'
    <2>1. pc' \in [Execs -> MainSteps]
      BY <1>1 DEF Inv, TypeOK, MainSteps
    <2> QED
      BY <1>1, <1>2, <2>1, Zenon DEF Inv, TypeOK, table, effect
  <1>4. MovesOn(e, "prepare") /\ LeaseShrinks
    BY <1>1, <1>2 DEF MovesOn, LeaseShrinks, Live, Early, MainSteps, Busy
  <1> QED
    BY <1>1, <1>2, <1>3, <1>4, QuietPosition DEF HoldSteps, Admitted, Published, MainSteps

\* RecordIntent, RecordPublished, RecordEvidence, RecordSucceeded: the journal's
\* "run" record is written.
LEMMA RecordStep ==
    ASSUME Inv, NEW e \in Execs,
           RecordIntent(e) \/ RecordPublished(e) \/ RecordEvidence(e) \/ RecordSucceeded(e)
    PROVE  Inv'
  <1>1. PICK to \in {"publish", "release", "evidence", "advance"} :
           /\ pc' = [pc EXCEPT ![e] = to]
           /\ phase' = phase \/ \E p \in Phases : phase' = [phase EXCEPT ![run[e]] = p]
           /\ pc[e] \in {"intend", "published", "evidenced", "advanced"}
           /\ to \in Published => pc[e] \in Published
           /\ to = "advance" => pc[e] = "evidenced"
    BY DEF RecordIntent, RecordPublished, RecordEvidence, RecordSucceeded, Goto, Phases, Published
  <1>2. UNCHANGED <<lease, held, run, cancelled, threads, plans, chunks, table, effect, faults>>
    BY DEF RecordIntent, RecordPublished, RecordEvidence, RecordSucceeded
  <1>3. TypeOK'
    <2>1. pc' \in [Execs -> MainSteps]
      BY <1>1 DEF Inv, TypeOK, MainSteps
    <2>2. phase' \in [Runs -> Phases]
      BY <1>1 DEF Inv, TypeOK
    <2> QED
      BY <1>2, <2>1, <2>2, Zenon DEF Inv, TypeOK, table, effect
  <1>4. MovesOn(e, to) /\ LeaseShrinks
    BY <1>1, <1>2 DEF MovesOn, LeaseShrinks, Live, Early, MainSteps
  <1>5. to \notin HoldSteps /\ (to \in Admitted => pc[e] \in Admitted)
    BY <1>1 DEF HoldSteps, Admitted, MainSteps
  <1> QED
    BY <1>1, <1>2, <1>3, <1>4, <1>5, QuietPosition

\* Refuse and Break: an exception unwinds the main thread, and gives the guard back
\* if the main thread had it.
LEMMA UnwindStep ==
    ASSUME Inv, NEW e \in Execs, Refuse(e) \/ Break(e)
    PROVE  Inv'
  <1>1. PICK to \in {"confirm", "release"} :
           pc' = [pc EXCEPT ![e] = to] /\ (to = "confirm" => pc[e] \in PublishSteps)
    BY Zenon DEF Refuse, Break, Goto, Unwound
  <1>2. /\ pc[e] \in {"begin", "validate", "read", "prepare", "prepared", "intend",
                      "publish", "mark", "exchange", "settle", "confirm", "published",
                      "evidence", "evidenced", "advance", "advanced"}
        /\ held' = IF MainHolds(e) THEN 0 ELSE held
        /\ faults' = faults \/ (faults < MaxFaults /\ faults' = faults + 1)
        /\ UNCHANGED <<run, cancelled, threads, store, table, effect>>
    BY DEF Refuse, Break
  <1>3. UNCHANGED <<lease, plans, phase, chunks>>
    BY <1>2 DEF store
  <1>4. TypeOK'
    <2>1. pc' \in [Execs -> MainSteps]
      BY <1>1, <1>2 DEF Inv, TypeOK, MainSteps
    <2>2. faults' \in 0..MaxFaults
      BY <1>2, WindowAssumption DEF Inv, TypeOK
    <2>3. held' \in 0..MaxFence
      BY <1>2, ExecsAre DEF Inv, TypeOK
    <2> QED
      BY <1>2, <1>3, <2>1, <2>2, <2>3, Zenon DEF Inv, TypeOK, table, effect
  <1>5. MovesOn(e, to) /\ LeaseShrinks
    BY <1>1, <1>2, <1>3 DEF MovesOn, LeaseShrinks, Live, Early, MainSteps
  <1>6. /\ to \notin HoldSteps /\ to \notin Published
        /\ to \notin {"evidenced", "advance", "advanced"}
        /\ to \in Admitted => pc[e] \in Admitted
    BY <1>1 DEF HoldSteps, Published, Admitted, MainSteps, PublishSteps
  <1>7. held' = held \/ (held' = 0 /\ pc[e] \in HoldSteps)
    BY <1>2 DEF MainHolds, HoldSteps
  <1> QED
    BY <1>1, <1>2, <1>3, <1>4, <1>5, <1>6, <1>7, QuietPosition

\* An inspection tells an exchange that happened from one that did not.
LEMMA InspectionIsTrue ==
    ASSUME Inv, NEW r \in Runs
    PROVE  /\ Status(r) = "published" => r \in exchanged
           /\ Status(r) = "absent" => r \notin exchanged
  <1>1. Status(r) = "published" => r \in exchanged
    BY StatusIs DEF Inv, GenerationInv, TableInv
  <1>2. Status(r) = "absent" => r \notin exchanged
    BY StatusIs DEF Inv, GenerationInv
  <1> QED
    BY <1>1, <1>2

LEMMA SettleKeeps ==
    ASSUME Inv, NEW r \in Runs, Settle(r)
    PROVE  /\ settled' = settled \cup {r} /\ settled' \subseteq Runs
           /\ pending' \in {pending, NoRun} /\ pending' \in Runs \cup {NoRun}
           /\ exchanged \subseteq settled' \cup {pending'}
  BY DEF Settle, Inv, TypeOK, MarkerInv

LEMMA ValidateStep ==
    ASSUME Inv, NEW e \in Execs, Validate(e)
    PROVE  Inv'
  <1>1. PICK to \in {"read", "release"} :
           /\ pc' = [pc EXCEPT ![e] = to]
           /\ to = "read" => pending \in {NoRun, run[e]}
    BY DEF Validate, Goto
  <1>2. /\ pc[e] = "validate"
        /\ UNCHANGED <<held, run, cancelled, threads, store, table, effect, faults>>
    BY DEF Validate
  <1>3. UNCHANGED <<lease, plans, phase, chunks, attempts, target, gen, genMeta, pending,
                    exchanged, settled, evidenced, advanced>>
    BY <1>2 DEF store, table, effect
  <1>4. TypeOK'
    <2>1. pc' \in [Execs -> MainSteps]
      BY <1>1 DEF Inv, TypeOK, MainSteps
    <2> QED
      BY <1>2, <1>3, <2>1, Zenon DEF Inv, TypeOK
  <1>5. MovesOn(e, to) /\ LeaseShrinks
    BY <1>1, <1>2, <1>3 DEF MovesOn, LeaseShrinks, Live, Early, MainSteps
  <1>6. to \in Admitted => exchanged \subseteq settled \cup {run[e]}
    <2>1. exchanged \subseteq settled \cup {pending} /\ exchanged \subseteq Runs
      BY DEF Inv, MarkerInv, TypeOK
    <2> QED
      BY <1>1, <2>1, WindowAssumption DEF Admitted
  <1>7. /\ exchanged \subseteq settled \cup {pending}
        /\ advanced \subseteq evidenced /\ evidenced \subseteq exchanged
    BY DEF Inv, MarkerInv, EffectInv
  <1> QED
    BY <1>1, <1>2, <1>3, <1>4, <1>5, <1>6, <1>7, QuietMain DEF HoldSteps, Published

\* An inspection under the guard that may settle the run: prepare with metadata,
\* publish, recover_publication and the inspection that follows an exchange.
LEMMA InspectingStep ==
    ASSUME Inv, NEW e \in Execs, NEW to \in {"intend", "release", "confirm", "published"},
           pc[e] \in {"prepare", "publish", "settle", "confirm"},
           pc' = [pc EXCEPT ![e] = to],
           held = 0 \/ held = e, held' = held \/ (held' = 0 /\ pc[e] = "settle"),
           \/ Status(run[e]) = "published" /\ Settle(run[e])
           \/ UNCHANGED <<pending, settled>> /\ to # "published",
           UNCHANGED <<run, cancelled, threads, store, attempts, target, gen, genMeta,
                       exchanged, effect, faults>>
    PROVE  Inv'
  <1>0. run[e] \in Runs
    BY DEF Inv, LeaseInv
  <1>1. UNCHANGED <<lease, plans, phase, chunks, evidenced, advanced>>
    BY DEF store, effect
  <1>2. /\ settled \subseteq settled' /\ settled' \subseteq Runs
        /\ pending' \in Runs \cup {NoRun}
        /\ exchanged \subseteq settled' \cup {pending'}
    BY <1>0, SettleKeeps DEF Inv, TypeOK, MarkerInv
  <1>3. TypeOK'
    <2>1. pc' \in [Execs -> MainSteps]
      BY DEF Inv, TypeOK, MainSteps
    <2>2. held' \in 0..MaxFence
      BY ExecsAre DEF Inv, TypeOK
    <2>3. {evidenced', advanced', exchanged', settled'} \subseteq SUBSET Runs
      BY <1>1, <1>2 DEF Inv, TypeOK
    <2> QED
      BY <1>1, <1>2, <2>1, <2>2, <2>3, Zenon DEF Inv, TypeOK
  <1>4. MovesOn(e, to) /\ LeaseShrinks
    BY <1>1 DEF MovesOn, LeaseShrinks, Live, Early, MainSteps
  <1>5. to \in Admitted /\ Live(e)' => exchanged \subseteq settled' \cup {run[e]}
    <2>1. Live(e)' => Live(e)
      BY <1>4 DEF LeaseShrinks
    <2>2. pc[e] \in Admitted
      BY DEF Admitted, MainSteps
    <2> QED
      BY <1>2, <2>1, <2>2 DEF Inv, MarkerInv
  <1>6. \A f \in Execs \ {e} : pc[f] # "exchange"
    BY ExecsAre DEF Inv, HoldInv, HoldSteps
  <1>7. to = "published" => run[e] \in exchanged
    BY <1>0, InspectionIsTrue
  <1>8. /\ advanced \subseteq evidenced /\ evidenced \subseteq exchanged
        /\ to \in Published => to = "published"
        /\ to \notin HoldSteps
        /\ held' = held \/ (held' = 0 /\ pc[e] \in HoldSteps)
    BY DEF Inv, EffectInv, Published, HoldSteps
  <1> QED
    BY <1>1, <1>2, <1>3, <1>4, <1>5, <1>6, <1>7, <1>8, QuietMain DEF HoldSteps

LEMMA ReusePreparedStep ==
    ASSUME Inv, NEW e \in Execs, ReusePrepared(e)
    PROVE  Inv'
  <1>1. PICK to \in {"intend", "release"} : pc' = [pc EXCEPT ![e] = to]
    BY DEF ReusePrepared, Goto
  <1>2. \/ Status(run[e]) = "published" /\ Settle(run[e])
        \/ UNCHANGED <<pending, settled>>
    BY DEF ReusePrepared
  <1> QED
    BY <1>1, <1>2, InspectingStep DEF ReusePrepared

LEMMA ConfirmStep ==
    ASSUME Inv, NEW e \in Execs, Confirm(e)
    PROVE  Inv'
  <1>1. \/ /\ Status(run[e]) = "published" /\ Settle(run[e])
           /\ pc' = [pc EXCEPT ![e] = "published"]
        \/ /\ UNCHANGED <<pending, settled>>
           /\ pc' = [pc EXCEPT ![e] = "release"]
    BY DEF Confirm, Goto
  <1> QED
    BY <1>1, InspectingStep DEF Confirm

LEMMA SettleExchangeStep ==
    ASSUME Inv, NEW e \in Execs, SettleExchange(e)
    PROVE  Inv'
  <1>1. \/ Status(run[e]) = "published" /\ Settle(run[e])
        \/ UNCHANGED <<pending, settled>>
    BY DEF SettleExchange
  <1>2. pc[e] = "settle" /\ pc' = [pc EXCEPT ![e] = "confirm"] /\ held' = 0 /\ held = e
    BY DEF SettleExchange, Goto, Inv, HoldInv, HoldSteps
  <1> QED
    BY <1>1, <1>2, InspectingStep DEF SettleExchange

\* publish takes the guard only for an exchange that has not happened.
LEMMA PublishStep ==
    ASSUME Inv, NEW e \in Execs, Publish(e)
    PROVE  Inv'
  <1> DEFINE r == run[e]
  <1>1. \/ /\ Status(r) = "published" /\ Settle(r)
           /\ pc' = [pc EXCEPT ![e] = "confirm"] /\ UNCHANGED held
        \/ /\ Status(r) = "absent" /\ RunsIn(target.rows) = genMeta[r].base
           /\ held' = e /\ pc' = [pc EXCEPT ![e] = "mark"] /\ UNCHANGED <<pending, settled>>
        \/ pc' = [pc EXCEPT ![e] = "confirm"] /\ UNCHANGED <<held, pending, settled>>
    BY Zenon DEF Publish, Goto
  <1>2. /\ pc[e] = "publish" /\ Live(e) /\ held = 0 /\ r \in Runs
        /\ UNCHANGED <<run, cancelled, threads, store, attempts, target, gen, genMeta,
                       exchanged, effect, faults>>
    BY DEF Publish, Checked, Inv, LeaseInv
  <1>3. CASE /\ Status(r) = "absent" /\ RunsIn(target.rows) = genMeta[r].base
             /\ held' = e /\ pc' = [pc EXCEPT ![e] = "mark"] /\ UNCHANGED <<pending, settled>>
    <2>1. UNCHANGED <<lease, plans, phase, chunks, evidenced, advanced>>
      BY <1>2 DEF store, effect
    <2>2. TypeOK'
      <3>1. pc' \in [Execs -> MainSteps]
        BY <1>3 DEF Inv, TypeOK, MainSteps
      <3>2. held' \in 0..MaxFence
        BY <1>3, ExecsAre
      <3> QED
        BY <1>2, <1>3, <2>1, <3>1, <3>2, Zenon DEF Inv, TypeOK
    <2>3. MovesOn(e, "mark") /\ LeaseShrinks
      BY <1>2, <1>3, <2>1 DEF MovesOn, LeaseShrinks, Live, Early, MainSteps
    <2>4. /\ genMeta[r] # NoMeta /\ r \notin exchanged
          /\ target.uuid = genMeta[r].original
      BY <1>2, <1>3, StatusIs, InspectionIsTrue DEF Inv
    <2>5. exchanged \subseteq settled
      <3>1. exchanged \subseteq settled \cup {r}
        BY <1>2 DEF Inv, MarkerInv, Admitted, MainSteps
      <3> QED
        BY <2>4, <3>1
    <2>6. advanced \subseteq evidenced /\ evidenced \subseteq exchanged
      BY DEF Inv, EffectInv
    <2> QED
      BY <1>2, <1>3, <2>1, <2>2, <2>3, <2>4, <2>5, <2>6, QuietMain DEF Published
  <1>4. CASE /\ Status(r) = "published" /\ Settle(r)
             /\ pc' = [pc EXCEPT ![e] = "confirm"] /\ UNCHANGED held
    BY <1>2, <1>4, InspectingStep
  <1>5. CASE pc' = [pc EXCEPT ![e] = "confirm"] /\ UNCHANGED <<held, pending, settled>>
    BY <1>2, <1>5, InspectingStep
  <1> QED
    BY <1>1, <1>3, <1>4, <1>5

LEMMA MarkPendingStep ==
    ASSUME Inv, NEW e \in Execs, MarkPending(e)
    PROVE  Inv'
  <1>1. /\ pc[e] = "mark" /\ pending' = run[e] /\ pc' = [pc EXCEPT ![e] = "exchange"]
        /\ UNCHANGED <<held, run, cancelled, threads, store, attempts, target, gen, genMeta,
                       exchanged, settled, effect, faults>>
    BY DEF MarkPending, Goto
  <1>2. /\ UNCHANGED <<lease, plans, phase, chunks, evidenced, advanced>>
        /\ run[e] \in Runs /\ held = e
    BY <1>1 DEF store, effect, Inv, LeaseInv, HoldInv, HoldSteps
  <1>3. TypeOK'
    <2>1. pc' \in [Execs -> MainSteps] /\ pending' \in Runs \cup {NoRun}
      BY <1>1, <1>2 DEF Inv, TypeOK, MainSteps
    <2> QED
      BY <1>1, <1>2, <2>1, Zenon DEF Inv, TypeOK
  <1>4. MovesOn(e, "exchange") /\ LeaseShrinks
    BY <1>1, <1>2 DEF MovesOn, LeaseShrinks, Live, Early, MainSteps
  <1>5. /\ genMeta[run[e]] # NoMeta /\ run[e] \notin exchanged
        /\ RunsIn(target.rows) = genMeta[run[e]].base
        /\ target.uuid = genMeta[run[e]].original
    BY <1>1 DEF Inv, GenerationInv
  <1>6. exchanged \subseteq settled
    BY <1>1 DEF Inv, MarkerInv
  <1>7. \A f \in Execs \ {e} : pc[f] # "exchange"
    BY <1>2 DEF Inv, HoldInv, HoldSteps
  <1>8. advanced \subseteq evidenced /\ evidenced \subseteq exchanged
    BY DEF Inv, EffectInv
  <1> QED
    BY <1>1, <1>2, <1>3, <1>4, <1>5, <1>6, <1>7, <1>8, QuietMain DEF Published

LEMMA EffectStep ==
    ASSUME Inv, NEW e \in Execs, WriteEvidence(e) \/ AdvanceState(e)
    PROVE  Inv'
  <1>1. PICK to \in {"evidenced", "advanced"} :
           /\ pc' = [pc EXCEPT ![e] = to]
           /\ pc[e] \in {"evidence", "advance"}
           /\ to = "evidenced" => /\ pc[e] = "evidence" /\ advanced' = advanced
                                  /\ evidenced' = evidenced \cup {run[e]}
           /\ to = "advanced" => /\ pc[e] = "advance" /\ evidenced' = evidenced
                                 /\ advanced' = advanced \cup {run[e]}
    BY DEF WriteEvidence, AdvanceState, Goto
  <1>2. UNCHANGED <<held, run, cancelled, threads, store, table, faults>>
    BY DEF WriteEvidence, AdvanceState
  <1>3. UNCHANGED <<lease, plans, phase, chunks, attempts, target, gen, genMeta, pending,
                    exchanged, settled>>
    BY <1>2 DEF store, table
  <1>4. /\ run[e] \in Runs /\ run[e] \in exchanged
        /\ pc[e] = "advance" => run[e] \in evidenced
    BY <1>1 DEF Inv, LeaseInv, EffectInv, Published
  <1>5. /\ advanced' \subseteq evidenced' /\ evidenced' \subseteq exchanged
        /\ evidenced \subseteq evidenced' /\ run[e] \in evidenced'
    BY <1>1, <1>4 DEF Inv, EffectInv
  <1>6. TypeOK'
    <2>1. pc' \in [Execs -> MainSteps]
      BY <1>1 DEF Inv, TypeOK, MainSteps
    <2>2. exchanged \subseteq Runs /\ settled \subseteq Runs
      BY DEF Inv, TypeOK
    <2>3. {evidenced', advanced', exchanged', settled'} \subseteq SUBSET Runs
      BY <1>3, <1>5, <2>2
    <2> QED
      BY <1>2, <1>3, <2>1, <2>3, Zenon DEF Inv, TypeOK
  <1>7. MovesOn(e, to) /\ LeaseShrinks
    BY <1>1, <1>2, <1>3 DEF MovesOn, LeaseShrinks, Live, Early, MainSteps
  <1>8. /\ exchanged \subseteq settled \cup {pending}
        /\ Live(e)' => exchanged \subseteq settled \cup {run[e]}
    BY <1>1, <1>7 DEF Inv, MarkerInv, Admitted, MainSteps, LeaseShrinks
  <1> QED
    BY <1>1, <1>2, <1>3, <1>4, <1>5, <1>6, <1>7, <1>8, QuietMain DEF HoldSteps

-----------------------------------------------------------------------------
(* The lease, and the end of an execution *)

LEMMA HeartbeatStep ==
    ASSUME Inv, NEW e \in Execs, Heartbeat(e)
    PROVE  Inv'
  <1>1. /\ pc[e] # "unused" /\ cancelled' = cancelled \cup {e}
        /\ faults' = faults \/ (faults < MaxFaults /\ faults' = faults + 1)
        /\ UNCHANGED <<held, run, pc, threads, store, table, effect>>
    BY DEF Heartbeat
  <1>2. UNCHANGED <<lease, plans, phase, chunks, attempts, target, gen, genMeta, pending,
                    exchanged, settled, evidenced, advanced>>
    BY <1>1 DEF store, table, effect
  <1>3. TypeOK'
    <2>1. faults' \in 0..MaxFaults
      BY <1>1, WindowAssumption DEF Inv, TypeOK
    <2>2. cancelled' \subseteq Execs
      BY <1>1 DEF Inv, TypeOK
    <2> QED
      BY <1>1, <1>2, <2>1, <2>2, Zenon DEF Inv, TypeOK
  <1>4. LeaseShrinks
    BY <1>2 DEF LeaseShrinks, Live
  <1>5. JournalInv' /\ ThreadInv'
    BY <1>1, <1>2, <1>4, ThreadsUnmoved
  <1>6. LeaseInv' /\ HoldInv'
    BY <1>1, <1>2 DEF Inv, LeaseInv, HoldInv, Busy
  <1>7. TableInv' /\ EffectInv'
    BY <1>1, <1>2 DEF Inv, TableInv, EffectInv
  <1>8. GenerationInv' /\ MarkerInv'
    BY <1>1, <1>2 DEF Inv, GenerationInv, MarkerInv, RunsIn, Live, NoMeta
  <1> QED
    BY <1>3, <1>5, <1>6, <1>7, <1>8 DEF Inv

LEMMA ExpireStep ==
    ASSUME Inv, Expire
    PROVE  Inv'
  <1>1. /\ lease' = [lease EXCEPT !.live = FALSE]
        /\ faults' = faults \/ (faults < MaxFaults /\ faults' = faults + 1)
        /\ UNCHANGED <<held, run, pc, cancelled, threads, plans, phase, chunks, table, effect>>
    BY DEF Expire
  <1>2. UNCHANGED <<attempts, target, gen, genMeta, pending, exchanged, settled,
                    evidenced, advanced>>
    BY <1>1 DEF table, effect
  <1>3. /\ lease' \in [fence : 0..MaxFence, live : BOOLEAN]
        /\ lease'.fence = lease.fence /\ lease'.live = FALSE
    BY <1>1 DEF Inv, TypeOK
  <1>4. TypeOK'
    <2>1. faults' \in 0..MaxFaults
      BY <1>1, WindowAssumption DEF Inv, TypeOK
    <2> QED
      BY <1>1, <1>2, <1>3, <2>1, Zenon DEF Inv, TypeOK
  <1>5. LeaseShrinks /\ \A f \in Execs : ~Live(f)'
    BY <1>3 DEF LeaseShrinks, Live
  <1>6. JournalInv' /\ ThreadInv'
    BY <1>1, <1>2, <1>5, ThreadsUnmoved
  <1>7. LeaseInv' /\ HoldInv'
    BY <1>1, <1>3 DEF Inv, LeaseInv, HoldInv, Busy
  <1>8. TableInv' /\ EffectInv'
    BY <1>1, <1>2 DEF Inv, TableInv, EffectInv
  <1>9. GenerationInv'
    BY <1>1, <1>2 DEF Inv, GenerationInv, RunsIn, NoMeta
  <1>10. MarkerInv'
    BY <1>1, <1>2, <1>5 DEF Inv, MarkerInv
  <1> QED
    BY <1>4, <1>6, <1>7, <1>8, <1>9, <1>10 DEF Inv

\* The next fence is that of an execution nobody has seen yet.
LEMMA AcquireStep ==
    ASSUME Inv, NEW r \in Runs, Acquire(r)
    PROVE  Inv'
  <1> DEFINE e == lease.fence + 1
  <1>0. /\ lease.fence \in 0..MaxFence /\ lease.fence < MaxFence
        /\ e \in Execs /\ e \in Int /\ lease.fence \in Int /\ ~lease.live
    BY WindowAssumption DEF Acquire, Inv, TypeOK, Execs
  <1>1. /\ lease' = [fence |-> e, live |-> TRUE]
        /\ run' = [run EXCEPT ![e] = r]
        /\ pc' = [pc EXCEPT ![e] = "begin"]
        /\ UNCHANGED <<held, cancelled, threads, plans, phase, chunks, table, effect, faults>>
    BY DEF Acquire, Goto
  <1>2. UNCHANGED <<attempts, target, gen, genMeta, pending, exchanged, settled,
                    evidenced, advanced>>
    BY <1>1 DEF table, effect
  <1>3. /\ lease'.fence = e /\ lease'.live = TRUE
        /\ lease' \in [fence : 0..MaxFence, live : BOOLEAN]
        /\ pc' \in [Execs -> MainSteps] /\ run' \in [Execs -> Runs \cup {NoRun}]
        /\ pc'[e] = "begin" /\ run'[e] = r
        /\ \A f \in Execs \ {e} : pc'[f] = pc[f] /\ run'[f] = run[f]
    BY <1>0, <1>1, ExecsAre DEF Inv, TypeOK, MainSteps
  <1>4. /\ pc[e] = "unused" /\ \A c \in Chunks : threads[e][c].step = "idle"
        /\ \A f \in Execs : Live(f)' => f = e
    <2>1. e > lease.fence
      BY <1>0
    <2> QED
      BY <1>0, <1>3, <2>1 DEF Inv, LeaseInv, Live
  <1> HIDE DEF e
  <1>5. TypeOK'
    BY <1>1, <1>2, <1>3, Zenon DEF Inv, TypeOK
  <1>6. LeaseInv'
    <2>1. \A f \in Execs : f > lease.fence <=> f = e \/ f > e
      BY <1>0 DEF Execs, e
    <2>2. ~(e > e)
      BY <1>0
    <2>3. \A f \in Execs : pc'[f] = "unused" <=> f > lease'.fence
      BY <1>0, <1>3, <2>1, <2>2 DEF Inv, LeaseInv
    <2>4. \A f \in Execs : pc'[f] # "unused" => run'[f] \in Runs
      BY <1>3 DEF Inv, LeaseInv
    <2>5. \A f \in Execs : pc'[f] \notin {"chunks", "joining"} =>
             \A c \in Chunks : ~Busy(f, c)'
      BY <1>1, <1>3, <1>4 DEF Inv, LeaseInv, Busy
    <2>6. \A f \in Execs : pc'[f] \in {"unused", "begin", "validate", "read"} =>
             \A c \in Chunks : threads'[f][c].step = "idle"
      BY <1>1, <1>3, <1>4 DEF Inv, LeaseInv
    <2> QED
      BY <2>3, <2>4, <2>5, <2>6 DEF LeaseInv
  <1>7. HoldInv'
    BY <1>1, <1>3 DEF Inv, HoldInv, HoldSteps
  <1>8. JournalInv'
    <2>1. \A f \in Execs, c \in Chunks : threads[f][c].step \in LoadSteps =>
             run'[f] = run[f]
      BY <1>3, <1>4 DEF LoadSteps
    <2> QED
      BY <1>1, <1>2, <2>1 DEF Inv, JournalInv, Record
  <1>9. ThreadInv'
    <2>1. \A f \in Execs, c \in Chunks : Live(f)' => threads'[f][c].step = "idle"
      BY <1>1, <1>4
    <2> QED
      BY <1>1, <2>1 DEF Inv, ThreadInv, Busy
  <1>10. TableInv'
    <2>1. \A f \in Execs : pc'[f] \in Early => pc[f] \in Early
      BY <1>3, <1>4 DEF Early
    <2> QED
      BY <1>2, <2>1 DEF Inv, TableInv
  <1>11. GenerationInv'
    <2>1. \A f \in Execs : pc'[f] \in {"prepared", "mark", "exchange"} =>
             pc[f] = pc'[f] /\ run'[f] = run[f]
      BY <1>3
    <2> QED
      BY <1>2, <2>1 DEF Inv, GenerationInv, RunsIn, NoMeta
  <1>12. MarkerInv'
    <2>1. \A f \in Execs : pc'[f] \in {"mark", "exchange"} =>
             pc[f] = pc'[f] /\ run'[f] = run[f]
      BY <1>3
    <2>2. \A f \in Execs : ~(Live(f)' /\ pc'[f] \in Admitted)
      BY <1>3, <1>4 DEF Admitted
    <2> QED
      BY <1>2, <2>1, <2>2 DEF Inv, MarkerInv
  <1>13. EffectInv'
    <2>1. \A f \in Execs : pc'[f] \in Published \cup {"evidenced", "advance", "advanced"} =>
             pc[f] = pc'[f] /\ run'[f] = run[f]
      BY <1>3 DEF Published
    <2> QED
      BY <1>2, <2>1 DEF Inv, EffectInv
  <1> QED
    BY <1>5, <1>6, <1>7, <1>8, <1>9, <1>10, <1>11, <1>12, <1>13 DEF Inv

\* An execution ends: released, or dead.  What it held is given back.
LEMMA ForgetStep ==
    ASSUME Inv, NEW e \in Execs, NEW to \in {"done", "dead"},
           pc[e] # "unused", pc' = [pc EXCEPT ![e] = to], Forget(e), TypeOK', LeaseShrinks,
           \A f \in Execs \ {e} : held = f => held' = f,
           UNCHANGED <<run, chunks, table, effect>>
    PROVE  Inv'
  <1>1. pc'[e] = to /\ \A f \in Execs \ {e} : pc'[f] = pc[f]
    BY DEF Inv, TypeOK
  <1>2. /\ \A c \in Chunks : threads'[e][c].step = "idle"
        /\ \A f \in Execs \ {e} : threads'[f] = threads[f]
    BY DEF Forget, Idle, Inv, TypeOK
  <1>3. UNCHANGED <<attempts, target, gen, genMeta, pending, exchanged, settled,
                    evidenced, advanced>>
    BY DEF table, effect
  <1>4. LeaseInv'
    <2>1. \A f \in Execs : pc'[f] = "unused" <=> f > lease'.fence
      BY <1>1 DEF Inv, LeaseInv, LeaseShrinks
    <2>2. \A f \in Execs : pc'[f] \notin {"chunks", "joining"} =>
             \A c \in Chunks : ~Busy(f, c)'
      BY <1>1, <1>2 DEF Inv, LeaseInv, Busy
    <2>3. \A f \in Execs : pc'[f] \in {"unused", "begin", "validate", "read"} =>
             \A c \in Chunks : threads'[f][c].step = "idle"
      BY <1>1, <1>2 DEF Inv, LeaseInv
    <2>4. \A f \in Execs : pc'[f] # "unused" => run'[f] \in Runs
      BY <1>1 DEF Inv, LeaseInv
    <2> QED
      BY <2>1, <2>2, <2>3, <2>4 DEF LeaseInv
  <1>5. HoldInv'
    <2>1. \A f \in Execs : pc'[f] \in HoldSteps => f # e /\ pc[f] = pc'[f]
      BY <1>1 DEF HoldSteps
    <2>2. \A f \in Execs, c \in Chunks : threads'[f][c].step \in LoadSteps =>
             f # e /\ threads'[f] = threads[f]
      BY <1>2 DEF LoadSteps
    <2> QED
      BY <2>1, <2>2 DEF Inv, HoldInv
  <1>6. JournalInv'
    <2>1. \A f \in Execs, c \in Chunks : threads'[f][c].step \in LoadSteps =>
             threads'[f] = threads[f]
      BY <1>2 DEF LoadSteps
    <2> QED
      BY <1>3, <2>1 DEF Inv, JournalInv, Record
  <1>7. ThreadInv'
    <2>1. \A f \in Execs, c \in Chunks :
             Busy(f, c)' => f # e /\ Busy(f, c) /\ threads'[f][c] = threads[f][c]
      BY <1>2 DEF Busy
    <2>2. \A f \in Execs, c \in Chunks :
             threads'[f][c].step \in {"discard", "write", "stage", "load", "receipt"} =>
                f # e /\ threads'[f][c] = threads[f][c]
      BY <1>2
    <2>3. \A f \in Execs, c \in Chunks : threads'[f][c].step = "discard" =>
             threads'[f][c].next < threads'[f][c].attempt
      BY <2>2 DEF Inv, ThreadInv
    <2>4. \A f \in Execs, c \in Chunks : Live(f)' /\ Busy(f, c)' =>
             /\ threads'[f][c].attempt = chunks'[run'[f]][c].attempt
             /\ threads'[f][c].step # "write" => chunks'[run'[f]][c].phase # "none"
      BY <2>1 DEF Inv, ThreadInv, Record, LeaseShrinks
    <2>5. \A f \in Execs, c \in Chunks :
             Live(f)' /\ threads'[f][c].step \in {"discard", "write", "stage"} =>
                /\ attempts'[run'[f]][c][threads'[f][c].attempt] = "absent"
                /\ \A g \in Execs \ {f} :
                      run'[g] = run'[f] /\ threads'[g][c].step \in LoadSteps
                         => threads'[g][c].attempt # threads'[f][c].attempt
      BY <1>3, <2>2 DEF Inv, ThreadInv, Attempt, LeaseShrinks, LoadSteps
    <2> QED
      BY <2>3, <2>4, <2>5 DEF ThreadInv, Record, Attempt
  <1>8. TableInv'
    <2>1. \A f \in Execs : pc'[f] \in Early => pc[f] \in Early
      BY <1>1 DEF Early
    <2> QED
      BY <1>3, <2>1 DEF Inv, TableInv
  <1>9. GenerationInv'
    <2>1. \A f \in Execs : pc'[f] \in {"prepared", "mark", "exchange"} => pc[f] = pc'[f]
      BY <1>1
    <2> QED
      BY <1>3, <2>1 DEF Inv, GenerationInv, RunsIn, NoMeta
  <1>10. MarkerInv'
    <2>1. \A f \in Execs : pc'[f] \in {"mark", "exchange"} => pc[f] = pc'[f]
      BY <1>1
    <2>2. \A f \in Execs : Live(f)' /\ pc'[f] \in Admitted => Live(f) /\ pc[f] \in Admitted
      BY <1>1 DEF Admitted, LeaseShrinks
    <2> QED
      BY <1>3, <2>1, <2>2 DEF Inv, MarkerInv
  <1>11. EffectInv'
    <2>1. \A f \in Execs : pc'[f] \in Published \cup {"evidenced", "advance", "advanced"} =>
             pc[f] = pc'[f]
      BY <1>1 DEF Published
    <2> QED
      BY <1>3, <2>1 DEF Inv, EffectInv
  <1> QED
    BY <1>4, <1>5, <1>6, <1>7, <1>8, <1>9, <1>10, <1>11 DEF Inv

LEMMA IdleThreads ==
    ASSUME TypeOK, NEW e \in Execs, Forget(e)
    PROVE  /\ threads' \in [Execs -> [Chunks -> ThreadType]]
           /\ cancelled' \subseteq Execs
  <1>1. Idle \in ThreadType
    BY ExecsAre DEF Idle, ThreadType, ThreadSteps
  <1>2. threads \in [Execs -> [Chunks -> ThreadType]]
    BY DEF TypeOK, ThreadType
  <1> QED
    BY <1>1, <1>2 DEF Forget, TypeOK

LEMMA ReleaseStep ==
    ASSUME Inv, NEW e \in Execs, Release(e)
    PROVE  Inv'
  <1>1. /\ pc[e] = "release" /\ pc' = [pc EXCEPT ![e] = "done"] /\ Forget(e)
        /\ lease' = [lease EXCEPT !.live = lease.live /\ lease.fence # e]
        /\ UNCHANGED <<held, run, plans, phase, chunks, table, effect, faults>>
    BY DEF Release, Goto
  <1>2. /\ lease' \in [fence : 0..MaxFence, live : BOOLEAN]
        /\ lease'.fence = lease.fence
        /\ lease'.live = (lease.live /\ lease.fence # e)
    <2>1. lease \in [fence : 0..MaxFence, live : BOOLEAN]
      BY DEF Inv, TypeOK
    <2>2. (lease.live /\ lease.fence # e) \in BOOLEAN
      OBVIOUS
    <2> QED
      BY <1>1, <2>1, <2>2
  <1>3. LeaseShrinks
    BY <1>2 DEF LeaseShrinks, Live
  <1>4. TypeOK'
    <2>1. pc' \in [Execs -> MainSteps]
      BY <1>1 DEF Inv, TypeOK, MainSteps
    <2> QED
      BY <1>1, <1>2, <2>1, IdleThreads, Zenon DEF Inv, TypeOK, table, effect, ThreadType
  <1> QED
    BY <1>1, <1>3, <1>4, ForgetStep

LEMMA CrashStep ==
    ASSUME Inv, NEW e \in Execs, Crash(e)
    PROVE  Inv'
  <1>1. /\ pc[e] # "unused" /\ pc' = [pc EXCEPT ![e] = "dead"] /\ Forget(e)
        /\ faults < MaxFaults /\ faults' = faults + 1
        /\ held' = IF held = e THEN 0 ELSE held
        /\ UNCHANGED <<run, store, table, effect>>
    BY DEF Crash, Goto
  <1>2. UNCHANGED <<lease, plans, phase, chunks>>
    BY <1>1 DEF store
  <1>3. LeaseShrinks
    BY <1>2 DEF LeaseShrinks, Live
  <1>4. TypeOK'
    <2>1. pc' \in [Execs -> MainSteps]
      BY <1>1 DEF Inv, TypeOK, MainSteps
    <2>2. held' \in 0..MaxFence
      BY <1>1, ExecsAre DEF Inv, TypeOK
    <2>3. faults' \in 0..MaxFaults
      BY <1>1, WindowAssumption DEF Inv, TypeOK
    <2> QED
      BY <1>1, <1>2, <2>1, <2>2, <2>3, IdleThreads, Zenon
         DEF Inv, TypeOK, table, effect, ThreadType
  <1> QED
    BY <1>1, <1>2, <1>3, <1>4, ExecsAre, ForgetStep

-----------------------------------------------------------------------------
(* Steps on the generation and the target *)

\* A generation built from scratch is a new table under a free name, of whole rows.
LEMMA PrepareStep ==
    ASSUME Inv, NEW e \in Execs, Prepare(e)
    PROVE  Inv'
  <1> DEFINE r == run[e]
             staged == {c \in Chunks : HasReceipt(r, c, Receipts(e)[c])}
             rows == [run |-> r, whole |-> \A c \in Chunks :
                         attempts[r][c][Receipts(e)[c]] \in {"whole", "verified"}]
             new == [uuid |-> e, rows |-> [target.rows EXCEPT ![WindowOf[r]] = rows]]
  <1>1. /\ pc[e] = "prepare" /\ Live(e) /\ held = 0 /\ genMeta[r] = NoMeta
        /\ UNCHANGED <<run, cancelled, threads, store, attempts, target, genMeta, pending,
                       exchanged, settled, effect, faults>>
    BY DEF Prepare, Checked
  <1>2. UNCHANGED <<lease, plans, phase, chunks, evidenced, advanced>>
    BY <1>1 DEF store, effect
  <1>3. r \in Runs /\ WindowOf[r] \in Windows /\ r \notin exchanged
    BY <1>1, WindowAssumption DEF Inv, LeaseInv, GenerationInv
  <1>4. CASE staged # Chunks
    <2>1. pc' = [pc EXCEPT ![e] = "release"] /\ UNCHANGED <<gen, held>>
      BY <1>4 DEF Prepare, Goto
    <2>2. TypeOK'
      <3>1. pc' \in [Execs -> MainSteps]
        BY <2>1 DEF Inv, TypeOK, MainSteps
      <3> QED
        BY <1>1, <1>2, <2>1, <3>1, Zenon DEF Inv, TypeOK
    <2>3. MovesOn(e, "release") /\ LeaseShrinks
      BY <1>1, <1>2, <2>1 DEF MovesOn, LeaseShrinks, Live, Early, MainSteps
    <2> QED
      BY <1>1, <1>2, <2>1, <2>2, <2>3, QuietPosition
         DEF HoldSteps, Admitted, Published, table, effect
  <1>5. CASE staged = Chunks
    <2>1. /\ gen' = [gen EXCEPT ![r] = new] /\ held' = e
          /\ pc' = [pc EXCEPT ![e] = "prepared"]
      BY <1>5 DEF Prepare, Goto
    <2>2. /\ target \in [uuid : 0..MaxFence, rows : Rows]
          /\ gen \in [Runs -> [uuid : -1..MaxFence, rows : Rows]]
          /\ target.rows \in Rows
      BY DEF Inv, TypeOK
    <2>3. rows.run = r /\ rows.whole = TRUE
      <3>1. \A c \in Chunks : attempts[r][c][Receipts(e)[c]] = "verified"
        BY <1>5 DEF HasReceipt
      <3> QED
        BY <3>1
    <2>4. rows \in [run : Runs \cup {NoRun}, whole : BOOLEAN]
      BY <1>3
    <2> HIDE DEF rows
    <2>5. /\ new.uuid = e /\ new.rows \in Rows /\ new.rows[WindowOf[r]] = rows
          /\ \A w \in Windows \ {WindowOf[r]} : new.rows[w] = target.rows[w]
          /\ new \in [uuid : -1..MaxFence, rows : Rows]
      <3>1. new.rows \in Rows
        BY <1>3, <2>2, <2>4 DEF Rows
      <3>2. e \in -1..MaxFence
        BY WindowAssumption DEF Execs
      <3> QED
        BY <1>3, <2>2, <3>1, <3>2 DEF Rows
    <2> HIDE DEF new
    <2>6. /\ gen' \in [Runs -> [uuid : -1..MaxFence, rows : Rows]]
          /\ gen'[r] = new /\ \A q \in Runs \ {r} : gen'[q] = gen[q]
      BY <1>3, <2>1, <2>2, <2>5
    <2>7. MovesOn(e, "prepared") /\ LeaseShrinks
      BY <1>1, <1>2, <2>1 DEF MovesOn, LeaseShrinks, Live, Early, MainSteps
    <2>8. /\ pc'[e] = "prepared" /\ \A f \in Execs \ {e} : pc'[f] = pc[f]
          /\ pc' \in [Execs -> MainSteps]
      BY <2>7, PositionsMove DEF Inv
    <2>9. TypeOK'
      <3>1. held' \in 0..MaxFence
        BY <2>1, ExecsAre
      <3> QED
        BY <1>1, <1>2, <2>6, <2>8, <3>1, Zenon DEF Inv, TypeOK
    <2>10. LeaseInv' /\ HoldInv' /\ JournalInv' /\ ThreadInv'
      BY <1>1, <1>2, <2>1, <2>7, LeaseKept, HoldKept, ThreadsUnmoved
    <2>11. \A f \in Execs \ {e} : pc[f] \notin HoldSteps
      BY <1>1, ExecsAre DEF Inv, HoldInv
    <2>12. TableInv'
      <3>1. /\ target.uuid # e /\ \A q \in Runs : gen[q].uuid # e
        BY <1>1 DEF Inv, TableInv, Early
      <3>2. \A q \in Runs, w \in Windows : gen'[q].rows[w].whole
        BY <2>3, <2>5, <2>6 DEF Inv, TableInv
      <3>3. \A q \in Runs : gen'[q].uuid # target.uuid
        BY <2>5, <2>6, <3>1 DEF Inv, TableInv
      <3>4. \A p, q \in Runs : gen'[p].uuid = gen'[q].uuid => p = q \/ gen'[p].uuid = -1
        BY <2>5, <2>6, <3>1 DEF Inv, TableInv
      <3>5. \A f \in Execs : pc'[f] \in Early =>
               target.uuid # f /\ \A q \in Runs : gen'[q].uuid # f
        BY <2>5, <2>6, <2>8 DEF Inv, TableInv, Early
      <3> QED
        BY <1>1, <3>2, <3>3, <3>4, <3>5 DEF Inv, TableInv
    <2>13. GenerationInv'
      <3>1. \A q \in Runs : genMeta[q] # NoMeta => gen'[q] = gen[q]
        BY <1>1, <2>6
      <3>2. \A f \in Execs : pc'[f] = "prepared" => f = e
        BY <2>8, <2>11 DEF HoldSteps
      <3>3. \A f \in Execs : pc'[f] \in {"mark", "exchange"} => FALSE
        BY <2>8, <2>11 DEF HoldSteps
      <3>4. /\ gen'[r].uuid = e /\ gen'[r].rows[WindowOf[r]].run = r
            /\ \A w \in Windows \ {WindowOf[r]} :
                  gen'[r].rows[w].run = target.rows[w].run
        BY <2>3, <2>5, <2>6
      <3>5. exchanged \subseteq Runs /\ NoMeta' = NoMeta
        BY DEF Inv, TypeOK, NoMeta
      <3>6. /\ \A q \in exchanged : genMeta[q] # NoMeta /\ gen'[q].uuid = genMeta[q].original
            /\ \A q \in Runs \ exchanged : genMeta[q] # NoMeta =>
                  /\ gen'[q].uuid = genMeta[q].prepared
                  /\ gen'[q].rows[WindowOf[q]].run = q
                  /\ \A w \in Windows \ {WindowOf[q]} :
                        gen'[q].rows[w].run = genMeta[q].base[w]
        BY <3>1, <3>5 DEF Inv, GenerationInv
      <3> QED
        BY <1>1, <3>2, <3>3, <3>4, <3>5, <3>6 DEF Inv, GenerationInv
    <2>14. MarkerInv'
      <3>1. \A f \in Execs : Live(f)' /\ pc'[f] \in Admitted => Live(f) /\ pc[f] \in Admitted
        BY <1>1, <2>7, <2>8 DEF LeaseShrinks, Admitted, MainSteps
      <3>2. \A f \in Execs : pc'[f] \in {"mark", "exchange"} => pc[f] = pc'[f]
        BY <2>8
      <3> QED
        BY <1>1, <3>1, <3>2 DEF Inv, MarkerInv
    <2>15. EffectInv'
      <3>1. \A f \in Execs : pc'[f] \in Published \cup {"evidenced", "advance", "advanced"} =>
               pc[f] = pc'[f]
        BY <2>8 DEF Published
      <3> QED
        BY <1>1, <1>2, <3>1 DEF Inv, EffectInv
    <2> QED
      BY <2>9, <2>10, <2>12, <2>13, <2>14, <2>15 DEF Inv
  <1> QED
    BY <1>4, <1>5

\* The metadata says where the two tables stand at this moment.
LEMMA SavePreparedStep ==
    ASSUME Inv, NEW e \in Execs, SavePrepared(e)
    PROVE  Inv'
  <1> DEFINE r == run[e]
             meta == [original |-> target.uuid, prepared |-> gen[r].uuid,
                      base |-> RunsIn(target.rows), receipts |-> Receipts(e)]
  <1>1. /\ pc[e] = "prepared" /\ held' = 0 /\ pc' = [pc EXCEPT ![e] = "intend"]
        /\ genMeta' = [genMeta EXCEPT ![r] = meta]
        /\ UNCHANGED <<run, cancelled, threads, store, attempts, target, gen, pending,
                       exchanged, settled, effect, faults>>
    BY DEF SavePrepared, Goto
  <1>2. UNCHANGED <<lease, plans, phase, chunks, evidenced, advanced>>
    BY <1>1 DEF store, effect
  <1>3. /\ r \in Runs /\ WindowOf[r] \in Windows /\ held = e
        /\ genMeta[r] = NoMeta /\ gen[r].uuid = e /\ gen[r].rows[WindowOf[r]].run = r
        /\ \A w \in Windows \ {WindowOf[r]} : gen[r].rows[w].run = target.rows[w].run
        /\ r \notin exchanged /\ target.uuid # e
    <2>1. gen[r].uuid # target.uuid /\ gen[r].uuid = e
      BY <1>1 DEF Inv, LeaseInv, TableInv, GenerationInv
    <2> QED
      BY <1>1, <2>1, WindowAssumption
         DEF Inv, LeaseInv, GenerationInv, HoldInv, HoldSteps
  <1>4. /\ meta \in [original : -1..MaxFence, prepared : -1..MaxFence,
                     base : [Windows -> Runs \cup {NoRun}],
                     receipts : [Chunks -> -1..LastAttempt]]
        /\ meta.original = target.uuid /\ meta.prepared = gen[r].uuid
        /\ meta.base = RunsIn(target.rows)
    <2>1. target.uuid \in -1..MaxFence /\ gen[r].uuid \in -1..MaxFence
      BY <1>3, WindowAssumption DEF Inv, TypeOK
    <2>2. RunsIn(target.rows) \in [Windows -> Runs \cup {NoRun}]
      BY DEF Inv, TypeOK, RunsIn, Rows
    <2>3. Receipts(e) \in [Chunks -> -1..LastAttempt]
      <3>1. \A c \in Chunks : threads[e][c].attempt \in Attempts
        BY DEF Inv, TypeOK
      <3>2. \A a \in Attempts : a \in -1..LastAttempt
        BY WindowAssumption DEF Attempts
      <3> QED
        BY <3>1, <3>2 DEF Receipts
    <2> QED
      BY <2>1, <2>2, <2>3
  <1> HIDE DEF meta
  <1>5. /\ genMeta'[r] = meta /\ \A q \in Runs \ {r} : genMeta'[q] = genMeta[q]
        /\ genMeta' \in [Runs -> [original : -1..MaxFence, prepared : -1..MaxFence,
                                  base : [Windows -> Runs \cup {NoRun}],
                                  receipts : [Chunks -> -1..LastAttempt]]]
    BY <1>1, <1>3, <1>4 DEF Inv, TypeOK
  <1>6. MovesOn(e, "intend") /\ LeaseShrinks
    BY <1>1, <1>2 DEF MovesOn, LeaseShrinks, Live, Early, MainSteps
  <1>7. /\ pc'[e] = "intend" /\ \A f \in Execs \ {e} : pc'[f] = pc[f]
        /\ pc' \in [Execs -> MainSteps]
    BY <1>6, PositionsMove DEF Inv
  <1>8. TypeOK'
    <2>1. held' \in 0..MaxFence
      BY <1>1, ExecsAre
    <2> QED
      BY <1>1, <1>2, <1>5, <1>7, <2>1, Zenon DEF Inv, TypeOK
  <1>9. LeaseInv' /\ HoldInv' /\ JournalInv' /\ ThreadInv'
    BY <1>1, <1>2, <1>6, LeaseKept, HoldKept, ThreadsUnmoved DEF HoldSteps
  <1>10. \A f \in Execs : pc'[f] \notin {"prepared", "mark", "exchange"}
    BY <1>3, <1>7 DEF Inv, HoldInv, HoldSteps
  <1>11. TableInv'
    <2>1. \A f \in Execs : pc'[f] \in Early => pc[f] \in Early
      BY <1>7 DEF Early
    <2> QED
      BY <1>1, <2>1 DEF Inv, TableInv
  <1>12. GenerationInv'
    <2>1. NoMeta' = NoMeta /\ exchanged \subseteq Runs
      BY DEF NoMeta, Inv, TypeOK
    <2>2. \A q \in Runs : genMeta'[q] # NoMeta =>
             genMeta'[q].original # genMeta'[q].prepared /\ genMeta'[q].prepared # -1
      BY <1>3, <1>4, <1>5, ExecsAre DEF Inv, GenerationInv
    <2>3. \A q \in exchanged : genMeta'[q] # NoMeta /\ gen[q].uuid = genMeta'[q].original
      <3>1. \A q \in exchanged : genMeta[q] # NoMeta /\ gen[q].uuid = genMeta[q].original
        BY DEF Inv, GenerationInv
      <3>2. \A q \in exchanged : genMeta'[q] = genMeta[q]
        BY <1>3, <1>5, <2>1
      <3> QED
        BY <3>1, <3>2
    <2>4. \A w \in Windows : RunsIn(target.rows)[w] = target.rows[w].run
      BY DEF RunsIn
    <2>5. \A q \in Runs \ exchanged : genMeta'[q] # NoMeta =>
             /\ gen[q].uuid = genMeta'[q].prepared
             /\ gen[q].rows[WindowOf[q]].run = q
             /\ \A w \in Windows \ {WindowOf[q]} : gen[q].rows[w].run = genMeta'[q].base[w]
      BY <1>3, <1>4, <1>5, <2>4 DEF Inv, GenerationInv
    <2> QED
      BY <1>1, <1>10, <2>1, <2>2, <2>3, <2>5 DEF GenerationInv
  <1>13. MarkerInv'
    <2>1. \A f \in Execs : Live(f)' /\ pc'[f] \in Admitted => Live(f) /\ pc[f] \in Admitted
      BY <1>1, <1>6, <1>7 DEF LeaseShrinks, Admitted, MainSteps
    <2> QED
      BY <1>1, <1>10, <2>1 DEF Inv, MarkerInv
  <1>14. EffectInv'
    <2>1. \A f \in Execs : pc'[f] \in Published \cup {"evidenced", "advance", "advanced"} =>
             pc[f] = pc'[f]
      BY <1>7 DEF Published
    <2> QED
      BY <1>1, <1>2, <2>1 DEF Inv, EffectInv
  <1> QED
    BY <1>8, <1>9, <1>11, <1>12, <1>13, <1>14 DEF Inv

\* An execution that may still exchange does so from where the generation was built.
LEMMA AtExchange ==
    ASSUME Inv, NEW e \in Execs, pc[e] = "exchange"
    PROVE  /\ run[e] \in Runs /\ run[e] \notin exchanged /\ WindowOf[run[e]] \in Windows
           /\ held = e /\ pending = run[e] /\ exchanged \subseteq settled
           /\ genMeta[run[e]] # NoMeta
           /\ target.uuid = genMeta[run[e]].original
           /\ gen[run[e]].uuid = genMeta[run[e]].prepared
           /\ gen[run[e]].uuid # -1
           /\ gen[run[e]].rows[WindowOf[run[e]]].run = run[e]
           /\ \A w \in Windows \ {WindowOf[run[e]]} :
                 gen[run[e]].rows[w].run = target.rows[w].run
           /\ \A f \in Execs \ {e} : pc[f] \notin HoldSteps
  <1> DEFINE r == run[e]
  <1>1. /\ r \in Runs /\ WindowOf[r] \in Windows /\ held = e /\ pending = r
        /\ exchanged \subseteq settled
    BY WindowAssumption DEF Inv, LeaseInv, HoldInv, HoldSteps, MarkerInv
  <1>2. /\ genMeta[r] # NoMeta /\ r \notin exchanged
        /\ RunsIn(target.rows) = genMeta[r].base /\ target.uuid = genMeta[r].original
    BY DEF Inv, GenerationInv
  <1>3. /\ gen[r].uuid = genMeta[r].prepared /\ genMeta[r].prepared # -1
        /\ gen[r].rows[WindowOf[r]].run = r
        /\ \A w \in Windows \ {WindowOf[r]} : gen[r].rows[w].run = genMeta[r].base[w]
    BY <1>1, <1>2 DEF Inv, GenerationInv
  <1>4. \A w \in Windows : RunsIn(target.rows)[w] = target.rows[w].run
    BY DEF RunsIn
  <1>5. \A f \in Execs \ {e} : pc[f] \notin HoldSteps
    BY <1>1 DEF Inv, HoldInv
  <1> QED
    BY <1>1, <1>2, <1>3, <1>4, <1>5

LEMMA SwapIs ==
    ASSUME Inv, NEW e \in Execs, pc[e] = "exchange", Swap(run[e])
    PROVE  /\ target' = gen[run[e]] /\ gen'[run[e]] = target
           /\ \A q \in Runs \ {run[e]} : gen'[q] = gen[q]
           /\ exchanged' = exchanged \cup {run[e]}
           /\ target' \in [uuid : 0..MaxFence, rows : Rows]
           /\ gen' \in [Runs -> [uuid : -1..MaxFence, rows : Rows]]
  <1> DEFINE r == run[e]
  <1>1. r \in Runs /\ gen[r].uuid # -1
    BY AtExchange
  <1>2. /\ gen[r] \in [uuid : -1..MaxFence, rows : Rows]
        /\ gen \in [Runs -> [uuid : -1..MaxFence, rows : Rows]]
        /\ target \in [uuid : 0..MaxFence, rows : Rows]
    BY <1>1 DEF Inv, TypeOK
  <1>3. gen[r].uuid \in 0..MaxFence /\ target.uuid \in -1..MaxFence
    BY <1>1, <1>2, WindowAssumption
  <1>4. gen[r] \in [uuid : 0..MaxFence, rows : Rows] /\ target \in [uuid : -1..MaxFence, rows : Rows]
    BY <1>2, <1>3
  <1> QED
    BY <1>1, <1>2, <1>4 DEF Swap

LEMMA SwapStep ==
    ASSUME Inv, NEW e \in Execs, pc[e] = "exchange", Live(e), Swap(run[e]),
           NEW to \in {"settle", "confirm"}, pc' = [pc EXCEPT ![e] = to],
           \/ held' = held
           \/ held' = 0 /\ to = "confirm",
           faults' \in 0..MaxFaults,
           UNCHANGED <<run, cancelled, threads, store, attempts, genMeta, pending,
                       settled, effect>>
    PROVE  Inv'
  <1> DEFINE r == run[e]
  <1>1. UNCHANGED <<lease, plans, phase, chunks, evidenced, advanced>>
    BY DEF store, effect
  <1>2. /\ r \in Runs /\ r \notin exchanged /\ held = e /\ pending = r
        /\ exchanged \subseteq settled /\ genMeta[r] # NoMeta
        /\ target.uuid = genMeta[r].original /\ gen[r].uuid # -1
        /\ \A f \in Execs \ {e} : pc[f] \notin HoldSteps
    BY AtExchange
  <1>3. /\ target' = gen[r] /\ gen'[r] = target
        /\ \A q \in Runs \ {r} : gen'[q] = gen[q]
        /\ exchanged' = exchanged \cup {r}
        /\ target' \in [uuid : 0..MaxFence, rows : Rows]
        /\ gen' \in [Runs -> [uuid : -1..MaxFence, rows : Rows]]
    BY SwapIs
  <1>4. MovesOn(e, to) /\ LeaseShrinks
    BY <1>1 DEF MovesOn, LeaseShrinks, Live, Early, MainSteps
  <1>5. /\ pc'[e] = to /\ \A f \in Execs \ {e} : pc'[f] = pc[f]
        /\ pc' \in [Execs -> MainSteps]
    BY <1>4, PositionsMove DEF Inv
  <1>6. TypeOK'
    <2>1. held' \in 0..MaxFence
      BY ExecsAre DEF Inv, TypeOK
    <2>2. {evidenced', advanced', exchanged', settled'} \subseteq SUBSET Runs
      BY <1>1, <1>2, <1>3 DEF Inv, TypeOK
    <2> QED
      BY <1>1, <1>3, <1>5, <2>1, <2>2, Zenon DEF Inv, TypeOK
  <1>7. LeaseInv' /\ HoldInv' /\ JournalInv' /\ ThreadInv'
    BY <1>1, <1>2, <1>4, LeaseKept, HoldKept, ThreadsUnmoved DEF HoldSteps
  <1>8. \A f \in Execs : pc'[f] \notin {"prepared", "mark", "exchange"}
    BY <1>2, <1>5 DEF HoldSteps
  <1>9. TableInv'
    <2>1. /\ \A w \in Windows : gen[r].rows[w].whole
          /\ \A w \in Windows : target.rows[w].whole
          /\ \A q \in Runs, w \in Windows : gen[q].rows[w].whole
          /\ \A q \in Runs : gen[q].uuid # target.uuid
          /\ \A q \in Runs \ {r} : gen[q].uuid # gen[r].uuid
      BY <1>2 DEF Inv, TableInv
    <2>2. \A q \in Runs, w \in Windows : gen'[q].rows[w].whole
      BY <1>3, <2>1
    <2>3. \A q \in Runs : gen'[q].uuid # target'.uuid
      BY <1>2, <1>3, <2>1
    <2>4. \A p, q \in Runs : gen[p].uuid = gen[q].uuid => p = q \/ gen[p].uuid = -1
      BY DEF Inv, TableInv
    <2>5. \A p, q \in Runs : gen'[p].uuid = gen'[q].uuid => p = q \/ gen'[p].uuid = -1
      BY <1>3, <2>1, <2>4
    <2>6. \A f \in Execs : pc'[f] \in Early =>
             target'.uuid # f /\ \A q \in Runs : gen'[q].uuid # f
      <3>1. \A f \in Execs : pc'[f] \in Early => pc[f] \in Early
        BY <1>5 DEF Early
      <3>2. \A f \in Execs : pc'[f] \in Early =>
               target.uuid # f /\ \A q \in Runs : gen[q].uuid # f
        BY <3>1 DEF Inv, TableInv
      <3> QED
        BY <1>2, <1>3, <3>2
    <2> QED
      BY <1>3, <2>1, <2>2, <2>3, <2>5, <2>6 DEF TableInv
  <1>10. GenerationInv'
    <2>1. NoMeta' = NoMeta /\ exchanged \subseteq Runs
      BY DEF NoMeta, Inv, TypeOK
    <2>2. \A q \in exchanged' : genMeta[q] # NoMeta /\ gen'[q].uuid = genMeta[q].original
      <3>1. \A q \in exchanged : genMeta[q] # NoMeta /\ gen[q].uuid = genMeta[q].original
        BY DEF Inv, GenerationInv
      <3> QED
        BY <1>2, <1>3, <2>1, <3>1
    <2>3. \A q \in Runs \ exchanged' : genMeta[q] # NoMeta =>
             /\ gen'[q].uuid = genMeta[q].prepared
             /\ gen'[q].rows[WindowOf[q]].run = q
             /\ \A w \in Windows \ {WindowOf[q]} : gen'[q].rows[w].run = genMeta[q].base[w]
      <3>1. \A q \in Runs \ exchanged' : q \in Runs \ exchanged /\ gen'[q] = gen[q]
        BY <1>3
      <3> QED
        BY <3>1 DEF Inv, GenerationInv
    <2> QED
      BY <1>8, <2>1, <2>2, <2>3 DEF Inv, GenerationInv
  <1>11. MarkerInv'
    <2>1. \A f \in Execs : Live(f)' => f = e
      BY <1>1 DEF Live
    <2> QED
      BY <1>2, <1>3, <1>8, <2>1 DEF MarkerInv
  <1>12. EffectInv'
    <2>1. \A f \in Execs : pc'[f] \in Published \cup {"evidenced", "advance", "advanced"} =>
             pc[f] = pc'[f]
      BY <1>5 DEF Published
    <2> QED
      BY <1>1, <1>3, <2>1 DEF Inv, EffectInv
  <1> QED
    BY <1>6, <1>7, <1>9, <1>10, <1>11, <1>12 DEF Inv

LEMMA ExchangeStep ==
    ASSUME Inv, NEW e \in Execs, Exchange(e) \/ LoseReply(e)
    PROVE  Inv'
  <1>1. /\ pc[e] = "exchange" /\ Live(e) /\ Swap(run[e])
        /\ UNCHANGED <<run, cancelled, threads, store, attempts, genMeta, pending,
                       settled, effect>>
    BY DEF Exchange, LoseReply
  <1>2. faults' \in 0..MaxFaults
    BY WindowAssumption DEF Exchange, LoseReply, Inv, TypeOK
  <1>3. \/ pc' = [pc EXCEPT ![e] = "settle"] /\ held' = held
        \/ pc' = [pc EXCEPT ![e] = "confirm"] /\ held' = 0
    BY DEF Exchange, LoseReply, Goto
  <1> QED
    BY <1>1, <1>2, <1>3, SwapStep

-----------------------------------------------------------------------------
(* Steps of a chunk thread *)

\* Only the thread of chunk c of e moves, and only its journal record with it.
OnlyThread(e, c) ==
    /\ UNCHANGED <<lease, run, pc, plans, phase, target, gen, genMeta, pending, exchanged,
                   settled, evidenced, advanced>>
    /\ \A f \in Execs, d \in Chunks : f # e \/ d # c => threads'[f][d] = threads[f][d]
    /\ \A r \in Runs, d \in Chunks : r # run[e] \/ d # c => chunks'[r][d] = chunks[r][d]

\* The record moves forward, under the lease, to the attempt of the thread.
RecordKept(e, c) ==
    \/ chunks' = chunks
    \/ /\ Live(e) /\ chunks'[run[e]][c].phase # "none"
       /\ chunks'[run[e]][c].attempt = threads'[e][c].attempt
       /\ Record(e, c).attempt <= chunks'[run[e]][c].attempt

\* The only table that appears is that of the attempt the thread stages.
TablesKept(e, c) ==
    \A r \in Runs, d \in Chunks, a \in Attempts :
       attempts'[r][d][a] # "absent" =>
          \/ attempts[r][d][a] # "absent"
          \/ /\ r = run[e] /\ d = c /\ a = threads[e][c].attempt
             /\ \/ threads[e][c].step \in LoadSteps
                \/ threads[e][c].step = "stage" /\ Live(e)

\* The guard is left alone, taken to load, or given back after it.
GuardKept(e, c) ==
    \/ /\ held' = held
       /\ threads'[e][c].step \in LoadSteps => threads[e][c].step \in LoadSteps
    \/ held = 0 /\ held' = e
    \/ /\ held' = 0 /\ threads[e][c].step \in LoadSteps
       /\ threads'[e][c].step \notin LoadSteps

\* A thread loads the journalled attempt, or goes on loading the one it had.
LoadKept(e, c) ==
    threads'[e][c].step \in LoadSteps =>
       \/ /\ threads[e][c].step \in LoadSteps
          /\ threads'[e][c].attempt = threads[e][c].attempt
       \/ /\ held = 0 /\ Live(e) /\ chunks' = chunks
          /\ Record(e, c).phase # "none" /\ threads'[e][c].attempt = Record(e, c).attempt

\* What ThreadInv says, of the thread that moves.
ThreadKept(e, c) ==
    /\ threads'[e][c].step = "discard" => threads'[e][c].next < threads'[e][c].attempt
    /\ Live(e) /\ threads'[e][c].step \notin {"idle", "done", "error"} =>
          /\ threads'[e][c].attempt = chunks'[run[e]][c].attempt
          /\ threads'[e][c].step # "write" => chunks'[run[e]][c].phase # "none"
    /\ Live(e) /\ threads'[e][c].step \in {"discard", "write", "stage"} =>
          /\ attempts'[run[e]][c][threads'[e][c].attempt] = "absent"
          /\ \A f \in Execs \ {e} : run[f] = run[e] /\ threads[f][c].step \in LoadSteps
                => threads[f][c].attempt # threads'[e][c].attempt

LEMMA ThreadStep ==
    ASSUME Inv, TypeOK', NEW e \in Execs, NEW c \in Chunks,
           pc[e] \in {"chunks", "joining"}, OnlyThread(e, c), RecordKept(e, c),
           TablesKept(e, c), GuardKept(e, c), LoadKept(e, c), ThreadKept(e, c)
    PROVE  Inv'
  <1> DEFINE r == run[e]
  <1>0. r \in Runs /\ pc[e] \notin HoldSteps
    BY DEF Inv, LeaseInv, HoldSteps
  <1>1. /\ UNCHANGED <<lease, run, pc, plans, phase, target, gen, genMeta, pending,
                       exchanged, settled, evidenced, advanced>>
        /\ \A f \in Execs, d \in Chunks : f # e \/ d # c => threads'[f][d] = threads[f][d]
        /\ \A q \in Runs, d \in Chunks : q # r \/ d # c => chunks'[q][d] = chunks[q][d]
    BY DEF OnlyThread
  <1>2. \A f \in Execs : Live(f)' = Live(f)
    BY <1>1 DEF Live
  <1>3. LeaseInv'
    <2>1. \A f \in Execs : pc[f] \notin {"chunks", "joining"} => f # e
      OBVIOUS
    <2>2. \A f \in Execs : pc'[f] \notin {"chunks", "joining"} =>
             \A d \in Chunks : ~Busy(f, d)'
      BY <1>1, <2>1 DEF Inv, LeaseInv, Busy
    <2>3. \A f \in Execs : pc'[f] \in {"unused", "begin", "validate", "read"} =>
             \A d \in Chunks : threads'[f][d].step = "idle"
      BY <1>1, <2>1 DEF Inv, LeaseInv
    <2> QED
      BY <1>1, <2>2, <2>3 DEF Inv, LeaseInv
  <1>4. HoldInv'
    <2>1. \A f \in Execs : held = f => held' = f \/ (f = e /\ threads[e][c].step \in LoadSteps)
      BY ExecsAre DEF GuardKept, Inv, HoldInv
    <2>2. \A f \in Execs : pc'[f] \in HoldSteps => held' = f
      BY <1>0, <1>1, <2>1 DEF Inv, HoldInv
    <2>3. \A d \in Chunks \ {c} : threads[e][d].step \in LoadSteps =>
             held = e /\ threads[e][c].step \notin LoadSteps
      BY DEF Inv, HoldInv
    <2>4. threads'[e][c].step \in LoadSteps => held' = e
      BY DEF GuardKept, Inv, HoldInv
    <2>5. \A f \in Execs, d \in Chunks : threads'[f][d].step \in LoadSteps => held' = f
      <3>1. \A f \in Execs, d \in Chunks :
               threads[f][d].step \in LoadSteps /\ (f # e \/ d # c) => held' = f
        BY <2>1, <2>3 DEF Inv, HoldInv
      <3> QED
        BY <1>1, <2>4, <3>1
    <2>6. \A d \in Chunks \ {c} :
             ~(threads'[e][c].step \in LoadSteps /\ threads[e][d].step \in LoadSteps)
      BY <2>3, ExecsAre DEF LoadKept
    <2>7. \A f \in Execs, d, b \in Chunks :
             threads'[f][d].step \in LoadSteps /\ threads'[f][b].step \in LoadSteps => d = b
      BY <1>1, <2>6 DEF Inv, HoldInv
    <2> QED
      BY <2>2, <2>5, <2>7 DEF HoldInv
  <1>5. JournalInv'
    <2>0. /\ \A q \in Runs, d \in Chunks : chunks[q][d].attempt \in Nat
          /\ \A q \in Runs, d \in Chunks : chunks'[q][d].attempt \in Nat
          /\ \A f \in Execs, d \in Chunks : threads[f][d].attempt \in Attempts
      BY ExecsAre DEF Inv, TypeOK
    <2>1. \A q \in Runs, d \in Chunks :
             /\ chunks[q][d].attempt <= chunks'[q][d].attempt
             /\ chunks'[q][d].phase = "none" =>
                   chunks[q][d].phase = "none" /\ chunks'[q][d] = chunks[q][d]
      BY <1>1, <2>0 DEF RecordKept, Record
    <2>2. \A q \in Runs, d \in Chunks :
             chunks'[q][d].phase = "none" => chunks'[q][d].attempt = 0
      BY <2>1 DEF Inv, JournalInv
    <2>3. threads[e][c].step \in LoadSteps \/ (threads[e][c].step = "stage" /\ Live(e)) =>
             chunks[r][c].phase # "none" /\ threads[e][c].attempt <= chunks[r][c].attempt
      <3>1. threads[e][c].step = "stage" /\ Live(e) =>
               chunks[r][c].phase # "none" /\ threads[e][c].attempt = chunks[r][c].attempt
        BY DEF Inv, ThreadInv, Busy, Record
      <3>2. threads[e][c].step \in LoadSteps =>
               chunks[r][c].phase # "none" /\ threads[e][c].attempt <= chunks[r][c].attempt
        BY DEF Inv, JournalInv, Record
      <3> QED
        BY <1>0, <2>0, <3>1, <3>2
    <2>4. ASSUME NEW q \in Runs, NEW d \in Chunks, NEW a \in Attempts,
                 a > chunks'[q][d].attempt \/ chunks'[q][d].phase = "none"
          PROVE  attempts'[q][d][a] = "absent"
      <3>1. a > chunks[q][d].attempt \/ chunks[q][d].phase = "none"
        BY <2>0, <2>1, <2>4, ExecsAre
      <3>2. attempts[q][d][a] = "absent"
        BY <3>1 DEF Inv, JournalInv
      <3>3. ~(q = r /\ d = c /\ a = threads[e][c].attempt
              /\ (threads[e][c].step \in LoadSteps \/ (threads[e][c].step = "stage" /\ Live(e))))
        BY <1>0, <2>0, <2>3, <3>1, ExecsAre
      <3> QED
        BY <3>2, <3>3 DEF TablesKept
    <2>5. ASSUME NEW f \in Execs, NEW d \in Chunks, threads'[f][d].step \in LoadSteps
          PROVE  chunks'[run[f]][d].phase # "none" /\ threads'[f][d].attempt <= chunks'[run[f]][d].attempt
      <3>0. run[f] \in Runs
        <4>1. pc[f] # "unused"
          BY <1>1, <2>5 DEF Inv, LeaseInv, LoadSteps
        <4> QED
          BY <4>1 DEF Inv, LeaseInv
      <3>1. CASE f = e /\ d = c
        <4>1. CASE threads[e][c].step \in LoadSteps /\ threads'[e][c].attempt = threads[e][c].attempt
          <5>1. chunks[r][c].phase # "none" /\ threads[e][c].attempt <= chunks[r][c].attempt
            BY <2>3, <4>1
          <5> QED
            BY <1>0, <2>0, <2>1, <3>1, <4>1, <5>1, ExecsAre
        <4>2. CASE /\ held = 0 /\ Live(e) /\ chunks' = chunks
                   /\ Record(e, c).phase # "none" /\ threads'[e][c].attempt = Record(e, c).attempt
          BY <1>0, <2>0, <3>1, <4>2 DEF Record
        <4> QED
          BY <2>5, <3>1, <4>1, <4>2 DEF LoadKept
      <3>2. CASE f # e \/ d # c
        <4>1. threads'[f][d] = threads[f][d]
          BY <1>1, <3>2
        <4>2. chunks[run[f]][d].phase # "none" /\ threads[f][d].attempt <= chunks[run[f]][d].attempt
          BY <2>5, <4>1 DEF Inv, JournalInv, Record
        <4> QED
          BY <2>0, <2>1, <3>0, <4>1, <4>2, ExecsAre
      <3> QED
        BY <3>1, <3>2
    <2> QED
      BY <1>1, <2>2, <2>4, <2>5 DEF JournalInv, Record
  <1>6. ThreadInv'
    <2>1. \A f \in Execs, d \in Chunks : threads'[f][d].step = "discard" =>
             threads'[f][d].next < threads'[f][d].attempt
      BY <1>1 DEF ThreadKept, Inv, ThreadInv
    <2>2. ASSUME NEW f \in Execs, NEW d \in Chunks, Live(f), Busy(f, d)'
          PROVE  /\ threads'[f][d].attempt = chunks'[run[f]][d].attempt
                 /\ threads'[f][d].step # "write" => chunks'[run[f]][d].phase # "none"
      <3>1. CASE f = e /\ d = c
        BY <2>2, <3>1 DEF ThreadKept, Busy
      <3>2. CASE f # e \/ d # c
        <4>1. threads'[f][d] = threads[f][d] /\ Busy(f, d)
          BY <1>1, <2>2, <3>2 DEF Busy
        <4>2. pc[f] # "unused" /\ run[f] \in Runs
          BY <4>1 DEF Inv, LeaseInv
        <4>3. chunks'[run[f]][d] = chunks[run[f]][d]
          BY <1>1, <2>2, <3>2, <4>2 DEF RecordKept, Live
        <4> QED
          BY <2>2, <4>1, <4>3 DEF Inv, ThreadInv, Record
      <3> QED
        BY <3>1, <3>2
    <2>3. ASSUME NEW f \in Execs, NEW d \in Chunks, Live(f),
                 threads'[f][d].step \in {"discard", "write", "stage"}
          PROVE  /\ attempts'[run[f]][d][threads'[f][d].attempt] = "absent"
                 /\ \A g \in Execs \ {f} : run[g] = run[f] /\ threads'[g][d].step \in LoadSteps
                       => threads'[g][d].attempt # threads'[f][d].attempt
      <3>1. CASE f = e /\ d = c
        BY <1>1, <2>3, <3>1 DEF ThreadKept
      <3>2. CASE f # e \/ d # c
        <4>1. /\ threads'[f][d] = threads[f][d] /\ Busy(f, d)
              /\ threads[f][d].step \in {"discard", "write", "stage"}
          BY <1>1, <2>3, <3>2 DEF Busy
        <4>2. run[f] \in Runs /\ threads[f][d].attempt \in Attempts
          BY <4>1 DEF Inv, LeaseInv, TypeOK
        <4>3. /\ attempts[run[f]][d][threads[f][d].attempt] = "absent"
              /\ \A g \in Execs \ {f} : run[g] = run[f] /\ threads[g][d].step \in LoadSteps
                    => threads[g][d].attempt # threads[f][d].attempt
          BY <2>3, <4>1 DEF Inv, ThreadInv, Attempt
        <4>4. ~(run[f] = r /\ d = c /\ threads[f][d].attempt = threads[e][c].attempt
                /\ (threads[e][c].step \in LoadSteps \/ (threads[e][c].step = "stage" /\ Live(e))))
          BY <2>3, <3>2, <4>3 DEF Live
        <4>5. attempts'[run[f]][d][threads[f][d].attempt] = "absent"
          BY <4>2, <4>3, <4>4 DEF TablesKept
        <4>6. ASSUME NEW g \in Execs \ {f}, run[g] = run[f], threads'[g][d].step \in LoadSteps
              PROVE  threads'[g][d].attempt # threads[f][d].attempt
          <5>1. CASE g = e /\ d = c
            BY <2>3, <4>3, <4>6, <5>1 DEF LoadKept, Live
          <5>2. CASE g # e \/ d # c
            BY <1>1, <4>3, <4>6, <5>2
          <5> QED
            BY <5>1, <5>2
        <4> QED
          BY <4>1, <4>5, <4>6
      <3> QED
        BY <3>1, <3>2
    <2> QED
      BY <1>1, <1>2, <2>1, <2>2, <2>3 DEF ThreadInv, Record, Attempt
  <1>7. TableInv' /\ EffectInv'
    BY <1>1 DEF Inv, TableInv, EffectInv
  <1>8. GenerationInv'
    BY <1>1 DEF Inv, GenerationInv, RunsIn, NoMeta
  <1>9. MarkerInv'
    BY <1>1, <1>2 DEF Inv, MarkerInv
  <1> QED
    BY <1>3, <1>4, <1>5, <1>6, <1>7, <1>8, <1>9 DEF Inv

LEMMA ThreadTypes ==
    ASSUME Inv, threads' \in [Execs -> [Chunks -> ThreadType]],
           chunks' \in [Runs -> [Chunks -> RecordType]],
           attempts' \in [Runs -> [Chunks -> [Attempts -> AttemptType]]],
           held' \in 0..MaxFence, faults' \in 0..MaxFaults,
           UNCHANGED <<lease, run, pc, cancelled, plans, phase, target, gen, genMeta, pending,
                       exchanged, settled, evidenced, advanced>>
    PROVE  TypeOK'
  BY Zenon DEF Inv, TypeOK, ThreadType, RecordType, AttemptType

LEMMA TypesNow ==
    ASSUME Inv
    PROVE  /\ threads \in [Execs -> [Chunks -> ThreadType]]
           /\ chunks \in [Runs -> [Chunks -> RecordType]]
           /\ attempts \in [Runs -> [Chunks -> [Attempts -> AttemptType]]]
           /\ held \in 0..MaxFence /\ faults \in 0..MaxFaults
  BY Zenon DEF Inv, TypeOK, ThreadType, RecordType, AttemptType

\* A busy thread belongs to an execution in its chunks, which has a run.
LEMMA BusyThread ==
    ASSUME Inv, NEW e \in Execs, NEW c \in Chunks, Busy(e, c)
    PROVE  /\ pc[e] \in {"chunks", "joining"} /\ run[e] \in Runs
           /\ threads[e][c] \in ThreadType
           /\ threads[e][c].attempt \in Attempts /\ threads[e][c].attempt \in Nat
           /\ threads[e][c].step \in LoadSteps => held = e
           /\ Live(e) => /\ threads[e][c].attempt = Record(e, c).attempt
                         /\ threads[e][c].step # "write" => Record(e, c).phase # "none"
           /\ Live(e) /\ threads[e][c].step \in {"discard", "write", "stage"} =>
                 /\ Attempt(e, c) = "absent"
                 /\ \A f \in Execs \ {e} : run[f] = run[e] /\ threads[f][c].step \in LoadSteps
                       => threads[f][c].attempt # threads[e][c].attempt
  <1>1. pc[e] \in {"chunks", "joining"} /\ run[e] \in Runs
    BY DEF Inv, LeaseInv
  <1>2. threads[e][c] \in ThreadType
    BY TypesNow
  <1>3. threads[e][c].attempt \in Attempts /\ threads[e][c].attempt \in Nat
    BY <1>2, ExecsAre DEF ThreadType
  <1>4. threads[e][c].step \in LoadSteps => held = e
    BY DEF Inv, HoldInv
  <1>5. Live(e) => /\ threads[e][c].attempt = Record(e, c).attempt
                   /\ threads[e][c].step # "write" => Record(e, c).phase # "none"
    BY DEF Inv, ThreadInv
  <1>6. Live(e) /\ threads[e][c].step \in {"discard", "write", "stage"} =>
           /\ Attempt(e, c) = "absent"
           /\ \A f \in Execs \ {e} : run[f] = run[e] /\ threads[f][c].step \in LoadSteps
                 => threads[f][c].attempt # threads[e][c].attempt
    BY DEF Inv, ThreadInv
  <1> QED
    BY <1>1, <1>2, <1>3, <1>4, <1>5, <1>6

\* A thread that ends, or goes on where only the record matters to it.
LEMMA PlainThreadStep ==
    ASSUME Inv, NEW e \in Execs, NEW c \in Chunks, Busy(e, c),
           NEW step \in {"inspect", "verify", "done", "error"}, Thread(e, c, step),
           \/ chunks' = chunks
           \/ /\ Live(e)
              /\ \E ph \in {"staging", "verified", "failed"} :
                    Write(e, c, [phase |-> ph, attempt |-> threads[e][c].attempt]),
           \/ attempts' = attempts
           \/ /\ threads[e][c].step \in LoadSteps
              /\ \E state \in AttemptType : SetAttempt(e, c, state),
           \/ held' = held
           \/ held' = 0 /\ threads[e][c].step \in LoadSteps,
           step \in {"inspect", "verify"} => threads[e][c].step # "write",
           faults' \in 0..MaxFaults,
           UNCHANGED <<lease, run, pc, cancelled, plans, phase, target, gen, genMeta, pending,
                       exchanged, settled, evidenced, advanced>>
    PROVE  Inv'
  <1> DEFINE r == run[e]
             a == threads[e][c].attempt
  <1>1. /\ pc[e] \in {"chunks", "joining"} /\ r \in Runs
        /\ a \in Attempts /\ a \in Nat
        /\ Live(e) => /\ a = Record(e, c).attempt
                      /\ threads[e][c].step # "write" => Record(e, c).phase # "none"
    BY BusyThread
  <1>2. /\ threads' \in [Execs -> [Chunks -> ThreadType]]
        /\ threads'[e][c].step = step /\ threads'[e][c].attempt = a
        /\ \A f \in Execs, d \in Chunks :
              f # e \/ d # c => threads'[f][d] = threads[f][d]
    <2>1. step \in ThreadSteps
      BY DEF ThreadSteps
    <2> QED
      BY <2>1, StepUpdate DEF Inv
  <1>3. /\ chunks' \in [Runs -> [Chunks -> RecordType]]
        /\ \A q \in Runs, d \in Chunks : q # r \/ d # c => chunks'[q][d] = chunks[q][d]
        /\ \/ chunks' = chunks
           \/ /\ Live(e) /\ chunks'[r][c].phase # "none" /\ chunks'[r][c].attempt = a
    <2>1. CASE chunks' = chunks
      BY <2>1, TypesNow
    <2>2. CASE /\ Live(e)
               /\ \E ph \in {"staging", "verified", "failed"} :
                     Write(e, c, [phase |-> ph, attempt |-> a])
      <3>1. PICK ph \in {"staging", "verified", "failed"} :
               Write(e, c, [phase |-> ph, attempt |-> a])
        BY <2>2
      <3> DEFINE rec == [phase |-> ph, attempt |-> a]
      <3>2. rec \in RecordType /\ rec.phase # "none" /\ rec.attempt = a
        BY <1>1 DEF RecordType
      <3> HIDE DEF rec
      <3>3. Write(e, c, rec)
        BY <3>1 DEF rec
      <3>4. /\ chunks' \in [Runs -> [Chunks -> RecordType]] /\ chunks'[r][c] = rec
            /\ \A q \in Runs, d \in Chunks : q # r \/ d # c => chunks'[q][d] = chunks[q][d]
        BY <1>1, <3>2, <3>3, RecordUpdate DEF Inv
      <3> QED
        BY <2>2, <3>2, <3>4
    <2> QED
      BY <2>1, <2>2
  <1>4. /\ attempts' \in [Runs -> [Chunks -> [Attempts -> AttemptType]]]
        /\ TablesKept(e, c)
    <2>1. CASE attempts' = attempts
      BY <2>1, TypesNow DEF TablesKept
    <2>2. CASE /\ threads[e][c].step \in LoadSteps
               /\ \E state \in AttemptType : SetAttempt(e, c, state)
      <3>1. PICK state \in AttemptType : PutAttempt(r, c, a, state)
        BY <2>2 DEF SetAttempt, PutAttempt
      <3>2. /\ attempts' \in [Runs -> [Chunks -> [Attempts -> AttemptType]]]
            /\ \A q \in Runs, d \in Chunks, b \in Attempts :
                  q # r \/ d # c \/ b # a => attempts'[q][d][b] = attempts[q][d][b]
        BY <1>1, <3>1, AttemptUpdate DEF Inv
      <3> QED
        BY <2>2, <3>2 DEF TablesKept
    <2> QED
      BY <2>1, <2>2
  <1>5. TypeOK'
    <2>1. held' \in 0..MaxFence
      BY TypesNow, ExecsAre
    <2> QED
      BY <1>2, <1>3, <1>4, <2>1, ThreadTypes
  <1>6. OnlyThread(e, c) /\ RecordKept(e, c)
    BY <1>1, <1>2, <1>3 DEF OnlyThread, RecordKept, Record
  <1>7. GuardKept(e, c) /\ LoadKept(e, c)
    BY <1>2 DEF GuardKept, LoadKept, LoadSteps
  <1>8. ThreadKept(e, c)
    BY <1>1, <1>2, <1>3 DEF ThreadKept, Record
  <1> QED
    BY <1>1, <1>4, <1>5, <1>6, <1>7, <1>8, ThreadStep

LEMMA RefuseChunkStep ==
    ASSUME Inv, NEW e \in Execs, NEW c \in Chunks, RefuseChunk(e, c) \/ BreakChunk(e, c)
    PROVE  Inv'
  <1>1. /\ Busy(e, c) /\ Thread(e, c, "error")
        /\ UNCHANGED <<run, pc, cancelled, store, table, effect>>
    BY DEF RefuseChunk, BreakChunk, Busy
  <1>2. faults' \in 0..MaxFaults
    BY TypesNow, WindowAssumption DEF RefuseChunk, BreakChunk
  <1>3. held' = held \/ (held' = 0 /\ threads[e][c].step \in LoadSteps)
    BY DEF RefuseChunk, BreakChunk, LoadSteps
  <1> QED
    BY <1>1, <1>2, <1>3, PlainThreadStep DEF store, table, effect

LEMMA LoseChunkStep ==
    ASSUME Inv, NEW e \in Execs, NEW c \in Chunks, LoseChunk(e, c)
    PROVE  Inv'
  <1>1. /\ threads[e][c].step = "load" /\ Busy(e, c) /\ held' = 0 /\ Thread(e, c, "inspect")
        /\ \E state \in AttemptType : SetAttempt(e, c, state)
        /\ UNCHANGED <<run, pc, cancelled, store, target, gen, genMeta, pending,
                       exchanged, settled, effect>>
    BY DEF LoseChunk, Busy, AttemptType
  <1>2. faults' \in 0..MaxFaults
    BY TypesNow, WindowAssumption DEF LoseChunk
  <1> QED
    BY <1>1, <1>2, PlainThreadStep DEF store, effect, LoadSteps

LEMMA SaveReceiptStep ==
    ASSUME Inv, NEW e \in Execs, NEW c \in Chunks, SaveReceipt(e, c)
    PROVE  Inv'
  <1>1. /\ threads[e][c].step = "receipt" /\ Busy(e, c) /\ held' = 0 /\ Thread(e, c, "verify")
        /\ \E state \in AttemptType : SetAttempt(e, c, state)
        /\ UNCHANGED <<run, pc, cancelled, store, target, gen, genMeta, pending,
                       exchanged, settled, effect, faults>>
    BY DEF SaveReceipt, Busy, AttemptType
  <1> QED
    BY <1>1, TypesNow, PlainThreadStep DEF store, effect, LoadSteps

LEMMA StopChunkStep ==
    ASSUME Inv, NEW e \in Execs, NEW c \in Chunks, StopChunk(e, c)
    PROVE  Inv'
  <1>1. /\ threads[e][c].step = "load" /\ Busy(e, c) /\ held' = 0 /\ Thread(e, c, "error")
        /\ \/ chunks' = chunks
           \/ /\ Live(e)
              /\ Write(e, c, [phase |-> "failed", attempt |-> threads[e][c].attempt])
        /\ UNCHANGED <<lease, run, pc, cancelled, plans, phase, table, effect, faults>>
    BY DEF StopChunk, Busy
  <1> QED
    BY <1>1, TypesNow, PlainThreadStep DEF table, effect, LoadSteps

LEMMA RejectChunkStep ==
    ASSUME Inv, NEW e \in Execs, NEW c \in Chunks, RejectChunk(e, c)
    PROVE  Inv'
  <1>1. /\ Busy(e, c) /\ Thread(e, c, "error") /\ Live(e)
        /\ Write(e, c, [phase |-> "failed", attempt |-> threads[e][c].attempt])
        /\ UNCHANGED <<lease, run, pc, cancelled, plans, phase, table, effect>>
    BY DEF RejectChunk, Busy
  <1>2. faults' \in 0..MaxFaults
    BY TypesNow, WindowAssumption DEF RejectChunk
  <1>3. held' = held \/ (held' = 0 /\ threads[e][c].step \in LoadSteps)
    BY DEF RejectChunk, LoadSteps
  <1> QED
    BY <1>1, <1>2, <1>3, PlainThreadStep DEF table, effect

LEMMA VerifyChunkStep ==
    ASSUME Inv, NEW e \in Execs, NEW c \in Chunks, VerifyChunk(e, c)
    PROVE  Inv'
  <1>1. PICK step \in {"done", "error"} :
           /\ Thread(e, c, step)
           /\ \E ph \in {"staging", "verified", "failed"} :
                 Write(e, c, [phase |-> ph, attempt |-> threads[e][c].attempt])
    BY DEF VerifyChunk
  <1>2. /\ threads[e][c].step = "verify" /\ Busy(e, c) /\ Live(e)
        /\ UNCHANGED <<lease, held, run, pc, cancelled, plans, phase, table, effect, faults>>
    BY DEF VerifyChunk, Busy
  <1> QED
    BY <1>1, <1>2, TypesNow, PlainThreadStep DEF table, effect

\* A thread starts from its record, which may be terminal.
LEMMA StartChunkStep ==
    ASSUME Inv, NEW e \in Execs, NEW c \in Chunks, StartChunk(e, c)
    PROVE  Inv'
  <1> DEFINE r == run[e]
             rec == chunks[r][c]
  <1>1. /\ pc[e] = "chunks" /\ threads[e][c].step = "idle"
        /\ UNCHANGED <<held, run, pc, cancelled, store, table, effect, faults>>
    BY DEF StartChunk
  <1>2. UNCHANGED <<lease, plans, phase, chunks, attempts, target, gen, genMeta, pending,
                    exchanged, settled, evidenced, advanced>>
    BY <1>1 DEF store, table, effect
  <1>3. PICK step \in {"error", "write", "inspect"} :
           /\ threads' = [threads EXCEPT ![e][c] =
                            [step |-> step, attempt |-> rec.attempt, next |-> 0]]
           /\ step = "write" => rec.phase = "none"
           /\ step = "inspect" => rec.phase # "none"
    <2>1. CASE rec.phase = "failed"
      BY <2>1, Zenon DEF StartChunk
    <2>2. CASE rec.phase = "none"
      <3>1. rec.phase # "failed"
        BY <2>2
      <3> QED
        BY <2>2, <3>1, Zenon DEF StartChunk
    <2>3. CASE rec.phase # "failed" /\ rec.phase # "none"
      BY <2>3, Zenon DEF StartChunk
    <2> QED
      BY <2>1, <2>2, <2>3
  <1>4. r \in Runs /\ rec \in RecordType /\ rec.attempt \in Attempts
    <2>1. r \in Runs
      BY <1>1 DEF Inv, LeaseInv
    <2> QED
      BY <2>1, TypesNow DEF RecordType
  <1> DEFINE t == [step |-> step, attempt |-> rec.attempt, next |-> 0]
  <1>5. t \in ThreadType /\ t.step = step /\ t.attempt = rec.attempt
    BY <1>4, ExecsAre DEF ThreadType, ThreadSteps
  <1> HIDE DEF t
  <1>6. /\ threads' \in [Execs -> [Chunks -> ThreadType]] /\ threads'[e][c] = t
        /\ \A f \in Execs, d \in Chunks :
              f # e \/ d # c => threads'[f][d] = threads[f][d]
    <2>1. threads' = [threads EXCEPT ![e][c] = t]
      BY <1>3 DEF t
    <2> QED
      BY <1>5, <2>1, TypesNow
  <1>7. TypeOK'
    BY <1>1, <1>2, <1>6, TypesNow, ThreadTypes
  <1>8. OnlyThread(e, c) /\ RecordKept(e, c) /\ TablesKept(e, c) /\ GuardKept(e, c) /\ LoadKept(e, c)
    BY <1>1, <1>2, <1>5, <1>6
       DEF OnlyThread, RecordKept, TablesKept, GuardKept, LoadKept, LoadSteps
  <1>9. ThreadKept(e, c)
    <2>1. step = "write" => /\ \A a \in Attempts : attempts[r][c][a] = "absent"
                            /\ \A f \in Execs : run[f] = r => threads[f][c].step \notin LoadSteps
      BY <1>3, <1>4 DEF Inv, JournalInv, Record
    <2> QED
      BY <1>2, <1>3, <1>4, <1>5, <1>6, <2>1 DEF ThreadKept
  <1> QED
    BY <1>1, <1>7, <1>8, <1>9, ThreadStep

\* A given up attempt is followed by one nobody has touched.
LEMMA InspectChunkStep ==
    ASSUME Inv, NEW e \in Execs, NEW c \in Chunks, InspectChunk(e, c)
    PROVE  Inv'
  <1> DEFINE r == run[e]
             a == threads[e][c].attempt
  <1>1. /\ threads[e][c].step = "inspect" /\ Busy(e, c) /\ Live(e) /\ held = 0
        /\ UNCHANGED <<lease, held, run, pc, cancelled, plans, phase, table, effect, faults>>
    BY DEF InspectChunk, Checked, Busy
  <1>2. UNCHANGED <<attempts, target, gen, genMeta, pending, exchanged, settled,
                    evidenced, advanced>>
    BY <1>1 DEF table, effect
  <1>3. \/ Write(e, c, [phase |-> "verified", attempt |-> a]) /\ Thread(e, c, "done")
        \/ Thread(e, c, "error") /\ UNCHANGED chunks
        \/ Write(e, c, [phase |-> "failed", attempt |-> a]) /\ Thread(e, c, "error")
        \/ /\ Write(e, c, [phase |-> "staging", attempt |-> a + 1])
           /\ threads' = [threads EXCEPT ![e][c] =
                            [step |-> "discard", attempt |-> a + 1, next |-> 0]]
           /\ a # LastAttempt
    BY Zenon DEF InspectChunk
  <1>4. CASE \E step \in {"done", "error"} :
                /\ Thread(e, c, step)
                /\ \/ chunks' = chunks
                   \/ \E ph \in {"staging", "verified", "failed"} :
                         Write(e, c, [phase |-> ph, attempt |-> a])
    BY <1>1, <1>2, <1>4, TypesNow, PlainThreadStep
  <1>5. CASE /\ Write(e, c, [phase |-> "staging", attempt |-> a + 1])
             /\ threads' = [threads EXCEPT ![e][c] =
                              [step |-> "discard", attempt |-> a + 1, next |-> 0]]
             /\ a # LastAttempt
    <2>1. /\ pc[e] \in {"chunks", "joining"} /\ r \in Runs
          /\ a \in Attempts /\ a \in Nat /\ a = Record(e, c).attempt
      BY <1>1, BusyThread
    <2>2. a + 1 \in Attempts /\ a + 1 > a /\ 0 < a + 1 /\ a <= a + 1
      BY <1>5, <2>1, ExecsAre
    <2> DEFINE t == [step |-> "discard", attempt |-> a + 1, next |-> 0]
               rec == [phase |-> "staging", attempt |-> a + 1]
    <2>3. /\ t \in ThreadType /\ t.step = "discard" /\ t.attempt = a + 1 /\ t.next = 0
          /\ rec \in RecordType /\ rec.phase # "none" /\ rec.attempt = a + 1
      BY <2>2, ExecsAre DEF ThreadType, ThreadSteps, RecordType
    <2>4. threads' = [threads EXCEPT ![e][c] = t] /\ Write(e, c, rec)
      BY <1>5
    <2> HIDE DEF t, rec
    <2>5. /\ threads' \in [Execs -> [Chunks -> ThreadType]] /\ threads'[e][c] = t
          /\ \A f \in Execs, d \in Chunks :
                f # e \/ d # c => threads'[f][d] = threads[f][d]
      BY <2>3, <2>4, TypesNow
    <2>6. /\ chunks' \in [Runs -> [Chunks -> RecordType]] /\ chunks'[r][c] = rec
          /\ \A q \in Runs, d \in Chunks : q # r \/ d # c => chunks'[q][d] = chunks[q][d]
      BY <2>1, <2>3, <2>4, RecordUpdate DEF Inv
    <2>7. TypeOK'
      BY <1>1, <1>2, <2>5, <2>6, TypesNow, ThreadTypes
    <2>8. OnlyThread(e, c) /\ TablesKept(e, c) /\ GuardKept(e, c) /\ LoadKept(e, c)
      BY <1>1, <1>2, <2>3, <2>5, <2>6
         DEF OnlyThread, TablesKept, GuardKept, LoadKept, LoadSteps
    <2>9. RecordKept(e, c)
      BY <1>1, <2>1, <2>2, <2>3, <2>5, <2>6 DEF RecordKept
    <2>10. ThreadKept(e, c)
      <3>1. attempts[r][c][a + 1] = "absent"
        BY <2>1, <2>2 DEF Inv, JournalInv, Record
      <3>2. \A f \in Execs : threads[f][c].step \notin LoadSteps
        BY <1>1, ExecsAre DEF Inv, HoldInv
      <3> QED
        BY <1>2, <2>2, <2>3, <2>5, <2>6, <3>1, <3>2 DEF ThreadKept
    <2> QED
      BY <2>1, <2>7, <2>8, <2>9, <2>10, ThreadStep
  <1> QED
    BY <1>3, <1>4, <1>5

LEMMA DiscardChunkStep ==
    ASSUME Inv, NEW e \in Execs, NEW c \in Chunks, DiscardChunk(e, c)
    PROVE  Inv'
  <1> DEFINE r == run[e]
             old == threads[e][c]
  <1>1. /\ old.step = "discard" /\ Busy(e, c) /\ Live(e) /\ held = 0
        /\ PutAttempt(r, c, old.next, "absent")
        /\ UNCHANGED <<held, run, pc, cancelled, store, target, gen, genMeta, pending,
                       exchanged, settled, effect, faults>>
    BY DEF DiscardChunk, Checked, Busy, PutAttempt
  <1>2. UNCHANGED <<lease, plans, phase, chunks, evidenced, advanced>>
    BY <1>1 DEF store, effect
  <1>3. /\ pc[e] \in {"chunks", "joining"} /\ r \in Runs /\ old \in ThreadType
        /\ old.attempt = Record(e, c).attempt /\ Record(e, c).phase # "none"
        /\ attempts[r][c][old.attempt] = "absent"
        /\ \A f \in Execs \ {e} : run[f] = r /\ threads[f][c].step \in LoadSteps
              => threads[f][c].attempt # old.attempt
    BY <1>1, BusyThread DEF Attempt
  <1>4. /\ old.attempt \in Attempts /\ old.next \in Attempts /\ old.next < old.attempt
    BY <1>1, <1>3 DEF Inv, ThreadInv, ThreadType
  <1>5. /\ old.next + 1 \in Attempts
        /\ old.next + 1 # old.attempt => old.next + 1 < old.attempt
    BY <1>4, WindowAssumption DEF Attempts
  <1>6. PICK step \in {"write", "discard"} :
           /\ threads' = [threads EXCEPT ![e][c] =
                            [old EXCEPT !.next = old.next + 1, !.step = step]]
           /\ step = "discard" => old.next + 1 < old.attempt
    <2>1. CASE old.next + 1 = old.attempt
      BY <2>1 DEF DiscardChunk
    <2>2. CASE old.next + 1 # old.attempt
      BY <1>5, <2>2 DEF DiscardChunk
    <2> QED
      BY <2>1, <2>2
  <1> DEFINE t == [old EXCEPT !.next = old.next + 1, !.step = step]
  <1>7. /\ t \in ThreadType /\ t.step = step /\ t.attempt = old.attempt
        /\ t.next = old.next + 1
    BY <1>3, <1>4, <1>5 DEF ThreadType, ThreadSteps
  <1>8. threads' = [threads EXCEPT ![e][c] = t]
    BY <1>6
  <1> HIDE DEF t
  <1>9. /\ threads' \in [Execs -> [Chunks -> ThreadType]] /\ threads'[e][c] = t
        /\ \A f \in Execs, d \in Chunks :
              f # e \/ d # c => threads'[f][d] = threads[f][d]
    BY <1>7, <1>8, TypesNow
  <1>10. /\ attempts' \in [Runs -> [Chunks -> [Attempts -> AttemptType]]]
         /\ attempts'[r][c][old.next] = "absent"
         /\ \A q \in Runs, d \in Chunks, b \in Attempts :
               q # r \/ d # c \/ b # old.next => attempts'[q][d][b] = attempts[q][d][b]
    BY <1>1, <1>3, <1>4, AttemptUpdate DEF Inv, AttemptType
  <1>11. TypeOK'
    BY <1>1, <1>2, <1>9, <1>10, TypesNow, ThreadTypes
  <1>12. OnlyThread(e, c) /\ RecordKept(e, c) /\ GuardKept(e, c) /\ LoadKept(e, c)
    BY <1>1, <1>2, <1>7, <1>9 DEF OnlyThread, RecordKept, GuardKept, LoadKept, LoadSteps
  <1>13. TablesKept(e, c)
    BY <1>10 DEF TablesKept
  <1>14. ThreadKept(e, c)
    <2>1. attempts'[r][c][old.attempt] = "absent"
      BY <1>3, <1>4, <1>10
    <2> QED
      BY <1>2, <1>3, <1>6, <1>7, <1>9, <2>1 DEF ThreadKept, Record
  <1> QED
    BY <1>3, <1>11, <1>12, <1>13, <1>14, ThreadStep

LEMMA WriteStagingStep ==
    ASSUME Inv, NEW e \in Execs, NEW c \in Chunks, WriteStaging(e, c)
    PROVE  Inv'
  <1> DEFINE r == run[e]
             a == threads[e][c].attempt
             rec == [phase |-> "staging", attempt |-> a]
  <1>1. /\ threads[e][c].step = "write" /\ Busy(e, c) /\ Live(e)
        /\ Write(e, c, rec) /\ Thread(e, c, "stage")
        /\ UNCHANGED <<lease, held, run, pc, cancelled, plans, phase, table, effect, faults>>
    BY DEF WriteStaging, Busy
  <1>2. UNCHANGED <<attempts, target, gen, genMeta, pending, exchanged, settled,
                    evidenced, advanced>>
    BY <1>1 DEF table, effect
  <1>3. /\ pc[e] \in {"chunks", "joining"} /\ r \in Runs
        /\ a \in Attempts /\ a \in Nat /\ a = Record(e, c).attempt
        /\ attempts[r][c][a] = "absent"
        /\ \A f \in Execs \ {e} : run[f] = r /\ threads[f][c].step \in LoadSteps
              => threads[f][c].attempt # a
    BY <1>1, BusyThread DEF Attempt
  <1>4. rec \in RecordType /\ rec.phase # "none" /\ rec.attempt = a
    BY <1>3 DEF RecordType
  <1> HIDE DEF rec
  <1>5. /\ threads' \in [Execs -> [Chunks -> ThreadType]]
        /\ threads'[e][c].step = "stage" /\ threads'[e][c].attempt = a
        /\ \A f \in Execs, d \in Chunks :
              f # e \/ d # c => threads'[f][d] = threads[f][d]
    <2>1. "stage" \in ThreadSteps
      BY DEF ThreadSteps
    <2> QED
      BY <1>1, <2>1, StepUpdate DEF Inv
  <1>6. /\ chunks' \in [Runs -> [Chunks -> RecordType]] /\ chunks'[r][c] = rec
        /\ \A q \in Runs, d \in Chunks : q # r \/ d # c => chunks'[q][d] = chunks[q][d]
    BY <1>1, <1>3, <1>4, RecordUpdate DEF Inv
  <1>7. TypeOK'
    BY <1>1, <1>2, <1>5, <1>6, TypesNow, ThreadTypes
  <1>8. OnlyThread(e, c) /\ TablesKept(e, c) /\ GuardKept(e, c) /\ LoadKept(e, c)
    BY <1>1, <1>2, <1>5, <1>6 DEF OnlyThread, TablesKept, GuardKept, LoadKept, LoadSteps
  <1>9. RecordKept(e, c)
    BY <1>1, <1>3, <1>4, <1>5, <1>6 DEF RecordKept
  <1>10. ThreadKept(e, c)
    BY <1>2, <1>3, <1>4, <1>5, <1>6 DEF ThreadKept
  <1> QED
    BY <1>3, <1>7, <1>8, <1>9, <1>10, ThreadStep

\* The guard is taken for a load.
LEMMA StageChunkStep ==
    ASSUME Inv, NEW e \in Execs, NEW c \in Chunks, StageChunk(e, c)
    PROVE  Inv'
  <1> DEFINE r == run[e]
             a == threads[e][c].attempt
  <1>1. /\ threads[e][c].step = "stage" /\ Busy(e, c) /\ Live(e) /\ held = 0
        /\ UNCHANGED <<lease, run, pc, cancelled, plans, phase, target, gen, genMeta, pending,
                       exchanged, settled, effect, faults>>
    BY DEF StageChunk, Busy
  <1>2. UNCHANGED <<evidenced, advanced>>
    BY <1>1 DEF effect
  <1>3. \/ SetAttempt(e, c, "partial") /\ held' = e /\ Thread(e, c, "load") /\ UNCHANGED chunks
        \/ Thread(e, c, "verify") /\ UNCHANGED <<attempts, held, chunks>>
        \/ /\ Write(e, c, [phase |-> "failed", attempt |-> a])
           /\ Thread(e, c, "error") /\ UNCHANGED <<attempts, held>>
    BY Zenon DEF StageChunk
  <1>4. CASE SetAttempt(e, c, "partial") /\ held' = e /\ Thread(e, c, "load") /\ UNCHANGED chunks
    <2>1. /\ pc[e] \in {"chunks", "joining"} /\ r \in Runs
          /\ a \in Attempts /\ a = Record(e, c).attempt /\ Record(e, c).phase # "none"
      BY <1>1, BusyThread
    <2>2. /\ threads' \in [Execs -> [Chunks -> ThreadType]]
          /\ threads'[e][c].step = "load" /\ threads'[e][c].attempt = a
          /\ \A f \in Execs, d \in Chunks :
                f # e \/ d # c => threads'[f][d] = threads[f][d]
      <3>1. "load" \in ThreadSteps
        BY DEF ThreadSteps
      <3> QED
        BY <1>4, <3>1, StepUpdate DEF Inv
    <2>3. /\ attempts' \in [Runs -> [Chunks -> [Attempts -> AttemptType]]]
          /\ \A q \in Runs, d \in Chunks, b \in Attempts :
                q # r \/ d # c \/ b # a => attempts'[q][d][b] = attempts[q][d][b]
      <3>1. PutAttempt(r, c, a, "partial") /\ "partial" \in AttemptType
        BY <1>4 DEF SetAttempt, PutAttempt, AttemptType
      <3> QED
        BY <2>1, <3>1, AttemptUpdate DEF Inv
    <2>4. TypeOK'
      <3>1. held' \in 0..MaxFence
        BY <1>4, ExecsAre
      <3> QED
        BY <1>1, <1>2, <1>4, <2>2, <2>3, <3>1, TypesNow, ThreadTypes
    <2>5. OnlyThread(e, c) /\ RecordKept(e, c) /\ GuardKept(e, c) /\ LoadKept(e, c)
      BY <1>1, <1>2, <1>4, <2>1, <2>2
         DEF OnlyThread, RecordKept, GuardKept, LoadKept, LoadSteps
    <2>6. TablesKept(e, c)
      BY <1>1, <2>3 DEF TablesKept
    <2>7. ThreadKept(e, c)
      BY <1>4, <2>1, <2>2 DEF ThreadKept, Record
    <2> QED
      BY <2>1, <2>4, <2>5, <2>6, <2>7, ThreadStep
  <1>5. CASE Thread(e, c, "verify") /\ UNCHANGED <<attempts, held, chunks>>
    BY <1>1, <1>2, <1>5, TypesNow, PlainThreadStep
  <1>6. CASE /\ Write(e, c, [phase |-> "failed", attempt |-> a])
             /\ Thread(e, c, "error") /\ UNCHANGED <<attempts, held>>
    BY <1>1, <1>2, <1>6, TypesNow, PlainThreadStep
  <1> QED
    BY <1>3, <1>4, <1>5, <1>6

LEMMA LoadChunkStep ==
    ASSUME Inv, NEW e \in Execs, NEW c \in Chunks, LoadChunk(e, c)
    PROVE  Inv'
  <1> DEFINE r == run[e]
             a == threads[e][c].attempt
  <1>1. /\ threads[e][c].step = "load" /\ Busy(e, c) /\ Live(e)
        /\ SetAttempt(e, c, "whole") /\ Thread(e, c, "receipt")
        /\ UNCHANGED <<held, run, pc, cancelled, store, target, gen, genMeta, pending,
                       exchanged, settled, effect, faults>>
    BY DEF LoadChunk, Checked, Busy
  <1>2. UNCHANGED <<lease, plans, phase, chunks, evidenced, advanced>>
    BY <1>1 DEF store, effect
  <1>3. /\ pc[e] \in {"chunks", "joining"} /\ r \in Runs
        /\ a \in Attempts /\ a = Record(e, c).attempt /\ Record(e, c).phase # "none"
    BY <1>1, BusyThread
  <1>4. /\ threads' \in [Execs -> [Chunks -> ThreadType]]
        /\ threads'[e][c].step = "receipt" /\ threads'[e][c].attempt = a
        /\ \A f \in Execs, d \in Chunks :
              f # e \/ d # c => threads'[f][d] = threads[f][d]
    <2>1. "receipt" \in ThreadSteps
      BY DEF ThreadSteps
    <2> QED
      BY <1>1, <2>1, StepUpdate DEF Inv
  <1>5. /\ attempts' \in [Runs -> [Chunks -> [Attempts -> AttemptType]]]
        /\ \A q \in Runs, d \in Chunks, b \in Attempts :
              q # r \/ d # c \/ b # a => attempts'[q][d][b] = attempts[q][d][b]
    <2>1. PutAttempt(r, c, a, "whole") /\ "whole" \in AttemptType
      BY <1>1 DEF SetAttempt, PutAttempt, AttemptType
    <2> QED
      BY <1>3, <2>1, AttemptUpdate DEF Inv
  <1>6. TypeOK'
    BY <1>1, <1>2, <1>4, <1>5, TypesNow, ThreadTypes
  <1>7. OnlyThread(e, c) /\ RecordKept(e, c) /\ GuardKept(e, c) /\ LoadKept(e, c)
    BY <1>1, <1>2, <1>4 DEF OnlyThread, RecordKept, GuardKept, LoadKept, LoadSteps
  <1>8. TablesKept(e, c)
    BY <1>1, <1>5 DEF TablesKept, LoadSteps
  <1>9. ThreadKept(e, c)
    BY <1>2, <1>3, <1>4 DEF ThreadKept, Record
  <1> QED
    BY <1>3, <1>6, <1>7, <1>8, <1>9, ThreadStep

-----------------------------------------------------------------------------
(* The invariant, and what follows from it *)

LEMMA InitInv == Init => Inv
  <1> SUFFICES ASSUME Init PROVE Inv
    OBVIOUS
  <1>1. TypeOK
    <2>1. lease \in [fence : 0..MaxFence, live : BOOLEAN] /\ held \in 0..MaxFence
      BY WindowAssumption DEF Init
    <2>2. run \in [Execs -> Runs \cup {NoRun}] /\ pc \in [Execs -> MainSteps] /\ cancelled \subseteq Execs
      BY DEF Init, MainSteps
    <2>3. threads \in [Execs -> [Chunks -> [step : ThreadSteps, attempt : Attempts, next : Attempts]]]
      BY ExecsAre DEF Init, Idle, ThreadSteps
    <2>4. plans \subseteq Runs /\ phase \in [Runs -> Phases]
      BY DEF Init, Phases
    <2>5. chunks \in [Runs -> [Chunks -> [phase : {"none", "staging", "verified", "failed"},
                                          attempt : Attempts]]]
      BY ExecsAre DEF Init, NoRecord
    <2>6. attempts \in [Runs -> [Chunks -> [Attempts -> {"absent", "partial", "whole", "verified"}]]]
      BY DEF Init
    <2>7. EmptyRows \in Rows
      BY DEF EmptyRows, Rows
    <2>8. target \in [uuid : 0..MaxFence, rows : Rows]
      BY <2>7, WindowAssumption DEF Init
    <2>9. gen \in [Runs -> [uuid : -1..MaxFence, rows : Rows]]
      BY <2>7, WindowAssumption DEF Init, NoTable
    <2>10. genMeta \in [Runs -> [original : -1..MaxFence, prepared : -1..MaxFence,
                                 base : [Windows -> Runs \cup {NoRun}],
                                 receipts : [Chunks -> -1..LastAttempt]]]
      BY WindowAssumption DEF Init, NoMeta
    <2>11. pending \in Runs \cup {NoRun} /\ {evidenced, advanced, exchanged, settled} \subseteq SUBSET Runs
      BY DEF Init
    <2>12. faults \in 0..MaxFaults
      BY WindowAssumption DEF Init
    <2> QED
      BY <2>1, <2>2, <2>3, <2>4, <2>5, <2>6, <2>8, <2>9, <2>10, <2>11, <2>12, Zenon DEF TypeOK
  <1>2. /\ \A e \in Execs : pc[e] = "unused" /\ ~Live(e)
        /\ \A e \in Execs, c \in Chunks : threads[e][c].step = "idle"
    BY DEF Init, Idle, Live
  <1>3. LeaseInv
    <2>1. \A e \in Execs : e > lease.fence
      BY DEF Init, Execs
    <2> QED
      BY <1>2, <2>1 DEF LeaseInv, Busy
  <1>4. HoldInv /\ ThreadInv
    BY <1>2 DEF HoldInv, ThreadInv, HoldSteps, LoadSteps
  <1>5. JournalInv
    <2>1. \A r \in Runs, c \in Chunks : chunks[r][c].attempt = 0
      BY DEF Init, NoRecord
    <2>2. \A r \in Runs, c \in Chunks, a \in Attempts : attempts[r][c][a] = "absent"
      BY DEF Init
    <2> QED
      BY <1>2, <2>1, <2>2 DEF JournalInv, LoadSteps
  <1>6. TableInv
    <2>1. /\ target.uuid = 0 /\ target.rows = EmptyRows
          /\ \A r \in Runs : gen[r].uuid = -1 /\ gen[r].rows = EmptyRows
      BY DEF Init, NoTable
    <2>2. \A w \in Windows : EmptyRows[w].whole
      BY DEF EmptyRows
    <2> QED
      BY <2>1, <2>2, ExecsAre DEF TableInv
  <1>7. GenerationInv
    BY <1>2 DEF Init, GenerationInv
  <1>8. MarkerInv /\ EffectInv
    BY <1>2 DEF Init, MarkerInv, EffectInv, Published
  <1> QED
    BY <1>1, <1>3, <1>4, <1>5, <1>6, <1>7, <1>8 DEF Inv

LEMMA MainStepInv ==
    ASSUME Inv, NEW e \in Execs, MainStep(e)
    PROVE  Inv'
  BY BeginStep, ValidateStep, ReadRunStep, ChunksFailStep, JoinChunksStep, ChunksDoneStep,
     ReusePreparedStep, PrepareStep, SavePreparedStep, RecordStep, PublishStep,
     MarkPendingStep, ExchangeStep, SettleExchangeStep, ConfirmStep, EffectStep, UnwindStep,
     ReleaseStep DEF MainStep

LEMMA ChunkStepInv ==
    ASSUME Inv, NEW e \in Execs, NEW c \in Chunks, ChunkStep(e, c)
    PROVE  Inv'
  BY StartChunkStep, InspectChunkStep, DiscardChunkStep, WriteStagingStep, StageChunkStep,
     LoadChunkStep, SaveReceiptStep, VerifyChunkStep, StopChunkStep, RefuseChunkStep
     DEF ChunkStep

LEMMA FaultInv ==
    ASSUME Inv, NEW e \in Execs, Fault(e)
    PROVE  Inv'
  BY HeartbeatStep, ExchangeStep, UnwindStep, CrashStep, LoseChunkStep, RejectChunkStep,
     RefuseChunkStep
     DEF Fault

LEMMA NextInv == Inv /\ [Next]_vars => Inv'
  <1> SUFFICES ASSUME Inv, [Next]_vars PROVE Inv'
    OBVIOUS
  <1>1. CASE UNCHANGED vars
    <2>1. /\ UNCHANGED <<lease, held, run, pc, cancelled, threads, plans, phase, chunks,
                         attempts, target, gen, genMeta, pending, evidenced, advanced,
                         exchanged, settled, faults>>
      BY <1>1 DEF vars
    <2>2. TypeOK'
      BY <2>1, Zenon DEF Inv, TypeOK
    <2>3. LeaseShrinks
      BY <2>1 DEF LeaseShrinks, Live
    <2>4. JournalInv' /\ ThreadInv'
      BY <2>1, <2>3, ThreadsUnmoved
    <2>5. LeaseInv' /\ HoldInv' /\ TableInv' /\ EffectInv'
      BY <2>1 DEF Inv, LeaseInv, HoldInv, TableInv, EffectInv, Busy
    <2>6. GenerationInv' /\ MarkerInv'
      BY <2>1 DEF Inv, GenerationInv, MarkerInv, RunsIn, Live, NoMeta
    <2> QED
      BY <2>2, <2>4, <2>5, <2>6 DEF Inv
  <1>2. CASE \E r \in Runs : Acquire(r)
    BY <1>2, AcquireStep
  <1>3. CASE Expire
    BY <1>3, ExpireStep
  <1>4. CASE \E e \in Execs : MainStep(e)
    BY <1>4, MainStepInv
  <1>5. CASE \E e \in Execs : \E c \in Chunks : ChunkStep(e, c)
    BY <1>5, ChunkStepInv
  <1>6. CASE \E e \in Execs : Fault(e)
    BY <1>6, FaultInv
  <1> QED
    BY <1>1, <1>2, <1>3, <1>4, <1>5, <1>6 DEF Next

LEMMA AlwaysInv == Spec => []Inv
  BY InitInv, NextInv, PTL DEF Spec

\* Type correctness: leases, threads, journal, tables and metadata of every bounded
\* window execution hold values of their kind.
THEOREM TypeCorrect == Spec => []TypeOK
  <1>1. Inv => TypeOK
    BY DEF Inv
  <1> QED
    BY <1>1, AlwaysInv, PTL

\* RollingWindowRuntime advances source state only for runs whose rows are in the
\* target and whose evidence is durable, however executions crash, stall and overlap.
THEOREM StateFollows == Spec => []StateFollowsPublication
  <1>1. Inv => StateFollowsPublication
    BY DEF Inv, EffectInv, StateFollowsPublication
  <1> QED
    BY <1>1, AlwaysInv, PTL

\* WindowStaging and prepare: the target shows only whole windows, and the execution
\* that may stage an attempt finds no table left under its name.
THEOREM ChunksAreWhole == Spec => []ChunksAreWholeAndLoadedOnce
  <1>1. Inv => ChunksAreWholeAndLoadedOnce
    BY DEF Inv, TableInv, ThreadInv, Attempt, ChunksAreWholeAndLoadedOnce
  <1> QED
    BY <1>1, AlwaysInv, PTL

\* The target changes by the exchange of an execution that stands at it.
LEMMA TargetSteps ==
    ASSUME Next, target' # target
    PROVE  \E e \in Execs : pc[e] = "exchange" /\ Swap(run[e])
  <1>1. \A r \in Runs : ~Acquire(r)
    BY DEF Acquire, table
  <1>2. ~Expire
    BY DEF Expire, table
  <1>3. ASSUME NEW e \in Execs, MainStep(e) PROVE Exchange(e)
    BY <1>3 DEF MainStep, Begin, Validate, ReadRun, ChunksFail, JoinChunks, ChunksDone,
       ReusePrepared, Prepare, SavePrepared, RecordIntent, Publish, MarkPending,
       SettleExchange, Confirm, RecordPublished, WriteEvidence, RecordEvidence,
       AdvanceState, RecordSucceeded, Refuse, Release, table
  <1>4. ASSUME NEW e \in Execs, NEW c \in Chunks PROVE ~ChunkStep(e, c)
    BY DEF ChunkStep, StartChunk, InspectChunk, DiscardChunk, WriteStaging, StageChunk,
       LoadChunk, SaveReceipt, VerifyChunk, StopChunk, RefuseChunk, table
  <1>5. ASSUME NEW e \in Execs, Fault(e) PROVE LoseReply(e)
    BY <1>5 DEF Fault, Heartbeat, Break, Crash, LoseChunk, RejectChunk, BreakChunk, table
  <1>6. \E e \in Execs : Exchange(e) \/ LoseReply(e)
    BY <1>1, <1>2, <1>3, <1>4, <1>5 DEF Next
  <1> QED
    BY <1>6 DEF Exchange, LoseReply

\* ClickHouseWindowTarget.publish: an exchange replaces only the window of its run,
\* and never a run's rows twice, so no publication is undone.
THEOREM PublicationsStand == Spec => NoPublicationIsUndone
  <1> DEFINE A == \A w \in Windows :
                     target'.rows[w] # target.rows[w] =>
                        /\ target'.rows[w].run \in Runs \ exchanged
                        /\ WindowOf[target'.rows[w].run] = w
  <1>1. Inv /\ [Next]_vars => [A]_vars
    <2> SUFFICES ASSUME Inv, Next, NEW w \in Windows, target'.rows[w] # target.rows[w]
                 PROVE  /\ target'.rows[w].run \in Runs \ exchanged
                        /\ WindowOf[target'.rows[w].run] = w
      BY DEF vars
    <2>1. PICK e \in Execs : pc[e] = "exchange" /\ Swap(run[e])
      BY TargetSteps
    <2> DEFINE r == run[e]
    <2>2. /\ r \in Runs /\ r \notin exchanged
          /\ gen[r].rows[WindowOf[r]].run = r
          /\ \A v \in Windows \ {WindowOf[r]} : gen[r].rows[v].run = target.rows[v].run
      BY <2>1, AtExchange
    <2>3. target' = gen[r]
      BY <2>1, SwapIs
    <2>4. w = WindowOf[r]
      <3> SUFFICES ASSUME w # WindowOf[r] PROVE FALSE
        OBVIOUS
      <3>1. gen[r].rows[w].run = target.rows[w].run
        BY <2>2
      <3>2. gen[r].rows[w].whole /\ target.rows[w].whole
        BY <2>2 DEF Inv, TableInv
      <3>3. /\ gen[r].rows[w] \in [run : Runs \cup {NoRun}, whole : BOOLEAN]
            /\ target.rows[w] \in [run : Runs \cup {NoRun}, whole : BOOLEAN]
        BY <2>2 DEF Inv, TypeOK, Rows
      <3>4. gen[r].rows[w].whole = TRUE /\ target.rows[w].whole = TRUE
        BY <3>2, <3>3
      <3>5. gen[r].rows[w] = target.rows[w]
        BY <3>1, <3>3, <3>4
      <3> QED
        BY <2>3, <3>5
    <2> QED
      BY <2>2, <2>3, <2>4
  <1> HIDE DEF A
  <1>2. Spec => [][A]_vars
    BY <1>1, AlwaysInv, PTL DEF Spec
  <1> QED
    BY <1>2 DEF NoPublicationIsUndone, A

\* The pending marker: no run's EXCHANGE replaces the target while that of another
\* has not been read back.
THEOREM ExchangesAreRead == Spec => NoExchangeIsBypassed
  <1> DEFINE A == target' # target => exchanged \subseteq settled
  <1>1. Inv /\ [Next]_vars => [A]_vars
    BY TargetSteps, AtExchange DEF vars
  <1> HIDE DEF A
  <1>2. Spec => [][A]_vars
    BY <1>1, AlwaysInv, PTL DEF Spec
  <1> QED
    BY <1>2 DEF NoExchangeIsBypassed, A
=============================================================================

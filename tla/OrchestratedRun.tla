--------------------------- MODULE OrchestratedRun ---------------------------
(***************************************************************************)
(* "dpone orchestrate run": the attempts of one logical run id on one host *)
(* or workspace (OrchestratedRunService), their lock file                  *)
(* (LocalRunLockManager), their job state file (LocalJobStateStore) and    *)
(* the resume policy (ResumePolicyPlanner).                                *)
(*                                                                         *)
(* Every system call on the lock file is a step: whether it exists, what   *)
(* it holds, its removal, which goes by name, its exclusive creation and,  *)
(* after that, its payload.  The lock file carries its creator, whether    *)
(* the payload is written and whether it is older than the time to live.   *)
(* The job state is replaced atomically.  A scheduler repeats attempts for *)
(* ever, so nothing is counted but the faults.                             *)
(***************************************************************************)
EXTENDS Naturals

CONSTANTS
    Workers,    \* processes that make attempts, one after the other
    Policy,     \* Policy[p]: the resume policy of p's attempts
    Ages,       \* a lock may become older than its time to live
    MaxFaults   \* bound on attempts that die

Nobody == "nobody"      \* no worker

ASSUME RunAssumption ==
    /\ Nobody \notin Workers
    /\ Policy \in [Workers -> {"fail", "resume", "restart"}]
    /\ Ages \in BOOLEAN /\ MaxFaults \in Nat

VARIABLES
    file,       \* the lock file
    job,        \* status in the job state file, "none" if there is none
    pc,         \* pc[p]: where p's attempt stands
    faults

vars == <<file, job, pc, faults>>

NoFile == [by |-> Nobody, written |-> FALSE, old |-> FALSE, exists |-> FALSE]

Init ==
    /\ file = NoFile
    /\ job = "none"
    /\ pc = [p \in Workers |-> "idle"]
    /\ faults = 0

Moves(p, from, to) == pc[p] = from /\ pc' = [pc EXCEPT ![p] = to]

-----------------------------------------------------------------------------
(* Resume policy and job state *)

(* ResumePolicyPlanner.decide; a failed or blocked job is resumable. *)
Allowed(p) ==
    /\ job = "committed" => Policy[p] = "restart"
    /\ job # "running"
    /\ job \in {"failed", "blocked"} => Policy[p] # "fail"

(* The state is read before the lock is taken. *)
Decide(p) ==
    /\ \/ Allowed(p) /\ Moves(p, "idle", "probe")
       \/ ~Allowed(p) /\ Moves(p, "idle", "block")
    /\ UNCHANGED <<file, job, faults>>

Mark(p, from, to, status) ==
    /\ Moves(p, from, to)
    /\ job' = status
    /\ UNCHANGED <<file, faults>>

(* mark_blocked, whatever the status was; the attempt ends. *)
MarkBlocked(p) ==
    Mark(p, "block", "idle", "blocked")

(* Without the lock: mark_started, then mark_blocked. *)
MarkStartedBlocked(p) ==
    Mark(p, "refused", "block", "started")

-----------------------------------------------------------------------------
(* LocalRunLockManager.acquire *)

(* _remove_stale: path.exists *)
Probe(p) ==
    /\ \/ file.exists /\ Moves(p, "probe", "read")
       \/ ~file.exists /\ Moves(p, "probe", "create")
    /\ UNCHANGED <<file, job, faults>>

(* Mutant of Fresh: a file without a payload yet belongs to a live attempt. *)
FreshUntilWritten == file.exists /\ ~file.old

(* A payload that is missing, empty or not yet written counts as stale. *)
Fresh == file.exists /\ file.written /\ ~file.old

Read(p) ==
    /\ \/ Fresh /\ Moves(p, "read", "create")
       \/ ~Fresh /\ Moves(p, "read", "unlink")
    /\ UNCHANGED <<file, job, faults>>

(* Whatever file has the name now is removed. *)
Unlink(p) ==
    /\ Moves(p, "unlink", "create")
    /\ file' = NoFile
    /\ UNCHANGED <<job, faults>>

(* O_CREAT | O_EXCL *)
Create(p) ==
    /\ \/ /\ ~file.exists
          /\ Moves(p, "create", "write")
          /\ file' = [NoFile EXCEPT !.by = p, !.exists = TRUE]
       \/ /\ file.exists
          /\ Moves(p, "create", "refused")
          /\ UNCHANGED file
    /\ UNCHANGED <<job, faults>>

(* Mutant of WritePayload: the file is written by its name. *)
WritePayloadByName(p) ==
    /\ Moves(p, "write", "start")
    /\ file' = [file EXCEPT !.written = TRUE]
    /\ UNCHANGED <<job, faults>>

(* The payload reaches p's file, which may have lost its name. *)
WritePayload(p) ==
    /\ Moves(p, "write", "start")
    /\ file' = IF file.by = p THEN [file EXCEPT !.written = TRUE] ELSE file
    /\ UNCHANGED <<job, faults>>

-----------------------------------------------------------------------------
(* The run under the lock *)

MarkStarted(p) == Mark(p, "start", "started", "started")
MarkRunning(p) == Mark(p, "started", "execute", "running")

MarkCommitted(p) == Mark(p, "execute", "release", "committed")

MarkFailed(p) == Mark(p, "execute", "release", "failed")

UnderLock == {"start", "started", "execute"}

(* Mutant of RunRaises: the lock is released on the normal path only. *)
RunRaisesUnguarded(p) ==
    /\ \E from \in UnderLock : Moves(p, from, "idle")
    /\ UNCHANGED <<file, job, faults>>

(* mark_started, mark_running or the executor raises: the state stays what *)
(* it was, but "finally" gives the lock back.                              *)
RunRaises(p) ==
    /\ \E from \in UnderLock : Moves(p, from, "release")
    /\ UNCHANGED <<file, job, faults>>

(* release: the token is compared first ... *)
CompareToken(p) ==
    /\ \/ file.by = p /\ file.written /\ Moves(p, "release", "remove")
       \/ ~(file.by = p /\ file.written) /\ Moves(p, "release", "idle")
    /\ UNCHANGED <<file, job, faults>>

(* ... and then the name is removed. *)
Remove(p) ==
    /\ Moves(p, "remove", "idle")
    /\ file' = NoFile
    /\ UNCHANGED <<job, faults>>

-----------------------------------------------------------------------------
(* The environment *)

Age ==
    /\ Ages /\ file.written /\ ~file.old
    /\ file' = [file EXCEPT !.old = TRUE]
    /\ UNCHANGED <<job, pc, faults>>

(* The attempt dies; no later attempt knows the token of its lock. *)
Crash(p) ==
    /\ pc[p] # "idle" /\ faults < MaxFaults
    /\ pc' = [pc EXCEPT ![p] = "idle"]
    /\ faults' = faults + 1
    /\ file' = IF file.by = p THEN [file EXCEPT !.by = Nobody] ELSE file
    /\ UNCHANGED job

Attempt(p) ==
    \/ Decide(p) \/ MarkBlocked(p) \/ MarkStartedBlocked(p)
    \/ Probe(p) \/ Read(p) \/ Unlink(p) \/ Create(p) \/ WritePayload(p)
    \/ MarkStarted(p) \/ MarkRunning(p)
    \/ MarkCommitted(p) \/ MarkFailed(p) \/ RunRaises(p)
    \/ CompareToken(p) \/ Remove(p)

Next == Age \/ \E p \in Workers : Attempt(p) \/ Crash(p)

(* The scheduler repeats attempts, a process that runs goes on, and time   *)
(* passes.                                                                 *)
Fairness == WF_vars(Age) /\ \A p \in Workers : WF_vars(Attempt(p))

Spec == Init /\ [][Next]_vars /\ Fairness

-----------------------------------------------------------------------------
(* Properties *)

(* The type invariant; only a lock file with a payload has an age. *)
TypeOK ==
    /\ \/ file = NoFile
       \/ file \in [by : Workers \cup {Nobody}, written : BOOLEAN,
                    old : BOOLEAN, exists : {TRUE}]
    /\ file.old => file.written
    /\ job \in {"none", "started", "running", "committed", "failed", "blocked"}
    /\ pc \in [Workers -> {"idle", "block", "refused", "probe", "read",
                           "unlink", "create", "write", "start", "started",
                           "execute", "release", "remove"}]
    /\ faults \in 0 .. MaxFaults

(* However locks are taken away from one another: when nobody is running   *)
(* and nobody has died, no lock file is left to block the next attempt.    *)
NoLockIsLeaked ==
    faults = 0 /\ (\A p \in Workers : pc[p] = "idle") => ~file.exists

(* A lock file nobody will release: its attempt died, perhaps before the   *)
(* payload was written.                                                    *)
Orphaned == file.exists /\ file.by = Nobody

(* The states in which a further attempt is not told to inspect the        *)
(* scheduler, or to ask for a repeat, before it retries.                   *)
Retriable == job \notin {"running", "committed"}

(* A lock whose attempt died does not block a retriable job for good, at   *)
(* whatever step of acquire the attempt was: a payload gets older than the *)
(* time to live, and a file without one never counts as held.              *)
OrphanLockIsReplaced == Orphaned /\ Retriable ~> ~Orphaned \/ ~Retriable

Holds(p) == pc[p] \in {"write", "start", "started", "execute"}

(* "a local atomic file lock": at most one attempt has it, at least while  *)
(* no lock is older than its time to live.                                 *)
OneHolder == \A p, q \in Workers : Holds(p) /\ Holds(q) => p = q

(* docs/orchestration.md, "committed --> [*]" and "The same run_id was     *)
(* already committed": only a restart begins a committed run again.        *)
CommittedIsKept ==
    [][job = "committed" =>
          \/ job' = "committed"
          \/ \E p \in Workers : Policy[p] = "restart" /\ MarkStarted(p)]_vars
=============================================================================

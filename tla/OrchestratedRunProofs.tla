----------------------- MODULE OrchestratedRunProofs -----------------------
(***************************************************************************)
(* Proofs about the attempts of one logical run and their lock file.       *)
(*                                                                         *)
(* NoLockIsLeaked speaks of the moment when every attempt is over.  Its    *)
(* inductive strengthening says what is true all the time: a lock file     *)
(* that still bears a worker's token belongs to an attempt that is between *)
(* its creation and its removal and has written its payload, and a lock    *)
(* file without such a worker is the legacy of a death.                    *)
(***************************************************************************)
EXTENDS OrchestratedRun, TLAPS

(* Where an attempt stands once it has created a lock file. *)
AfterCreate == {"write", "start", "started", "execute", "release", "remove"}

(* Every lock file bears the token of the attempt that has to remove it, or *)
(* somebody has died; no file bears nothing. *)
OwnedFile ==
    /\ \A p \in Workers : file.by = p =>
          /\ file.exists
          /\ pc[p] \in AfterCreate
          /\ pc[p] # "write" => file.written
    /\ file.exists /\ file.by = Nobody => faults > 0

Inv == TypeOK /\ OwnedFile

Statuses == {"none", "started", "running", "committed", "failed", "blocked"}

PCs == {"idle", "block", "refused", "probe", "read", "unlink", "create", "write",
        "start", "started", "execute", "release", "remove"}

LockFiles == [by : Workers \cup {Nobody}, written : BOOLEAN, old : BOOLEAN,
              exists : {TRUE}]

-----------------------------------------------------------------------------
(* What exists, bears a token or has a payload is a lock file. *)
LEMMA FileIsThere ==
    ASSUME Inv, file.exists \/ file.written \/ file.by \in Workers
    PROVE  file \in LockFiles
<1>1. NoFile.by \notin Workers /\ ~NoFile.exists /\ ~NoFile.written
  BY RunAssumption DEF NoFile
<1>2. file # NoFile
  BY <1>1
<1> QED BY <1>2 DEF Inv, TypeOK, LockFiles

(* A step that leaves the lock file alone and moves p within the steps      *)
(* before creation, or within those after the payload, keeps Inv.           *)
LEMMA InvMove ==
    ASSUME Inv, NEW p \in Workers, NEW from \in PCs, NEW to \in PCs,
           Moves(p, from, to), UNCHANGED <<file, faults>>, job' \in Statuses,
           \/ from \notin AfterCreate
           \/ from # "write" /\ to \in AfterCreate \ {"write"}
           \/ file.by # p
    PROVE  Inv'
<1>1. TypeOK'
  BY DEF Inv, TypeOK, Moves, PCs, Statuses, NoFile
<1>2. OwnedFile'
  BY DEF Inv, TypeOK, OwnedFile, Moves, PCs, AfterCreate
<1> QED BY <1>1, <1>2 DEF Inv

(* Removal by name, whoever does it, leaves no file that could be leaked.   *)
LEMMA InvRemoveFile ==
    ASSUME Inv, NEW p \in Workers, NEW from \in PCs, NEW to \in PCs,
           Moves(p, from, to), file' = NoFile, UNCHANGED <<job, faults>>
    PROVE  Inv'
<1>1. TypeOK'
  BY DEF Inv, TypeOK, Moves, PCs, NoFile
<1>2. OwnedFile'
  BY RunAssumption DEF OwnedFile, NoFile
<1> QED BY <1>1, <1>2 DEF Inv

LEMMA InvInit == Init => Inv
<1> SUFFICES ASSUME Init PROVE Inv
  OBVIOUS
<1>1. TypeOK
  BY RunAssumption DEF Init, TypeOK, NoFile
<1>2. OwnedFile
  BY RunAssumption DEF Init, OwnedFile, NoFile
<1> QED BY <1>1, <1>2 DEF Inv

LEMMA InvCreate ==
    ASSUME Inv, NEW p \in Workers, Create(p)
    PROVE  Inv'
<1>1. CASE file.exists
  BY <1>1, InvMove DEF Create, PCs, AfterCreate, Inv, TypeOK, Statuses
<1>2. CASE ~file.exists
  <2>1. /\ Moves(p, "create", "write") /\ UNCHANGED <<job, faults>>
        /\ file' = [NoFile EXCEPT !.by = p, !.exists = TRUE]
    BY <1>2 DEF Create
  <2>2. file' = [by |-> p, written |-> FALSE, old |-> FALSE, exists |-> TRUE]
    BY <2>1 DEF NoFile
  <2>3. TypeOK'
    <3>1. file' \in LockFiles /\ ~file'.old
      BY <2>2 DEF LockFiles
    <3> QED BY <2>1, <3>1 DEF Inv, TypeOK, Moves, LockFiles
  <2>4. OwnedFile'
    BY <2>1, <2>2, RunAssumption DEF Inv, TypeOK, OwnedFile, Moves, AfterCreate
  <2> QED BY <2>3, <2>4 DEF Inv
<1> QED BY <1>1, <1>2

LEMMA InvWritePayload ==
    ASSUME Inv, NEW p \in Workers, WritePayload(p)
    PROVE  Inv'
<1>1. CASE file.by = p
  <2>1. /\ Moves(p, "write", "start") /\ UNCHANGED <<job, faults>>
        /\ file' = [file EXCEPT !.written = TRUE]
    BY <1>1 DEF WritePayload
  <2>2. file \in LockFiles
    BY <1>1, FileIsThere
  <2>3. TypeOK'
    BY <2>1, <2>2 DEF Inv, TypeOK, Moves, LockFiles
  <2>4. OwnedFile'
    BY <1>1, <2>1, <2>2, RunAssumption
    DEF Inv, TypeOK, OwnedFile, Moves, AfterCreate, LockFiles
  <2> QED BY <2>3, <2>4 DEF Inv
<1>2. CASE file.by # p
  BY <1>2, InvMove DEF WritePayload, PCs, AfterCreate, Inv, TypeOK, Statuses
<1> QED BY <1>1, <1>2

LEMMA InvAge ==
    ASSUME Inv, Age
    PROVE  Inv'
<1>1. file \in LockFiles
  BY FileIsThere DEF Age
<1>2. TypeOK'
  BY <1>1 DEF Inv, TypeOK, Age, LockFiles
<1>3. OwnedFile'
  BY <1>1 DEF Inv, OwnedFile, Age, LockFiles
<1> QED BY <1>2, <1>3 DEF Inv

LEMMA InvCrash ==
    ASSUME Inv, NEW p \in Workers, Crash(p)
    PROVE  Inv'
<1>1. faults' \in 0 .. MaxFaults /\ faults' > 0
  BY RunAssumption DEF Inv, TypeOK, Crash
<1>2. CASE file.by = p
  <2>1. file \in LockFiles
    BY <1>2, FileIsThere
  <2>2. TypeOK'
    BY <1>1, <1>2, <2>1 DEF Inv, TypeOK, Crash, LockFiles
  <2>3. OwnedFile'
    BY <1>1, <1>2, <2>1, RunAssumption
    DEF Inv, TypeOK, OwnedFile, Crash, LockFiles
  <2> QED BY <2>2, <2>3 DEF Inv
<1>3. CASE file.by # p
  <2>1. TypeOK'
    BY <1>1, <1>3 DEF Inv, TypeOK, Crash, NoFile
  <2>2. OwnedFile'
    BY <1>1, <1>3 DEF Inv, TypeOK, OwnedFile, Crash
  <2> QED BY <2>1, <2>2 DEF Inv
<1> QED BY <1>2, <1>3

(* A lock file of p whose attempt is over is written, so that its token is  *)
(* found and the file removed: CompareToken lets none of its own stand.     *)
LEMMA InvCompareToken ==
    ASSUME Inv, NEW p \in Workers, CompareToken(p)
    PROVE  Inv'
<1>0. "release" \in PCs /\ "remove" \in PCs /\ "idle" \in PCs
  BY DEF PCs
<1>1. pc[p] = "release" /\ UNCHANGED <<file, job, faults>> /\ job' \in Statuses
  BY DEF CompareToken, Moves, Inv, TypeOK, Statuses
<1>2. CASE file.by = p
  <2>1. file.written
    BY <1>1, <1>2 DEF Inv, OwnedFile
  <2>2. Moves(p, "release", "remove")
    BY <1>2, <2>1 DEF CompareToken
  <2> QED BY <1>0, <1>1, <2>2, InvMove DEF AfterCreate
<1>3. CASE file.by # p
  <2>1. Moves(p, "release", "idle")
    BY <1>3 DEF CompareToken
  <2> QED BY <1>0, <1>1, <1>3, <2>1, InvMove
<1> QED BY <1>2, <1>3

LEMMA InvAttempt ==
    ASSUME Inv, NEW p \in Workers, Attempt(p)
    PROVE  Inv'
<1> USE DEF PCs, AfterCreate, Statuses
<1>0. job \in Statuses
  BY DEF Inv, TypeOK
<1>1. CASE Decide(p) \/ Probe(p) \/ Read(p)
  BY <1>0, <1>1, InvMove DEF Decide, Probe, Read
<1>2. CASE MarkBlocked(p) \/ MarkStartedBlocked(p)
  BY <1>2, InvMove DEF MarkBlocked, MarkStartedBlocked, Mark
<1>3. CASE \/ MarkStarted(p) \/ MarkRunning(p) \/ MarkCommitted(p)
           \/ MarkFailed(p)
  BY <1>3, InvMove DEF MarkStarted, MarkRunning, MarkCommitted, MarkFailed, Mark
<1>4. CASE RunRaises(p)
  BY <1>0, <1>4, InvMove DEF RunRaises, UnderLock
<1>5. CASE Unlink(p) \/ Remove(p)
  BY <1>5, InvRemoveFile DEF Unlink, Remove
<1>6. CASE Create(p)
  BY <1>6, InvCreate
<1>7. CASE WritePayload(p)
  BY <1>7, InvWritePayload
<1>8. CASE CompareToken(p)
  BY <1>8, InvCompareToken
<1> QED BY <1>1, <1>2, <1>3, <1>4, <1>5, <1>6, <1>7, <1>8 DEF Attempt

LEMMA InvNext == Inv /\ [Next]_vars => Inv'
<1> SUFFICES ASSUME Inv, [Next]_vars PROVE Inv'
  OBVIOUS
<1>1. CASE Age
  BY <1>1, InvAge
<1>2. ASSUME NEW p \in Workers, Attempt(p) \/ Crash(p) PROVE Inv'
  BY <1>2, InvAttempt, InvCrash
<1>3. CASE UNCHANGED vars
  BY <1>3 DEF vars, Inv, TypeOK, OwnedFile
<1> QED BY <1>1, <1>2, <1>3 DEF Next

(* However many workers make attempts, with whatever policies: what the     *)
(* lock file, the job state and the attempts hold are values of the code,   *)
(* and a lock file with an age has a payload.                               *)
THEOREM TypeCorrect == Spec => []TypeOK
<1>1. Inv => TypeOK
  BY DEF Inv
<1> QED BY <1>1, InvInit, InvNext, PTL DEF Spec

(* LocalRunLockManager.release is enough for any number of workers that     *)
(* take each other's stale locks away: when all attempts are over and       *)
(* nobody has died, no lock file stands in the way of the next one.         *)
THEOREM LocksAreGivenBack == Spec => []NoLockIsLeaked
<1>1. Inv => NoLockIsLeaked
  <2> SUFFICES ASSUME Inv, faults = 0, \A p \in Workers : pc[p] = "idle",
                      file.exists
               PROVE  FALSE
    BY DEF NoLockIsLeaked
  <2>1. file.by \in Workers \cup {Nobody}
    BY FileIsThere DEF LockFiles
  <2> QED BY <2>1 DEF Inv, OwnedFile, AfterCreate
<1> QED BY <1>1, InvInit, InvNext, PTL DEF Spec
=============================================================================

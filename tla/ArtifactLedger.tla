--------------------------- MODULE ArtifactLedger ---------------------------
(***************************************************************************)
(* The processing ledger of one artifact: several workers scan and redact  *)
(* it (ArtifactProcessor.process), record their verdicts                   *)
(* (TenantArtifactProcessingRepository.record_scan_outcome) and meet the   *)
(* trigger of artifact_processing_events.  Row locks, the advisory lock,   *)
(* the trigger and the unique key all work per artifact.                   *)
(*                                                                         *)
(* The completion of the upload wrote the quarantined row, stamped by the  *)
(* API's clock with what is time 0 here; no code starts another attempt.   *)
(* The workers stamp their rows by clocks of their own, which nothing      *)
(* keeps in step with the API's: a worker's stamp may be before, equal to  *)
(* or after time 0.  A completion event may be delivered to any number of  *)
(* workers, again and again.                                               *)
(***************************************************************************)
EXTENDS Integers

CONSTANTS Worker,       \* threads that process a delivered completion event
          MaxTime,      \* bound: the latest time stamp of a worker
          Skew,         \* bound: how far its clock may be behind the API's
          LockGranted,  \* netops_app may UPDATE the ledger, as FOR UPDATE needs
          Kind,         \* kinds of artifact
          Redactable,   \* the kind that ConfigDerivativeRedactor accepts
          None

ASSUME LedgerAssumption ==
    /\ MaxTime \in Nat \ {0} /\ Skew \in Nat /\ LockGranted \in BOOLEAN
    /\ Redactable \in Kind

State       == {"quarantined", "verified", "failed"}
Disposition == {"clean", "rejected", "unavailable"}

(* What a worker's clock may show, and the places of the random row ids    *)
(* among equal times: two on either side of the quarantined row's.         *)
Time == (-Skew)..MaxTime
Rank == 0..4

(* The columns that order the rows: occurred_at and id. *)
Stamp == [at : Time, id : Rank]

ASSUME NoneIsNoStamp ==
    /\ None \notin Stamp /\ None \notin Time
    /\ None \notin State /\ None \notin Disposition

VARIABLES kind,        \* artifact_kind, never changed
          row,         \* the committed row of each state, or None
          derivative,  \* a redacted derivative has been stored
          verdicts,    \* history: dispositions of all scans
          pc,          \* where each worker is
          scan,        \* the disposition it carries, or None
          stamp,       \* occurred_at, as the worker read its clock, or None
          seen         \* the state of the row its SELECT found, or None

ledger == <<kind, row>>
vars   == <<ledger, derivative, verdicts, pc, scan, stamp, seen>>

PC == {"idle", "scan", "redact", "select", "lock", "insert"}

Init ==
    /\ kind \in Kind
    /\ row = [s \in State |-> IF s = "quarantined" THEN [at |-> 0, id |-> 2] ELSE None]
    /\ derivative = FALSE
    /\ verdicts = {}
    /\ pc = [w \in Worker |-> "idle"]
    /\ scan = [w \in Worker |-> None]
    /\ stamp = [w \in Worker |-> None]
    /\ seen = [w \in Worker |-> None]

Before(a, b) == a.at < b.at \/ (a.at = b.at /\ a.id < b.id)

(* s is the state of the row that sorts last by occurred_at and id. *)
LatestIs(s) ==
    /\ row[s] # None
    /\ \A t \in State \ {s} : row[t] # None => Before(row[t], row[s])

(* list_for_case: the status shown for the artifact. *)
Shown(s) == LatestIs(s)

(* The job is over: recorded, refused, failed or lost with its worker. *)
Finish(w) ==
    /\ pc' = [pc EXCEPT ![w] = "idle"]
    /\ scan' = [scan EXCEPT ![w] = None]
    /\ stamp' = [stamp EXCEPT ![w] = None]
    /\ seen' = [seen EXCEPT ![w] = None]

Goto(w, label) == pc' = [pc EXCEPT ![w] = label]

-----------------------------------------------------------------------------
(* ArtifactProcessor.process *)

(* A completion event is delivered and becomes a job. *)
BeginJob(w) ==
    /\ pc[w] = "idle"
    /\ Goto(w, "scan")
    /\ UNCHANGED <<ledger, derivative, verdicts, scan, stamp, seen>>

(* The scanner answers; its adapter turns every failure into unavailable.  *)
(* Two scans may differ, and only a clean one goes on to the redactor.     *)
Scan(w) ==
    /\ pc[w] = "scan"
    /\ \E d \in Disposition :
        /\ scan' = [scan EXCEPT ![w] = d]
        /\ verdicts' = verdicts \cup {d}
        /\ Goto(w, IF d = "clean" THEN "redact" ELSE "select")
    /\ UNCHANGED <<ledger, derivative, stamp, seen>>

(* The derivative is stored, before anything is recorded. *)
Redact(w) ==
    /\ pc[w] = "redact" /\ kind = Redactable
    /\ derivative' = TRUE
    /\ Goto(w, "select")
    /\ UNCHANGED <<ledger, verdicts, scan, stamp, seen>>

(* The redactor raises: another kind of artifact, unreadable, too large or *)
(* undecodable text, a failing writer.  process propagates it.             *)
RedactFails(w) ==
    /\ pc[w] = "redact"
    /\ Finish(w)
    /\ derivative' \in (IF kind = Redactable THEN {derivative, TRUE} ELSE {derivative})
    /\ UNCHANGED <<ledger, verdicts>>

-----------------------------------------------------------------------------
(* ArtifactProcessingPersistence.record and record_scan_outcome *)

(* Read the clock, open the transaction and take the snapshot of           *)
(* _SELECT_ACTIVE_QUARANTINED_ATTEMPT.  FOR UPDATE locks the row that this *)
(* snapshot sorts last, and is refused without the privilege.              *)
SelectActive(w) ==
    /\ pc[w] = "select"
    /\ IF LockGranted
       THEN /\ \E t \in Time, s \in State :
                 /\ LatestIs(s)
                 /\ stamp' = [stamp EXCEPT ![w] = t]
                 /\ seen' = [seen EXCEPT ![w] = s]
            /\ Goto(w, "lock")
            /\ UNCHANGED scan
       ELSE Finish(w)
    /\ UNCHANGED <<ledger, derivative, verdicts>>

(* Another transaction holds the lock of the row that w has found. *)
Locked(w) == \E v \in Worker \ {w} : pc[v] = "insert" /\ seen[v] = seen[w]

(* Mutant: a worker that meets a conflict tries again. *)
LockActiveAgain(w) ==
    /\ pc[w] = "lock"
    /\ ~Locked(w)
    /\ Goto(w, IF seen[w] = "quarantined" THEN "insert" ELSE "select")
    /\ UNCHANGED <<scan, stamp, seen, ledger, derivative, verdicts>>

(* The lock is free.  Rows are never updated, so PostgreSQL returns the    *)
(* row as it was found; newer rows committed meanwhile are not considered. *)
LockActive(w) ==
    /\ pc[w] = "lock"
    /\ ~Locked(w)
    /\ IF seen[w] = "quarantined"
       THEN Goto(w, "insert") /\ UNCHANGED <<scan, stamp, seen>>
       ELSE Finish(w)    \* ArtifactProcessingStateConflictError
    /\ UNCHANGED <<ledger, derivative, verdicts>>

(* Mutant: only a rejection fails, as if an outage were no reason to. *)
OutcomeOpen(d) == IF d = "rejected" THEN "failed" ELSE "verified"

(* verified for clean scans, otherwise failed. *)
Outcome(d) == IF d = "clean" THEN "verified" ELSE "failed"

(* Mutant: the trigger asks only whether the attempt is quarantined. *)
TriggerAcceptsAny(s) == row["quarantined"] # None /\ row[s] = None

(* netops_validate_artifact_processing_event for the first attempt, and    *)
(* the unique key (artifact_id, attempt, state).                           *)
TriggerAccepts(s) ==
    /\ \/ s = "verified" /\ LatestIs("quarantined")
       \/ s = "failed" /\ (LatestIs("quarantined") \/ LatestIs("verified"))
    /\ row[s] = None

Recorded(w, id) == [at |-> stamp[w], id |-> id]

(* The insert and the commit; the trigger's advisory lock adds nothing to  *)
(* the row lock that w holds.                                              *)
InsertOutcome(w) ==
    /\ pc[w] = "insert"
    /\ LET s == Outcome(scan[w]) IN
       IF TriggerAccepts(s)
       THEN \E id \in Rank :    \* gen_random_uuid()
              /\ \A t \in State : row[t] # Recorded(w, id)
              /\ row' = [row EXCEPT ![s] = Recorded(w, id)]
       ELSE UNCHANGED row
    /\ Finish(w)
    /\ UNCHANGED <<kind, derivative, verdicts>>

(* The worker dies or loses its database connection. *)
Crash(w) ==
    /\ pc[w] # "idle"
    /\ Finish(w)
    /\ UNCHANGED <<ledger, derivative, verdicts>>

-----------------------------------------------------------------------------
Step(w) == \/ Scan(w) \/ Redact(w) \/ RedactFails(w)
           \/ SelectActive(w) \/ LockActive(w) \/ InsertOutcome(w)

Next == \E w \in Worker : BeginJob(w) \/ Step(w) \/ Crash(w)

Spec == Init /\ [][Next]_vars

(* Workers keep running, and waiters of a row lock are queued. *)
FairSpec == Spec /\ \A w \in Worker : WF_vars(Step(w)) /\ SF_vars(LockActive(w))

-----------------------------------------------------------------------------
(* Properties *)

TypeOK ==
    /\ kind \in Kind
    /\ row \in [State -> Stamp \cup {None}]
    /\ derivative \in BOOLEAN
    /\ verdicts \subseteq Disposition
    /\ pc \in [Worker -> PC]
    /\ scan \in [Worker -> Disposition \cup {None}]
    /\ stamp \in [Worker -> Time \cup {None}]
    /\ seen \in [Worker -> State \cup {None}]

(* Fail closed: a verified row rests on a clean scan, a failed row on one  *)
(* that was not, and a derivative on a clean scan of a configuration       *)
(* (process, record_scan_outcome).                                         *)
OutcomeJustified ==
    /\ row["verified"] # None => "clean" \in verdicts
    /\ row["failed"] # None => verdicts \ {"clean"} # {}
    /\ derivative => "clean" \in verdicts /\ kind = Redactable

(* Whatever the clocks, an outcome that sorts after the completion settles *)
(* the artifact.  It is never shown as quarantined again, which would let  *)
(* the next worker decide anew, and after such a failure nothing more is   *)
(* recorded: no worker with an older snapshot, another verdict or another  *)
(* clock verifies the artifact (the trigger, record_scan_outcome and       *)
(* list_for_case).  A row that a slow clock sorts before the completion    *)
(* has neither effect.                                                     *)
OutcomeSettles ==
    [][/\ ~Shown("quarantined") => ~Shown("quarantined")'
       /\ /\ row["failed"] # None
          /\ Before(row["quarantined"], row["failed"])
          => row' = row]_vars

(* Every job ends: the wait for the row lock is finite, and a conflict is  *)
(* not retried.                                                            *)
JobsEnd == \A w \in Worker : pc[w] = "scan" ~> pc[w] = "idle"
=============================================================================

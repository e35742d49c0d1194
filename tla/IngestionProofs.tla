-------------------------- MODULE IngestionProofs --------------------------
(***************************************************************************)
(* What becomes of an artifact.  The ledger keeps its types, every outcome *)
(* rests on a scan, and an outcome that sorts after the completion settles *)
(* the artifact, whatever the clocks.  Redactor, parser and validator      *)
(* compute, line by line, what their definitions over whole texts say, for *)
(* all lines and texts.                                                    *)
(***************************************************************************)
EXTENDS ArtifactLedger, ConfigAnalysis, FiniteSetTheorems, WellFoundedInduction, TLAPS

(* What a worker carries at each label. *)
Carried ==
    \A w \in Worker :
        /\ pc[w] \in {"redact", "select", "lock", "insert"} => scan[w] \in verdicts
        /\ pc[w] = "redact" => scan[w] = "clean"
        /\ pc[w] \in {"lock", "insert"} => stamp[w] \in Time

(* The first row is the one of the completion, the others are stamped by   *)
(* workers.                                                                *)
Stamped ==
    /\ row["quarantined"] = [at |-> 0, id |-> 2]
    /\ \A s \in {"verified", "failed"} : row[s] # None => row[s].at \in Time

IInv == TypeOK /\ Carried /\ Stamped /\ OutcomeJustified

(* Every step but the insert and the redaction leaves the ledger alone.    *)
LEMMA Types ==
    ASSUME TypeOK, Carried, [Next]_vars
    PROVE  TypeOK'
<1> USE LedgerAssumption, NoneIsNoStamp DEF TypeOK
<1>1. CASE UNCHANGED vars
  BY <1>1 DEF vars, ledger
<1>2. ASSUME NEW w \in Worker, BeginJob(w) PROVE TypeOK'
  BY <1>2 DEF BeginJob, Goto, PC, ledger
<1>3. ASSUME NEW w \in Worker, Scan(w) PROVE TypeOK'
  BY <1>3 DEF Scan, Goto, PC, ledger
<1>4. ASSUME NEW w \in Worker, Redact(w) PROVE TypeOK'
  BY <1>4 DEF Redact, Goto, PC, ledger
<1>5. ASSUME NEW w \in Worker, RedactFails(w) PROVE TypeOK'
  BY <1>5 DEF RedactFails, Finish, PC, ledger
<1>6. ASSUME NEW w \in Worker, SelectActive(w) PROVE TypeOK'
  <2>1. CASE LockGranted
    BY <1>6, <2>1 DEF SelectActive, Goto, PC, ledger
  <2>2. CASE ~LockGranted
    BY <1>6, <2>2 DEF SelectActive, Finish, PC, ledger
  <2> QED BY <2>1, <2>2
<1>7. ASSUME NEW w \in Worker, LockActive(w) PROVE TypeOK'
  <2>1. CASE seen[w] = "quarantined"
    BY <1>7, <2>1 DEF LockActive, Goto, PC, ledger
  <2>2. CASE seen[w] # "quarantined"
    BY <1>7, <2>2 DEF LockActive, Finish, PC, ledger
  <2> QED BY <2>1, <2>2
<1>8. ASSUME NEW w \in Worker, InsertOutcome(w) PROVE TypeOK'
  <2>1. row' \in [State -> Stamp \cup {None}]
    <3>1. stamp[w] \in Time
      BY <1>8 DEF InsertOutcome, Carried
    <3>2. \A id \in Rank : Recorded(w, id) \in Stamp
      BY <3>1 DEF Recorded, Stamp
    <3> QED BY <1>8, <3>2 DEF InsertOutcome
  <2> QED BY <1>8, <2>1 DEF InsertOutcome, Finish, PC
<1>9. ASSUME NEW w \in Worker, Crash(w) PROVE TypeOK'
  BY <1>9 DEF Crash, Finish, PC, ledger
<1> QED BY <1>1, <1>2, <1>3, <1>4, <1>5, <1>6, <1>7, <1>8, <1>9 DEF Next, Step

LEMMA CarriedStep ==
    ASSUME TypeOK, Carried, [Next]_vars
    PROVE  Carried'
<1> USE DEF TypeOK, Carried
<1>1. CASE UNCHANGED vars
  BY <1>1 DEF vars, ledger
<1>2. ASSUME NEW w \in Worker, BeginJob(w) PROVE Carried'
  BY <1>2 DEF BeginJob, Goto
<1>3. ASSUME NEW w \in Worker, Scan(w) PROVE Carried'
  BY <1>3 DEF Scan, Goto
<1>4. ASSUME NEW w \in Worker, Redact(w) PROVE Carried'
  BY <1>4 DEF Redact, Goto
<1>5. ASSUME NEW w \in Worker, Finish(w), UNCHANGED verdicts PROVE Carried'
  BY <1>5 DEF Finish
<1>6. ASSUME NEW w \in Worker, SelectActive(w) PROVE Carried'
  <2>1. CASE LockGranted
    BY <1>6, <2>1 DEF SelectActive, Goto
  <2>2. CASE ~LockGranted
    BY <1>6, <2>2, <1>5 DEF SelectActive
  <2> QED BY <2>1, <2>2
<1>7. ASSUME NEW w \in Worker, LockActive(w) PROVE Carried'
  <2>1. CASE seen[w] = "quarantined"
    BY <1>7, <2>1 DEF LockActive, Goto
  <2>2. CASE seen[w] # "quarantined"
    BY <1>7, <2>2, <1>5 DEF LockActive
  <2> QED BY <2>1, <2>2
<1> QED
  BY <1>1, <1>2, <1>3, <1>4, <1>5, <1>6, <1>7
     DEF Next, Step, RedactFails, InsertOutcome, Crash

(* Only an accepted insert changes the rows, and it fills an empty one.    *)
LEMMA RowStep ==
    ASSUME TypeOK, [Next]_vars
    PROVE  \/ row' = row
           \/ \E w \in Worker, id \in Rank :
                 /\ pc[w] = "insert"
                 /\ TriggerAccepts(Outcome(scan[w]))
                 /\ row' = [row EXCEPT ![Outcome(scan[w])] = Recorded(w, id)]
<1>1. CASE UNCHANGED vars
  BY <1>1 DEF vars, ledger
<1>2. ASSUME NEW w \in Worker, InsertOutcome(w)
      PROVE  \/ row' = row
             \/ \E id \in Rank :
                   /\ pc[w] = "insert"
                   /\ TriggerAccepts(Outcome(scan[w]))
                   /\ row' = [row EXCEPT ![Outcome(scan[w])] = Recorded(w, id)]
  BY <1>2 DEF InsertOutcome
<1>3. ASSUME NEW w \in Worker,
             \/ BeginJob(w) \/ Scan(w) \/ Redact(w) \/ RedactFails(w)
             \/ SelectActive(w) \/ LockActive(w) \/ Crash(w)
      PROVE  row' = row
  BY <1>3 DEF BeginJob, Scan, Redact, RedactFails, SelectActive, LockActive, Crash, ledger
<1> QED BY <1>1, <1>2, <1>3 DEF Next, Step

LEMMA StampedStep ==
    ASSUME TypeOK, Carried, Stamped, [Next]_vars
    PROVE  Stamped'
<1>1. CASE row' = row
  BY <1>1 DEF Stamped
<1>2. ASSUME NEW w \in Worker, NEW id \in Rank, pc[w] = "insert",
             row' = [row EXCEPT ![Outcome(scan[w])] = Recorded(w, id)]
      PROVE  Stamped'
  BY <1>2 DEF TypeOK, Carried, Stamped, Outcome, Recorded, State
<1> QED BY <1>1, <1>2, RowStep

LEMMA JustifiedStep ==
    ASSUME TypeOK, Carried, OutcomeJustified, [Next]_vars
    PROVE  OutcomeJustified'
<1> USE DEF OutcomeJustified
<1>1. /\ verdicts \subseteq verdicts'
      /\ kind' = kind
  BY DEF Next, Step, vars, ledger, BeginJob, Scan, Redact, RedactFails, SelectActive,
         LockActive, InsertOutcome, Crash
<1>2. derivative' => "clean" \in verdicts' /\ kind' = Redactable
  <2>1. CASE derivative' = derivative
    BY <1>1, <2>1
  <2>2. ASSUME NEW w \in Worker, Redact(w) \/ RedactFails(w)
        PROVE  derivative' => "clean" \in verdicts' /\ kind' = Redactable
    <3>1. pc[w] = "redact" /\ (derivative' # derivative => kind = Redactable)
      BY <2>2 DEF Redact, RedactFails, TypeOK
    <3>2. "clean" \in verdicts
      BY <3>1 DEF Carried
    <3> QED BY <1>1, <3>1, <3>2
  <2> QED BY <2>1, <2>2 DEF Next, Step, vars, BeginJob, Scan, SelectActive, LockActive,
                            InsertOutcome, Crash
<1>3. CASE row' = row
  BY <1>1, <1>2, <1>3
<1>4. ASSUME NEW w \in Worker, NEW id \in Rank, pc[w] = "insert",
             row' = [row EXCEPT ![Outcome(scan[w])] = Recorded(w, id)]
      PROVE  OutcomeJustified'
  <2>1. scan[w] \in verdicts
    BY <1>4 DEF Carried
  <2>2. CASE scan[w] = "clean"
    BY <1>1, <1>2, <1>4, <2>1, <2>2 DEF Outcome, TypeOK, State
  <2>3. CASE scan[w] # "clean"
    BY <1>1, <1>2, <1>4, <2>1, <2>3 DEF Outcome, TypeOK, State
  <2> QED BY <2>2, <2>3
<1> QED BY <1>3, <1>4, RowStep

(* The inductive invariant of the ledger, for any number of workers, any   *)
(* clocks and any delivery of jobs.                                        *)
THEOREM LedgerInvariant == Spec => []IInv
<1>1. Init => IInv
  <2> SUFFICES ASSUME Init PROVE IInv
    OBVIOUS
  <2>1. [at |-> 0, id |-> 2] \in Stamp
    BY LedgerAssumption DEF Stamp, Rank, Time
  <2>2. TypeOK
    BY <2>1 DEF Init, TypeOK, PC, State
  <2>3. Carried /\ Stamped
    BY DEF Init, Carried, Stamped, State
  <2>4. OutcomeJustified
    BY DEF Init, OutcomeJustified, State
  <2> QED BY <2>2, <2>3, <2>4 DEF IInv
<1>2. IInv /\ [Next]_vars => IInv'
  BY Types, CarriedStep, StampedStep, JustifiedStep DEF IInv
<1> QED BY <1>1, <1>2, PTL DEF Spec

(* Rows, verdicts and workers keep their types.                            *)
THEOREM LedgerTypeOK == Spec => []TypeOK
BY LedgerInvariant, PTL DEF IInv

(* Verdicts fail closed: only a clean scan verifies or leads to a          *)
(* derivative (process, record_scan_outcome).                              *)
THEOREM LedgerOutcomeJustified == Spec => []OutcomeJustified
BY LedgerInvariant, PTL DEF IInv

(* For all clocks: an outcome that sorts after the completion is not taken *)
(* back, and after such a failure nothing is recorded, whatever snapshots  *)
(* other workers hold (the trigger of the ledger).                         *)
THEOREM LedgerOutcomeSettles == Spec => OutcomeSettles
<1> DEFINE Settled == row["failed"] # None /\ Before(row["quarantined"], row["failed"])
<1>1. ASSUME IInv, [Next]_vars, ~Shown("quarantined") PROVE ~Shown("quarantined")'
  <2>1. row["quarantined"] # None
    BY <1>1, NoneIsNoStamp, LedgerAssumption DEF IInv, Stamped, Stamp, Rank, Time
  <2>2. PICK t \in {"verified", "failed"} :
             row[t] # None /\ ~Before(row[t], row["quarantined"])
    BY <1>1, <2>1 DEF Shown, LatestIs, State
  <2>3. row'["quarantined"] = row["quarantined"] /\ row'[t] = row[t]
    <3>1. CASE row' = row
      BY <3>1
    <3>2. ASSUME NEW w \in Worker, NEW id \in Rank, TriggerAccepts(Outcome(scan[w])),
                 row' = [row EXCEPT ![Outcome(scan[w])] = Recorded(w, id)]
          PROVE  row'["quarantined"] = row["quarantined"] /\ row'[t] = row[t]
      BY <3>2, <2>2, <1>1 DEF TriggerAccepts, Outcome, IInv, TypeOK, State
    <3> QED BY <1>1, <3>1, <3>2, RowStep DEF IInv
  <2> QED BY <2>2, <2>3 DEF Shown, LatestIs, State
<1>2. ASSUME IInv, [Next]_vars, Settled PROVE row' = row
  <2>1. ~LatestIs("quarantined")
    BY <1>2 DEF IInv, TypeOK, Stamp, Rank, Time, Stamped, LatestIs, Before, State
  <2>2. \A d : ~TriggerAccepts(Outcome(d))
    BY <1>2, <2>1 DEF TriggerAccepts, Outcome
  <2> QED BY <1>2, <2>2, RowStep DEF IInv
<1>3. IInv /\ [Next]_vars
      => [/\ ~Shown("quarantined") => ~Shown("quarantined")'
          /\ row["failed"] # None /\ Before(row["quarantined"], row["failed"])
             => row' = row]_vars
  BY <1>1, <1>2
<1> QED BY <1>3, LedgerInvariant, PTL DEF Spec, OutcomeSettles

-----------------------------------------------------------------------------
(* Texts *)

(* A text with one more line. *)
LEMMA OneMoreLine ==
    ASSUME NEW t \in Seq(LineType), NEW line \in LineType
    PROVE  /\ Append(t, line) \in Seq(LineType)
           /\ Len(t) \in Nat /\ Len(Append(t, line)) = Len(t) + 1
           /\ Lines(Append(t, line)) = Lines(t) \cup {Len(t) + 1}
           /\ Len(t) + 1 \notin Lines(t)
           /\ \A n \in Lines(t) : Append(t, line)[n] = t[n] /\ t[n] \in LineType
           /\ Append(t, line)[Len(t) + 1] = line
  BY DEF Lines

(* The key blocks of a text do not change when a line follows. *)
LEMMA KeyBlocksStay ==
    ASSUME NEW t \in Seq(LineType), NEW line \in LineType, NEW n \in Lines(t)
    PROVE  InKeyBlock(Append(t, line), n) <=> InKeyBlock(t, n)
  <1>1. \A b \in 1 .. n : b \in Lines(t)
    BY DEF Lines
  <1>2. \A b \in 1 .. n : \A e \in b .. n - 1 : e \in Lines(t)
    BY DEF Lines
  <1>3. \A b \in Lines(t) : Append(t, line)[b] = t[b]
    BY DEF Lines
  <1> QED BY <1>1, <1>2, <1>3 DEF InKeyBlock

(* A key block is open at the end of the text. *)
KeyOpen(t) ==
    \E b \in Lines(t) : t[b].kind = "begin" /\ \A e \in b .. Len(t) : t[e].kind # "end"

LEMMA KeyBlockAtEnd ==
    ASSUME NEW t \in Seq(LineType), NEW line \in LineType
    PROVE  /\ InKeyBlock(Append(t, line), Len(t) + 1) <=> KeyOpen(t) \/ line.kind = "begin"
           /\ KeyOpen(Append(t, line)) <=>
                 (KeyOpen(t) \/ line.kind = "begin") /\ line.kind # "end"
  <1> DEFINE longer == Append(t, line)
             L == Len(t)
  <1>1. /\ L \in Nat /\ Len(longer) = L + 1 /\ longer[L + 1] = line
        /\ \A n \in 1 .. L : longer[n] = t[n]
    BY OneMoreLine DEF Lines
  <1> HIDE DEF longer, L
  <1>2. \A b \in 1 .. L : b \in 1 .. L + 1 /\ \A e \in b .. L : e \in 1 .. L
    BY <1>1
  <1>3. \A b \in 1 .. L + 1 : b = L + 1 \/ b \in 1 .. L
    BY <1>1
  <1>4. (L + 1) .. L = {} /\ (L + 1) .. (L + 1) = {L + 1} /\ (L + 1) - 1 = L /\ L + 1 \in 1 .. L + 1
    BY <1>1
  <1>5. \A b \in 1 .. L : b .. (L + 1) = (b .. L) \cup {L + 1}
    BY <1>1
  <1>6. InKeyBlock(longer, L + 1) <=> KeyOpen(t) \/ line.kind = "begin"
    BY <1>1, <1>2, <1>3, <1>4 DEF InKeyBlock, KeyOpen, Lines, L
  <1>7. KeyOpen(longer) <=> (KeyOpen(t) \/ line.kind = "begin") /\ line.kind # "end"
    <2>1. KeyOpen(longer) <=>
             \E b \in 1 .. L + 1 : longer[b].kind = "begin"
                                  /\ \A e \in b .. L + 1 : longer[e].kind # "end"
      BY <1>1 DEF KeyOpen, Lines
    <2>2. KeyOpen(t) <=>
             \E b \in 1 .. L : longer[b].kind = "begin"
                              /\ \A e \in b .. L : longer[e].kind # "end"
      BY <1>1, <1>2 DEF KeyOpen, Lines, L
    <2> QED BY <1>1, <1>2, <1>3, <1>4, <1>5, <2>1, <2>2
  <1> QED BY <1>6, <1>7 DEF longer, L

-----------------------------------------------------------------------------
(* The redactor *)

RedactionState ==
    [open : BOOLEAN, read : Nat, output : Seq(LineType), redacted : SUBSET Nat,
     clear : SUBSET Nat, keys : Nat]

(* All lines of the text stand where they stood, or the output reaches     *)
(* beyond one that slips.                                                  *)
Reaches(t, output) ==
    \/ /\ \A m \in Lines(t) : ~ Slips(t, m)
       /\ Len(output) = Len(t) /\ ~ Dangling(output)
    \/ \E f \in Lines(t) : Slips(t, f) /\ f <= Len(output)

(* The redactor has read text t. *)
Redacting(t, r) ==
    /\ r \in RedactionState /\ r.read = Len(t)
    /\ RedactedExactly(t, r)
    /\ r.open <=> KeyOpen(t)
    /\ Reaches(t, r.output)

LEMMA SourceTexts ==
    /\ \A line \in SourceLine : line \in LineType /\ line.ending \in {"plain", "odd"}
    /\ \A t \in Seq(SourceLine) : t \in Seq(LineType)
  BY DEF SourceLine, LineType

(* What the inline rules make of a line. *)
LEMMA CommandRuleEffect ==
    ASSUME NEW line \in LineType
    PROVE  /\ ByCommandRule(line) \in LineType
           /\ line.kind # "secret" => ByCommandRule(line) = line
           /\ ByCommandRule(line).indented = line.indented
           /\ ByCommandRule(line).kind = line.kind
           /\ ByCommandRule(line).unit = line.unit
           /\ ByCommandRule(line).ending = line.ending
  BY DEF ByCommandRule, LineType, Clear, Replaced

LEMMA AssignmentRuleEffect ==
    ASSUME NEW line \in LineType
    PROVE  /\ ByAssignmentRule(line) \in LineType
           /\ line.kind # "secret" => ByAssignmentRule(line) = line
           /\ ByAssignmentRule(line).indented = line.indented
           /\ ByAssignmentRule(line).kind = line.kind
           /\ ByAssignmentRule(line).name = line.name
           /\ ByAssignmentRule(line).ending = line.ending
  BY DEF ByAssignmentRule, LineType, Clear, Replaced

LEMMA InlineEffect ==
    ASSUME NEW line \in LineType
    PROVE  /\ RedactInline(line) \in LineType
           /\ RedactInline(line).indented = line.indented
           /\ RedactInline(line).kind = line.kind
           /\ RedactInline(line).ending = line.ending
           /\ line.kind # "secret" => RedactInline(line) = line
  BY CommandRuleEffect, AssignmentRuleEffect DEF RedactInline

(* Which lines change, and on which the secret stays. *)
LEMMA InlineReplaces ==
    ASSUME NEW line \in LineType
    PROVE  /\ RedactInline(line) # line <=> HasReplaced(line)
           /\ line.kind = "secret" =>
                 (RedactInline(line).value = Clear <=> StaysClear(line))
  <1>1. CASE line.kind # "secret"
    BY <1>1, InlineEffect DEF HasReplaced
  <1>2. CASE line.kind = "secret" /\ line.unit = "assignment"
    <2>1. /\ line.name = "sign" /\ line.value \in {Clear, Replaced}
          /\ ByCommandRule(line) = line
      BY <1>2 DEF LineType, ByCommandRule
    <2>2. RedactInline(line) = [line EXCEPT !.value = Replaced]
      BY <1>2, <2>1 DEF RedactInline, ByAssignmentRule
    <2> QED BY <1>2, <2>1, <2>2 DEF LineType, HasReplaced, StaysClear, Clear, Replaced
  <1>3. CASE line.kind = "secret" /\ line.unit \in {"command", "both"}
    <2>1. line.value \in {Clear, Replaced} /\ line.unit # "assignment"
      BY <1>3 DEF LineType
    <2>2. ByCommandRule(line).name # "sign"
      BY <1>3 DEF ByCommandRule, LineType
    <2>3. RedactInline(line) = ByCommandRule(line)
      BY <2>2 DEF RedactInline, ByAssignmentRule
    <2> QED BY <1>3, <2>1, <2>3
            DEF ByCommandRule, LineType, HasReplaced, StaysClear, Clear, Replaced
  <1> QED BY <1>1, <1>2, <1>3 DEF LineType

(* What is appended to the output for a line that is hidden, or not. *)
Appended(line, hidden, lines) ==
    /\ lines \in Seq(LineType)
    /\ Len(lines) = IF hidden = "yes" /\ line.ending = "odd" /\ Empty(line) THEN 2 ELSE 1
    /\ lines[1].indented = line.indented
    /\ lines[1].kind = IF hidden = "yes" /\ ~ (line.ending = "odd" /\ Empty(line))
                       THEN "marker" ELSE line.kind
    /\ ~ (hidden = "yes" /\ line.ending = "odd") => lines[1].ending = line.ending
    /\ lines[1] = line \/ lines[1].kind \in {"marker", "secret"}
    /\ Len(lines) = 2 => lines[2].kind = "marker"
    /\ lines[Len(lines)].ending = "none" <=> hidden = "yes" /\ line.ending = "odd"

LEMMA EntireLineEffect ==
    ASSUME NEW line \in SourceLine
    PROVE  Appended(line, "yes", RedactEntireLine(line))
  <1>1. line \in LineType /\ line.ending \in {"plain", "odd"}
    BY SourceTexts
  <1>2. \A x \in BOOLEAN, e \in {"plain", "none"} :
           /\ Marker(x, e) \in LineType /\ Marker(x, e).indented = x
           /\ Marker(x, e).kind = "marker" /\ Marker(x, e).ending = e
    BY DEF Marker, Line, LineType
  <1>3. line.indented \in BOOLEAN /\ (Empty(line) => line.kind = "blank")
    BY <1>1 DEF LineType, Empty
  <1>4. CASE line.ending = "plain"
    BY <1>2, <1>3, <1>4 DEF RedactEntireLine, Appended
  <1>5. CASE line.ending = "odd" /\ Empty(line)
    <2>1. RedactEntireLine(line) = <<line, Marker(FALSE, "none")>>
      BY <1>5 DEF RedactEntireLine
    <2> DEFINE m == Marker(FALSE, "none")
    <2>2. m \in LineType /\ m.kind = "marker" /\ m.ending = "none"
      BY <1>2
    <2> HIDE DEF m
    <2>3. /\ <<line, m>> \in Seq(LineType) /\ Len(<<line, m>>) = 2
          /\ <<line, m>>[1] = line /\ <<line, m>>[2] = m
      BY <1>1, <2>2
    <2>4. Appended(line, "yes", <<line, m>>)
      BY <1>3, <1>5, <2>2, <2>3 DEF Appended
    <2> QED BY <2>1, <2>4 DEF m
  <1>6. CASE line.ending = "odd" /\ ~ Empty(line)
    BY <1>2, <1>3, <1>6 DEF RedactEntireLine, Appended
  <1> QED BY <1>1, <1>4, <1>5, <1>6

LEMMA VisibleLineEffect ==
    ASSUME NEW line \in SourceLine
    PROVE  Appended(line, "no", <<RedactInline(line)>>)
  <1>1. line \in LineType /\ line.ending \in {"plain", "odd"}
    BY SourceTexts
  <1>2. /\ RedactInline(line) \in LineType
        /\ RedactInline(line).indented = line.indented
        /\ RedactInline(line).kind = line.kind
        /\ RedactInline(line).ending = line.ending
        /\ line.kind # "secret" => RedactInline(line) = line
    BY <1>1, InlineEffect
  <1> DEFINE x == RedactInline(line)
  <1> HIDE DEF x
  <1>3. <<x>> \in Seq(LineType) /\ Len(<<x>>) = 1 /\ <<x>>[1] = x
    BY <1>2 DEF x
  <1>4. Appended(line, "no", <<x>>)
    BY <1>1, <1>2, <1>3 DEF Appended, x
  <1> QED BY <1>4 DEF x

(* What the join with one or two lines gives. *)
Joined(output, lines, j) ==
    /\ j \in Seq(LineType)
    /\ Len(j) = IF Dangling(output) THEN Len(output) + Len(lines) - 1
                ELSE Len(output) + Len(lines)
    /\ \A k \in 1 .. Len(output) :
          /\ j[k].indented = output[k].indented /\ j[k].kind = output[k].kind
          /\ (Dangling(output) /\ k = Len(output)) \/ j[k] = output[k]
    /\ ~ Dangling(output) => \A i \in 1 .. Len(lines) : j[Len(output) + i] = lines[i]
    /\ Dangling(j) <=> lines[Len(lines)].ending = "none"

LEMMA NotEmpty ==
    ASSUME NEW S, NEW x \in Seq(S), Len(x) = 1 \/ Len(x) = 2
    PROVE  x # <<>>
  OBVIOUS

LEMMA JoinEffect ==
    ASSUME NEW output \in Seq(LineType), NEW lines \in Seq(LineType), Len(lines) = 1 \/ Len(lines) = 2
    PROVE  Joined(output, lines, Join(output, lines))
  <1> DEFINE j == Join(output, lines)
             L == Len(output)
  <1>1. L \in Nat /\ Len(lines) \in 1 .. 2
    OBVIOUS
  <1>2. CASE ~ Dangling(output)
    <2>1. j = output \o lines
      BY <1>2 DEF Join
    <2>2. /\ j \in Seq(LineType) /\ Len(j) = L + Len(lines)
          /\ \A k \in 1 .. L : j[k] = output[k]
          /\ \A i \in 1 .. Len(lines) : j[L + i] = lines[i]
      BY <1>1, <2>1
    <2> HIDE DEF j
    <2>3. Dangling(j) <=> lines[Len(lines)].ending = "none"
      <3>1. j # <<>> /\ j[Len(j)] = lines[Len(lines)]
        BY <1>1, <2>2
      <3> QED BY <3>1 DEF Dangling
    <2> QED BY <1>1, <1>2, <2>2, <2>3 DEF j, Joined
  <1>3. CASE Dangling(output)
    <2> DEFINE closed == [output EXCEPT ![Len(output)].ending = Head(lines).ending]
               tail   == Tail(lines)
    <2>1. L \in 1 .. L /\ output # <<>>
      BY <1>1, <1>3 DEF Dangling
    <2>2. Head(lines) = lines[1] /\ lines[1] \in LineType
      BY <1>1
    <2>3. /\ tail \in Seq(LineType) /\ Len(tail) = Len(lines) - 1
          /\ Len(lines) = 2 => tail[1] = lines[2]
      BY <1>1, NotEmpty
    <2>4. [output[L] EXCEPT !.ending = lines[1].ending] \in LineType
      <3>1. output[L] \in LineType
        BY <2>1
      <3> QED BY <2>2, <3>1 DEF LineType
    <2>5. /\ closed \in Seq(LineType) /\ Len(closed) = L
          /\ closed[L] = [output[L] EXCEPT !.ending = lines[1].ending]
          /\ \A k \in 1 .. L : k # L => closed[k] = output[k]
      BY <2>1, <2>2, <2>4
    <2>6. closed[L].indented = output[L].indented /\ closed[L].kind = output[L].kind
          /\ closed[L].ending = lines[1].ending
      <3>1. output[L] \in LineType
        BY <2>1
      <3> QED BY <2>5, <3>1 DEF LineType
    <2>7. j = closed \o tail
      BY <1>3 DEF Join
    <2> HIDE DEF closed, tail, j
    <2>8. /\ j \in Seq(LineType) /\ Len(j) = L + Len(lines) - 1
          /\ \A k \in 1 .. L : j[k] = closed[k]
          /\ Len(lines) = 2 => j[L + 1] = lines[2]
      <3>1. closed \in Seq(LineType) /\ tail \in Seq(LineType)
        BY <2>3, <2>5
      <3>4. Len(j) = Len(closed) + Len(tail) /\ j \in Seq(LineType)
        BY <2>7, <3>1
      <3>2. \A k \in 1 .. Len(closed) : j[k] = closed[k]
        BY <2>3, <2>5, <2>7
      <3>3. Len(tail) = 1 => j[Len(closed) + 1] = tail[1]
        BY <2>3, <2>5, <2>7
      <3> HIDE DEF L
      <3> QED BY <1>1, <2>3, <2>5, <3>1, <3>2, <3>3, <3>4
    <2>9. \A k \in 1 .. L : /\ j[k].indented = output[k].indented /\ j[k].kind = output[k].kind
                            /\ k = L \/ j[k] = output[k]
      BY <2>5, <2>6, <2>8
    <2>10. Dangling(j) <=> lines[Len(lines)].ending = "none"
      <3>1. CASE Len(lines) = 1
        <4>1. Len(j) = L /\ j[L] = closed[L] /\ j # <<>>
          BY <2>1, <2>8, <3>1
        <4> QED BY <2>6, <3>1, <4>1 DEF Dangling
      <3>2. CASE Len(lines) = 2
        <4>1. Len(j) = L + 1 /\ j[L + 1] = lines[2] /\ j # <<>>
          BY <1>1, <2>8, <3>2
        <4> QED BY <3>2, <4>1 DEF Dangling
      <3> QED BY <3>1, <3>2
    <2> QED BY <1>3, <2>8, <2>9, <2>10 DEF j, Joined
  <1> QED BY <1>2, <1>3

(* What slips stays, when a line follows. *)
LEMMA SlipsStay ==
    ASSUME NEW t \in Seq(LineType), NEW line \in LineType
    PROVE  LET longer == Append(t, line) IN
           /\ \A k \in Lines(t) : Slips(longer, k) <=> Slips(t, k)
           /\ \A k : Intact(longer, k) => Intact(t, k)
           /\ \A k \in Lines(t) : Intact(t, k) => Intact(longer, k)
           /\ Intact(longer, Len(t) + 1) <=> \A m \in Lines(t) : ~ Slips(t, m)
  <1> DEFINE longer == Append(t, line)
  <1>1. /\ Len(t) \in Nat
        /\ Lines(longer) = Lines(t) \cup {Len(t) + 1} /\ Len(t) + 1 \notin Lines(t)
        /\ \A k \in Lines(t) : longer[k] = t[k]
    BY DEF Lines
  <1>2. \A k \in Lines(t) : InKeyBlock(longer, k) <=> InKeyBlock(t, k)
    BY KeyBlocksStay
  <1>3. \A k \in Lines(t) : k \in Nat /\ k <= Len(t)
    BY <1>1 DEF Lines
  <1> HIDE DEF longer
  <1>4. \A k \in Lines(t) : Slips(longer, k) <=> Slips(t, k)
    BY <1>1, <1>2 DEF Slips
  <1>5. \A k : Intact(longer, k) => Intact(t, k)
    BY <1>1, <1>4 DEF Intact
  <1>6. \A k \in Lines(t) : Intact(t, k) => Intact(longer, k)
    BY <1>1, <1>3, <1>4 DEF Intact
  <1>7. Intact(longer, Len(t) + 1) <=> \A m \in Lines(t) : ~ Slips(t, m)
    BY <1>1, <1>3, <1>4 DEF Intact
  <1> QED BY <1>4, <1>5, <1>6, <1>7 DEF longer

LEMMA RedactLineStep ==
    ASSUME NEW t \in Seq(SourceLine), NEW line \in SourceLine, NEW r, Redacting(t, r)
    PROVE  Redacting(Append(t, line), RedactLine(r, line))
  <1> DEFINE longer == Append(t, line)
             n      == Len(t) + 1
             hidden == r.open \/ line.kind = "begin"
             how    == IF hidden THEN "yes" ELSE "no"
             lines  == IF hidden THEN RedactEntireLine(line) ELSE <<RedactInline(line)>>
             after  == RedactLine(r, line)
             odd    == line.ending = "odd"
  <1>1. /\ longer \in Seq(LineType) /\ n \in Nat \ {0} /\ Len(longer) = n /\ longer[n] = line
        /\ Lines(longer) = Lines(t) \cup {n} /\ n \notin Lines(t) /\ Len(t) \in Nat
        /\ \A k \in Lines(t) : /\ longer[k] = t[k] /\ t[k] \in LineType
                               /\ t[k].ending # "none" /\ k \in 1 .. Len(t)
    BY SourceTexts DEF Lines, SourceLine
  <1>2. /\ r \in RedactionState /\ r.read = Len(t) /\ RedactedExactly(t, r)
        /\ r.open <=> KeyOpen(t)
        /\ Reaches(t, r.output)
    BY DEF Redacting
  <1>3. t \in Seq(LineType) /\ line \in LineType /\ line.ending \in {"plain", "odd"}
    BY SourceTexts
  <1>4. /\ InKeyBlock(longer, n) <=> hidden
        /\ KeyOpen(longer) <=> hidden /\ line.kind # "end"
    BY <1>2, <1>3, KeyBlockAtEnd
  <1>5. \A k \in Lines(t) : InKeyBlock(longer, k) <=> InKeyBlock(t, k)
    BY <1>3, KeyBlocksStay
  <1>6. /\ \A k \in Lines(t) : Slips(longer, k) <=> Slips(t, k)
        /\ \A k \in Lines(t) : Intact(longer, k) => Intact(t, k)
        /\ Intact(longer, n) <=> \A m \in Lines(t) : ~ Slips(t, m)
    BY <1>1, <1>3, SlipsStay
  <1>7. Slips(longer, n) <=> hidden /\ odd
    BY <1>1, <1>4 DEF Slips
  <1>8. Appended(line, how, lines)
    <2>1. CASE hidden
      BY <2>1, EntireLineEffect
    <2>2. CASE ~ hidden
      BY <2>2, VisibleLineEffect
    <2> QED BY <2>1, <2>2
  <1>9. /\ after.open = (hidden /\ line.kind # "end")
        /\ after.read = n
        /\ after.output = Join(r.output, lines)
        /\ after.redacted = IF hidden \/ RedactInline(line) # line
                            THEN r.redacted \cup {n} ELSE r.redacted
        /\ after.clear = IF ~ hidden /\ line.kind = "secret" /\ RedactInline(line).value = Clear
                         THEN r.clear \cup {n} ELSE r.clear
        /\ after.keys = r.keys + IF line.kind = "begin" THEN 1 ELSE 0
        /\ after = [open |-> after.open, read |-> after.read, output |-> after.output,
                    redacted |-> after.redacted, clear |-> after.clear, keys |-> after.keys]
    BY <1>2 DEF RedactLine, Output, Hidden
  <1>10. hidden \in BOOLEAN /\ (how = "yes" <=> hidden)
    BY <1>2, <1>3 DEF RedactionState
  <1> HIDE DEF after, hidden, how, lines, longer, n
  <1>11. r.output \in Seq(LineType) /\ Len(r.output) \in Nat
    BY <1>2 DEF RedactionState
  <1>12. /\ lines \in Seq(LineType) /\ (Len(lines) = 1 \/ Len(lines) = 2)
         /\ Len(lines) = IF hidden /\ odd /\ Empty(line) THEN 2 ELSE 1
         /\ lines[Len(lines)].ending = "none" <=> hidden /\ odd
         /\ lines[1].indented = line.indented
         /\ lines[1].kind = IF hidden /\ ~ (odd /\ Empty(line)) THEN "marker" ELSE line.kind
         /\ ~ (hidden /\ odd) => lines[1].ending = line.ending
    BY <1>8, <1>10 DEF Appended
  <1>13. /\ after.output \in Seq(LineType)
         /\ Len(after.output) = IF Dangling(r.output) THEN Len(r.output) + Len(lines) - 1
                                ELSE Len(r.output) + Len(lines)
         /\ \A k \in 1 .. Len(r.output) :
               /\ after.output[k].indented = r.output[k].indented
               /\ after.output[k].kind = r.output[k].kind
               /\ (Dangling(r.output) /\ k = Len(r.output)) \/ after.output[k] = r.output[k]
         /\ ~ Dangling(r.output) =>
               \A i \in 1 .. Len(lines) : after.output[Len(r.output) + i] = lines[i]
         /\ Dangling(after.output) <=> hidden /\ odd
    <2>1. (Len(lines) = 1 \/ Len(lines) = 2) /\ lines \in Seq(LineType)
      BY <1>12
    <2>2. Joined(r.output, lines, Join(r.output, lines))
      BY <1>11, <2>1, JoinEffect
    <2>3. Joined(r.output, lines, after.output)
      BY <1>9, <2>2
    <2> QED BY <1>12, <2>3 DEF Joined
  <1>14. after \in RedactionState
    <2>1. after.open \in BOOLEAN
      BY <1>9, <1>10
    <2>2. after.redacted \in SUBSET Nat /\ after.clear \in SUBSET Nat
      BY <1>1, <1>2, <1>9 DEF RedactionState
    <2>3. after.keys \in Nat
      BY <1>2, <1>9 DEF RedactionState
    <2> QED BY <1>1, <1>9, <1>13, <2>1, <2>2, <2>3 DEF RedactionState
  <1>15. after.open <=> KeyOpen(longer)
    BY <1>4, <1>9
  <1>16. Len(after.output) \in Nat /\ Len(after.output) >= Len(r.output)
         /\ (~ Dangling(r.output) => Len(after.output) >= Len(r.output) + 1)
    <2> DEFINE before == Len(r.output)
               now    == Len(after.output)
               more   == Len(lines)
    <2>1. now = IF Dangling(r.output) THEN before + more - 1 ELSE before + more
      BY <1>13
    <2>2. before \in Nat /\ (more = 1 \/ more = 2)
      BY <1>11, <1>12
    <2> HIDE DEF before, now, more
    <2>3. CASE Dangling(r.output)
      <3>1. now = before + more - 1
        BY <2>1, <2>3
      <3>2. now \in Nat /\ now >= before
        BY <2>2, <3>1
      <3> QED BY <2>3, <3>2 DEF before, now
    <2>4. CASE ~ Dangling(r.output)
      <3>1. now = before + more
        BY <2>1, <2>4
      <3>2. now \in Nat /\ now >= before /\ now >= before + 1
        BY <2>2, <3>1
      <3> QED BY <3>2 DEF before, now
    <2> QED BY <2>3, <2>4
  <1>17. ASSUME NEW k \in Lines(longer), Intact(longer, k)
         PROVE  InPlace(longer, after, k)
    <2>1. CASE k \in Lines(t)
      <3>1. InPlace(t, r, k)
        BY <1>2, <1>6, <1>17, <2>1 DEF RedactedExactly
      <3>2. k \in 1 .. Len(r.output) /\ k \in 1 .. Len(after.output)
        BY <1>11, <1>16, <3>1 DEF InPlace
      <3>3. Slips(t, k) \/ after.output[k].ending = t[k].ending
        <4>1. CASE after.output[k] = r.output[k]
          BY <3>1, <4>1 DEF InPlace
        <4>2. CASE Dangling(r.output) /\ k = Len(r.output)
          <5>1. r.output[k].ending = "none"
            BY <4>2 DEF Dangling
          <5> QED BY <1>1, <2>1, <3>1, <5>1 DEF InPlace
        <4> QED BY <1>13, <3>2, <4>1, <4>2
      <3>4. longer[k] = t[k]
        BY <1>1, <2>1
      <3> QED BY <1>5, <1>6, <1>13, <2>1, <3>1, <3>2, <3>3, <3>4 DEF InPlace
    <2>2. CASE k = n
      <3>1. \A m \in Lines(t) : ~ Slips(t, m)
        BY <1>6, <1>17, <2>2
      <3>2. Len(r.output) = Len(t) /\ ~ Dangling(r.output)
        BY <1>2, <3>1 DEF Reaches
      <3>3. after.output[n] = lines[1] /\ n \in 1 .. Len(after.output)
        BY <1>1, <1>12, <1>13, <1>16, <3>2 DEF n
      <3>4. longer[k] = line
        BY <1>1, <2>2
      <3> QED BY <1>4, <1>7, <1>12, <2>2, <3>3, <3>4 DEF InPlace
    <2> QED BY <1>1, <2>1, <2>2
  <1>18. Reaches(longer, after.output)
    <2>1. CASE \A m \in Lines(t) : ~ Slips(t, m)
      <3>1. Len(r.output) = Len(t) /\ ~ Dangling(r.output)
        BY <1>2, <2>1 DEF Reaches
      <3>2. CASE hidden /\ odd
        <4>1. Slips(longer, n) /\ n \in Lines(longer) /\ n <= Len(after.output)
          BY <1>1, <1>7, <1>16, <3>1, <3>2 DEF n
        <4> QED BY <4>1 DEF Reaches
      <3>3. CASE ~ (hidden /\ odd)
        <4>1. Len(after.output) = n /\ ~ Dangling(after.output)
          BY <1>1, <1>11, <1>12, <1>13, <3>1, <3>3 DEF n
        <4>2. \A m \in Lines(longer) : ~ Slips(longer, m)
          BY <1>1, <1>6, <1>7, <2>1, <3>3
        <4> QED BY <1>1, <4>1, <4>2 DEF Reaches
      <3> QED BY <3>2, <3>3
    <2>2. CASE \E m \in Lines(t) : Slips(t, m)
      <3>1. PICK f \in Lines(t) : Slips(t, f) /\ f <= Len(r.output)
        BY <1>2, <2>2 DEF Reaches
      <3>2. f \in Lines(longer) /\ Slips(longer, f) /\ f <= Len(after.output)
        BY <1>1, <1>6, <1>11, <1>16, <3>1
      <3> QED BY <3>2 DEF Reaches
    <2> QED BY <2>1, <2>2
  <1>19. after.redacted = {k \in Lines(longer) : InKeyBlock(longer, k) \/ HasReplaced(longer[k])}
    <2>1. r.redacted = {k \in Lines(t) : InKeyBlock(t, k) \/ HasReplaced(t[k])}
      BY <1>2 DEF RedactedExactly
    <2>2. RedactInline(line) # line <=> HasReplaced(line)
      BY <1>3, InlineReplaces
    <2>3. CASE hidden \/ HasReplaced(line)
      <3>1. after.redacted = r.redacted \cup {n}
        BY <1>9, <2>2, <2>3
      <3> QED BY <1>1, <1>4, <1>5, <2>1, <2>3, <3>1
    <2>4. CASE ~ (hidden \/ HasReplaced(line))
      <3>1. after.redacted = r.redacted
        BY <1>9, <2>2, <2>4
      <3> QED BY <1>1, <1>4, <1>5, <2>1, <2>4, <3>1
    <2> QED BY <2>3, <2>4
  <1>20. after.clear = {k \in Lines(longer) : ~ InKeyBlock(longer, k) /\ StaysClear(longer[k])}
    <2>1. r.clear = {k \in Lines(t) : ~ InKeyBlock(t, k) /\ StaysClear(t[k])}
      BY <1>2 DEF RedactedExactly
    <2>2. line.kind = "secret" /\ RedactInline(line).value = Clear <=> StaysClear(line)
      BY <1>3, InlineReplaces DEF StaysClear
    <2>3. CASE ~ hidden /\ StaysClear(line)
      <3>1. after.clear = r.clear \cup {n}
        BY <1>9, <2>2, <2>3
      <3> QED BY <1>1, <1>4, <1>5, <2>1, <2>3, <3>1
    <2>4. CASE ~ (~ hidden /\ StaysClear(line))
      <3>1. after.clear = r.clear
        BY <1>9, <2>2, <2>4
      <3> QED BY <1>1, <1>4, <1>5, <2>1, <2>4, <3>1
    <2> QED BY <2>3, <2>4
  <1>21. IsFiniteSet(Lines(t))
    BY <1>1, FS_Interval DEF Lines
  <1>22. after.keys = Cardinality({k \in Lines(longer) : longer[k].kind = "begin"})
    <2> DEFINE begins == {k \in Lines(t) : t[k].kind = "begin"}
    <2>1. r.keys = Cardinality(begins)
      BY <1>2 DEF RedactedExactly
    <2>2. IsFiniteSet(begins)
      BY <1>21, FS_Subset
    <2>3. {k \in Lines(longer) : longer[k].kind = "begin"} =
             IF line.kind = "begin" THEN begins \cup {n} ELSE begins
      BY <1>1
    <2>4. n \notin begins
      BY <1>1
    <2> HIDE DEF begins
    <2>5. Cardinality(begins \cup {n}) = Cardinality(begins) + 1
      BY <2>2, <2>4, FS_AddElement
    <2>6. r.keys \in Nat
      BY <1>2 DEF RedactionState
    <2>7. CASE line.kind = "begin"
      BY <1>9, <2>1, <2>3, <2>5, <2>7
    <2>8. CASE line.kind # "begin"
      <3>1. after.keys = r.keys
        BY <1>9, <2>6, <2>8
      <3> QED BY <2>1, <2>3, <2>8, <3>1
    <2> QED BY <2>7, <2>8
  <1>23. Len(after.output) + Cardinality({k \in Lines(longer) : Slips(longer, k) /\ ~ Empty(longer[k])})
            = n + IF Dangling(after.output) THEN 1 ELSE 0
    <2> DEFINE lost == {k \in Lines(t) : Slips(t, k) /\ ~ Empty(t[k])}
    <2>1. Len(r.output) + Cardinality(lost) = Len(t) + IF Dangling(r.output) THEN 1 ELSE 0
      BY <1>2 DEF RedactedExactly
    <2>2. IsFiniteSet(lost)
      BY <1>21, FS_Subset
    <2>3. {k \in Lines(longer) : Slips(longer, k) /\ ~ Empty(longer[k])} =
             IF hidden /\ odd /\ ~ Empty(line) THEN lost \cup {n} ELSE lost
      BY <1>1, <1>6, <1>7
    <2>4. n \notin lost
      BY <1>1
    <2> HIDE DEF lost
    <2>5. Cardinality(lost \cup {n}) = Cardinality(lost) + 1 /\ Cardinality(lost) \in Nat
      BY <2>2, <2>4, FS_AddElement, FS_CardinalityType
    <2> DEFINE lost1 == {k \in Lines(longer) : Slips(longer, k) /\ ~ Empty(longer[k])}
               before == Len(r.output)
               now    == Len(after.output)
               c      == Cardinality(lost)
    <2>6. before \in Nat /\ now \in Nat /\ c \in Nat /\ Len(t) \in Nat /\ n = Len(t) + 1
      BY <1>1, <1>11, <1>16, <2>5 DEF n
    <2>7. before + c = IF Dangling(r.output) THEN Len(t) + 1 ELSE Len(t)
      BY <1>1, <2>1
    <2>8. now = IF Dangling(r.output) THEN before + Len(lines) - 1 ELSE before + Len(lines)
      BY <1>13
    <2>9. Cardinality(lost1) = IF hidden /\ odd /\ ~ Empty(line) THEN c + 1 ELSE c
      BY <2>3, <2>5
    <2>10. /\ Len(lines) = IF hidden /\ odd /\ Empty(line) THEN 2 ELSE 1
           /\ Dangling(after.output) <=> hidden /\ odd
      BY <1>12, <1>13
    <2> HIDE DEF lost1, before, now, c
    <2>11. now + c = Len(t) + Len(lines)
      <3>1. Len(lines) = 1 \/ Len(lines) = 2
        BY <1>12
      <3> QED BY <2>6, <2>7, <2>8, <3>1
    <2>12. now + Cardinality(lost1) = n + IF Dangling(after.output) THEN 1 ELSE 0
      <3>1. CASE ~ (hidden /\ odd)
        <4>1. Len(lines) = 1 /\ Cardinality(lost1) = c /\ ~ Dangling(after.output)
          BY <2>9, <2>10, <3>1
        <4> QED BY <2>6, <2>11, <4>1
      <3>2. CASE hidden /\ odd /\ Empty(line)
        <4>1. Len(lines) = 2 /\ Cardinality(lost1) = c /\ Dangling(after.output)
          BY <2>9, <2>10, <3>2
        <4> QED BY <2>6, <2>11, <4>1
      <3>3. CASE hidden /\ odd /\ ~ Empty(line)
        <4>1. Len(lines) = 1 /\ Cardinality(lost1) = c + 1 /\ Dangling(after.output)
          BY <2>9, <2>10, <3>3
        <4> QED BY <2>6, <2>11, <4>1
      <3> QED BY <3>1, <3>2, <3>3
    <2> QED BY <2>12 DEF lost1, now
  <1>24. RedactedExactly(longer, after)
    BY <1>1, <1>17, <1>19, <1>20, <1>22, <1>23 DEF RedactedExactly
  <1> QED BY <1>1, <1>9, <1>14, <1>15, <1>18, <1>24 DEF Redacting, longer, after

-----------------------------------------------------------------------------
(* Headings and settings of a text *)

(* A set of line numbers has a last one. *)
LEMMA LastIn ==
    ASSUME NEW m \in Nat, NEW S \in SUBSET (1 .. m), S # {}
    PROVE  Last(S) \in S /\ \A k \in S : k <= Last(S)
  <1> DEFINE T == {m - k : k \in S}
  <1>1. \A k \in S : k \in Nat /\ k <= m /\ m - k \in Nat
    OBVIOUS
  <1>2. T \subseteq Nat /\ T # {}
    BY <1>1
  <1> HIDE DEF T
  <1>3. PICK x \in T : \A y \in T : ~ (<<y, x>> \in OpToRel(<, Nat))
    BY <1>2, WFMin, NatLessThanWellFounded, Zenon
  <1>4. x \in Nat /\ \A y \in T : y \in Nat /\ ~ (y < x)
    BY <1>2, <1>3 DEF OpToRel
  <1>5. PICK k \in S : x = m - k
    BY <1>3 DEF T
  <1>6. \A j \in S : m - j \in T
    BY DEF T
  <1>7. \A j \in S : j <= k
    BY <1>1, <1>4, <1>5, <1>6
  <1> QED BY <1>7 DEF Last

(* The heading of a line lies before it, and does not change. *)
LEMMA HeadingBefore ==
    ASSUME NEW t \in Seq(LineType), NEW k \in Nat \ {0}
    PROVE  Heading(t, k) \in Nat /\ Heading(t, k) < k
  <1>1. k - 1 \in Nat /\ Margin(t, k) \in SUBSET (1 .. k - 1)
    BY DEF Margin
  <1>2. CASE Margin(t, k) = {}
    BY <1>2 DEF Heading
  <1>3. CASE Margin(t, k) # {}
    <2>1. Last(Margin(t, k)) \in Margin(t, k)
      BY <1>1, <1>3, LastIn
    <2> QED BY <1>1, <1>3, <2>1 DEF Heading
  <1> QED BY <1>2, <1>3

LEMMA HeadingStays ==
    ASSUME NEW t \in Seq(LineType), NEW line \in LineType, NEW k \in 1 .. Len(t) + 1
    PROVE  Heading(Append(t, line), k) = Heading(t, k)
  <1>1. \A h \in 1 .. k - 1 : Append(t, line)[h] = t[h]
    OBVIOUS
  <1>2. Margin(Append(t, line), k) = Margin(t, k)
    BY <1>1 DEF Margin
  <1> QED BY <1>2 DEF Heading

LEMMA HeadingStep ==
    ASSUME NEW t \in Seq(LineType), NEW line \in LineType
    PROVE  Heading(Append(t, line), Len(t) + 2) =
              IF ClosesBlock(line) THEN Len(t) + 1 ELSE Heading(t, Len(t) + 1)
  <1> DEFINE longer == Append(t, line)
             n == Len(t) + 1
  <1>1. n \in Nat \ {0} /\ longer[n] = line /\ \A h \in 1 .. n - 1 : longer[h] = t[h]
    OBVIOUS
  <1>2. 1 .. (n + 1) - 1 = (1 .. n - 1) \cup {n} /\ n \notin 1 .. n - 1
    BY <1>1
  <1> HIDE DEF longer, n
  <1>3. Margin(longer, n + 1) = IF ClosesBlock(line) THEN Margin(t, n) \cup {n} ELSE Margin(t, n)
    BY <1>1, <1>2 DEF Margin, ClosesBlock
  <1>4. CASE ClosesBlock(line)
    <2>1. n + 1 \in Nat /\ Margin(longer, n + 1) \in SUBSET (1 .. n)
      BY <1>1, <1>3 DEF Margin
    <2>2. n \in Margin(longer, n + 1)
      BY <1>3, <1>4
    <2>3. Last(Margin(longer, n + 1)) = n
      <3>1. /\ Last(Margin(longer, n + 1)) \in 1 .. n
            /\ n <= Last(Margin(longer, n + 1))
        BY <1>1, <2>1, <2>2, LastIn
      <3> QED BY <1>1, <3>1
    <2>4. Heading(longer, n + 1) = n
      BY <2>2, <2>3 DEF Heading
    <2> QED BY <1>4, <2>4 DEF longer, n
  <1>5. CASE ~ ClosesBlock(line)
    <2>1. Heading(longer, n + 1) = Heading(t, n)
      BY <1>3, <1>5 DEF Heading
    <2> QED BY <1>5, <2>1 DEF longer, n
  <1> QED BY <1>4, <1>5

(* The lines that configure what line h declares. *)
SetBy(t, h) == {n \in Lines(t) : Sets(t, n, h)}

(* One more line configures what its heading declares, or everything.      *)
LEMMA SetByStep ==
    ASSUME NEW t \in Seq(LineType), NEW line \in LineType, NEW h \in Nat
    PROVE  SetBy(Append(t, line), h) =
              IF /\ IsValid(line)
                 /\ IF h = 0 THEN ~ line.indented
                    ELSE line.indented /\ Heading(t, Len(t) + 1) = h
              THEN SetBy(t, h) \cup {Len(t) + 1} ELSE SetBy(t, h)
  <1> DEFINE longer == Append(t, line)
             n == Len(t) + 1
  <1>1. /\ Lines(longer) = Lines(t) \cup {n} /\ longer[n] = line
        /\ \A k \in Lines(t) : longer[k] = t[k] /\ k \in 1 .. n
        /\ n \in 1 .. n
    BY DEF Lines
  <1>2. \A k \in 1 .. n : Heading(longer, k) = Heading(t, k)
    BY HeadingStays
  <1> HIDE DEF longer, n
  <1>3. \A k \in Lines(t) : Sets(longer, k, h) <=> Sets(t, k, h)
    BY <1>1, <1>2 DEF Sets
  <1>4. Sets(longer, n, h) <=>
           /\ IsValid(line)
           /\ IF h = 0 THEN ~ line.indented ELSE line.indented /\ Heading(t, n) = h
    BY <1>1, <1>2 DEF Sets, IsValid
  <1>5. SetBy(longer, h) = IF Sets(longer, n, h) THEN SetBy(t, h) \cup {n} ELSE SetBy(t, h)
    BY <1>1, <1>3 DEF SetBy
  <1> QED BY <1>4, <1>5 DEF longer, n

(* Nothing is set yet by a line that follows the text. *)
LEMMA SetByNew ==
    ASSUME NEW t \in Seq(LineType), NEW h \in Nat, h > Len(t)
    PROVE  SetBy(t, h) = {}
  <1>1. \A k \in Lines(t) : k \in Nat \ {0} /\ k <= Len(t) /\ h # 0
    BY DEF Lines
  <1>2. \A k \in Lines(t) : Heading(t, k) \in Nat /\ Heading(t, k) < k
    BY <1>1, HeadingBefore
  <1>3. \A k \in Lines(t) : Heading(t, k) # h
    BY <1>1, <1>2
  <1> QED BY <1>1, <1>3 DEF SetBy, Sets

-----------------------------------------------------------------------------
(* What the parser keeps *)

(* The settings are those of the lines that configure what h declares, in  *)
(* the order of the text.                                                  *)
Describes(settings, t, h) ==
    /\ \A i \in 1 .. Len(settings) :
          /\ settings[i].line \in SetBy(t, h)
          /\ settings[i] = Setting(settings[i].line, t[settings[i].line])
    /\ \A n \in SetBy(t, h) : \E i \in 1 .. Len(settings) : settings[i].line = n
    /\ \A i, j \in 1 .. Len(settings) : i < j => settings[i].line < settings[j].line

LEMMA SettingOfLine ==
    ASSUME NEW line \in LineType, IsValid(line), NEW n \in Nat
    PROVE  Setting(n, line) \in SettingType /\ Setting(n, line).line = n
  BY NothingElse DEF IsValid, LineType, Setting, SettingType

LEMMA DescribesSame ==
    ASSUME NEW t \in Seq(LineType), NEW line \in LineType, NEW h \in Nat,
           NEW settings \in Seq(SettingType), Describes(settings, t, h),
           SetBy(Append(t, line), h) = SetBy(t, h)
    PROVE  Describes(settings, Append(t, line), h)
  <1>1. \A k \in SetBy(t, h) : Append(t, line)[k] = t[k]
    BY DEF SetBy, Lines
  <1> QED BY <1>1 DEF Describes

LEMMA DescribesMore ==
    ASSUME NEW t \in Seq(LineType), NEW line \in LineType, NEW h \in Nat,
           NEW settings \in Seq(SettingType), Describes(settings, t, h), IsValid(line),
           SetBy(Append(t, line), h) = SetBy(t, h) \cup {Len(t) + 1}
    PROVE  Describes(Append(settings, Setting(Len(t) + 1, line)), Append(t, line), h)
  <1> DEFINE n == Len(t) + 1
             longer == Append(t, line)
             new == Setting(n, line)
             more == Append(settings, new)
             L == Len(settings)
  <1>1. n \in Nat /\ longer[n] = line /\ \A k \in SetBy(t, h) : longer[k] = t[k] /\ k \in Nat /\ k < n
    BY DEF SetBy, Lines
  <1>2. new \in SettingType /\ new.line = n
    BY <1>1, SettingOfLine
  <1>3. /\ L \in Nat /\ Len(more) = L + 1 /\ more[L + 1] = new
        /\ \A i \in 1 .. L : more[i] = settings[i]
    BY <1>2
  <1>4. \A i \in 1 .. L + 1 : i \in 1 .. L \/ i = L + 1
    BY <1>3
  <1>5. 1 .. L \subseteq 1 .. L + 1 /\ L + 1 \in 1 .. L + 1
    BY <1>3
  <1>6. new = Setting(n, longer[n])
    BY <1>1
  <1>7. SetBy(longer, h) = SetBy(t, h) \cup {n}
    OBVIOUS
  <1> HIDE DEF n, longer, new, more, L
  <1>8. \A i \in 1 .. L + 1 : /\ more[i].line \in SetBy(longer, h)
                              /\ more[i] = Setting(more[i].line, longer[more[i].line])
    <2>1. \A i \in 1 .. L : /\ settings[i].line \in SetBy(t, h)
                            /\ settings[i] = Setting(settings[i].line, t[settings[i].line])
      BY DEF Describes, L
    <2> QED BY <1>1, <1>2, <1>3, <1>4, <1>6, <1>7, <2>1
  <1>9. \A k \in SetBy(longer, h) : \E i \in 1 .. L + 1 : more[i].line = k
    <2>1. \A k \in SetBy(t, h) : \E i \in 1 .. L : settings[i].line = k
      BY DEF Describes, L
    <2> QED BY <1>2, <1>3, <1>5, <1>7, <2>1
  <1>10. \A i, j \in 1 .. L + 1 : i < j => more[i].line < more[j].line
    <2>1. \A i, j \in 1 .. L : i < j => settings[i].line < settings[j].line
      BY DEF Describes, L
    <2>2. \A i \in 1 .. L : settings[i].line \in SetBy(t, h)
      BY DEF Describes, L
    <2>3. \A i, j \in 1 .. L + 1 : i < j => i \in 1 .. L /\ (j \in 1 .. L \/ j = L + 1)
      BY <1>3, <1>4
    <2> QED BY <1>1, <1>2, <1>3, <2>1, <2>2, <2>3
  <1>11. Describes(more, longer, h)
    BY <1>3, <1>8, <1>9, <1>10 DEF Describes
  <1> QED BY <1>11 DEF more, new, n, longer

-----------------------------------------------------------------------------
(* One line of the parser *)

ParserType ==
    [current : AssociationType \cup {Nothing}, associations : Seq(AssociationType),
     globals : Seq(SettingType), warnings : Seq(Nat)]

NewAssociation(n, line) ==
    [name |-> line.name, declared |-> n, peers |-> <<>>, settings |-> <<>>]

(* Association a has become b, on line n within its block. *)
Continues(a, b, n, line) ==
    /\ b.name = a.name /\ b.declared = a.declared
    /\ b.settings = IF IsValid(line) THEN Append(a.settings, Setting(n, line))
                    ELSE a.settings

(* A command at the margin. *)
LEMMA ParseMargin ==
    ASSUME NEW p \in ParserType, NEW n \in Nat, NEW line \in LineType, ClosesBlock(line)
    PROVE  LET q == ParseLine(p, n, line) IN
           /\ q \in ParserType
           /\ q.globals = IF IsValid(line) THEN Append(p.globals, Setting(n, line))
                          ELSE p.globals
           /\ q.warnings = IF IsLifetime(line) /\ ~ IsValid(line)
                           THEN Append(p.warnings, n) ELSE p.warnings
           /\ line.kind = "declaration" =>
                 /\ q.current = NewAssociation(n, line) /\ q.current # Nothing
                 /\ NewAssociation(n, line) \in AssociationType
                 /\ Closed(q) = Append(Closed(p), NewAssociation(n, line))
           /\ line.kind # "declaration" => q.current = Nothing /\ Closed(q) = Closed(p)
           /\ Closed(p) \in Seq(AssociationType)
  <1> DEFINE q == ParseLine(p, n, line)
             c == IF line.kind = "declaration" THEN NewAssociation(n, line) ELSE Nothing
             g == IF IsValid(line) THEN Append(p.globals, Setting(n, line)) ELSE p.globals
             w == IF IsLifetime(line) /\ ~ IsValid(line)
                  THEN Append(p.warnings, n) ELSE p.warnings
  <1>1. q = [current |-> c, associations |-> Closed(p), globals |-> g, warnings |-> w]
    <2>1. line.kind = "declaration" => ~ IsLifetime(line)
      BY DEF IsLifetime
    <2>2. c = IF IsLifetime(line) THEN Nothing ELSE TopLevelDeclaration(n, line)
      BY <2>1 DEF TopLevelDeclaration, NewAssociation
    <2> HIDE DEF c
    <2> QED BY <2>2 DEF ParseLine
  <1>2. Closed(p) \in Seq(AssociationType)
    BY DEF Closed, ParserType
  <1>3. line.kind = "declaration" => NewAssociation(n, line) \in AssociationType
    BY DEF NewAssociation, AssociationType, LineType
  <1>4. \A a \in AssociationType : a # Nothing
    BY NothingElse
  <1>5. c \in AssociationType \cup {Nothing} /\ (c = Nothing <=> line.kind # "declaration")
    BY <1>3, <1>4
  <1>6. g \in Seq(SettingType)
    BY SettingOfLine DEF ParserType
  <1>7. w \in Seq(Nat)
    BY DEF ParserType
  <1> HIDE DEF q, g, w
  <1>8. q \in ParserType
    BY <1>1, <1>2, <1>5, <1>6, <1>7 DEF ParserType
  <1>9. Closed(q) = IF c = Nothing THEN Closed(p) ELSE Append(Closed(p), c)
    BY <1>1 DEF Closed
  <1>10. q.current = c /\ q.globals = g /\ q.warnings = w
    BY <1>1
  <1>11. line.kind = "declaration" =>
            /\ q.current = NewAssociation(n, line) /\ q.current # Nothing
            /\ Closed(q) = Append(Closed(p), NewAssociation(n, line))
    BY <1>5, <1>9, <1>10
  <1>12. line.kind # "declaration" => q.current = Nothing /\ Closed(q) = Closed(p)
    BY <1>9, <1>10
  <1> HIDE DEF c
  <1> QED BY <1>2, <1>3, <1>8, <1>10, <1>11, <1>12 DEF q, g, w

(* A line within a block, or of no block at all. *)
LEMMA ParseWithin ==
    ASSUME NEW p \in ParserType, NEW n \in Nat, NEW line \in LineType, ~ ClosesBlock(line)
    PROVE  LET q == ParseLine(p, n, line) IN
           /\ q \in ParserType
           /\ q.globals = p.globals
           /\ q.warnings = IF IsLifetime(line) /\ ~ IsValid(line) /\ p.current # Nothing
                           THEN Append(p.warnings, n) ELSE p.warnings
           /\ p.current = Nothing => q.current = Nothing /\ Closed(q) = Closed(p)
           /\ p.current # Nothing =>
                 /\ q.current # Nothing
                 /\ p.current \in AssociationType /\ q.current \in AssociationType
                 /\ Continues(p.current, q.current, n, line)
                 /\ Closed(p) = Append(p.associations, p.current)
                 /\ Closed(q) = Append(p.associations, q.current)
  <1> DEFINE q == ParseLine(p, n, line)
  <1>1. IsLifetime(line) /\ ~ IsValid(line) => line.kind # "blank"
    BY DEF IsLifetime
  <1>2. IsValid(line) => IsLifetime(line) /\ line.kind # "blank"
    BY DEF IsLifetime, IsValid
  <1>3. \A a \in AssociationType : a # Nothing
    BY NothingElse
  <1>4. CASE p.current = Nothing
    <2>1. q = p
      BY <1>4 DEF ParseLine
    <2> QED BY <1>4, <2>1
  <1>5. CASE p.current # Nothing
    <2>1. p.current \in AssociationType /\ Closed(p) = Append(p.associations, p.current)
      BY <1>5 DEF ParserType, Closed
    <2>2. CASE line.kind = "blank"
      <3>1. q = p /\ ~ IsValid(line) /\ ~ IsLifetime(line)
        BY <1>1, <1>2, <2>2 DEF ParseLine
      <3>2. Continues(p.current, q.current, n, line)
        BY <3>1 DEF Continues
      <3> QED BY <1>5, <2>1, <3>1, <3>2
    <2>3. CASE line.kind # "blank" /\ IsValid(line)
      <3> DEFINE more == Append(p.current.settings, Setting(n, line))
                 b    == [p.current EXCEPT !.settings = more]
      <3>1. q = [p EXCEPT !.current = b]
        BY <1>5, <2>3 DEF ParseLine
      <3>2. more \in Seq(SettingType)
        BY <2>1, <2>3, SettingOfLine DEF AssociationType
      <3> HIDE DEF more
      <3>3. /\ b \in AssociationType /\ b.name = p.current.name
            /\ b.declared = p.current.declared
            /\ b.settings = more
        BY <2>1, <3>2 DEF AssociationType
      <3>4. b # Nothing
        BY <1>3, <3>3
      <3> HIDE DEF b
      <3>5. /\ q \in ParserType /\ q.current = b /\ q.associations = p.associations
            /\ q.globals = p.globals /\ q.warnings = p.warnings
        BY <3>1, <3>3 DEF ParserType
      <3>6. Continues(p.current, q.current, n, line)
        BY <2>3, <3>3, <3>5 DEF Continues, more
      <3>7. Closed(q) = Append(p.associations, q.current)
        BY <3>4, <3>5 DEF Closed
      <3> QED BY <1>5, <2>1, <2>3, <3>3, <3>4, <3>5, <3>6, <3>7
    <2>4. CASE line.kind # "blank" /\ ~ IsValid(line) /\ IsLifetime(line)
      <3> DEFINE more == Append(p.warnings, n)
      <3>1. q = [p EXCEPT !.warnings = more]
        BY <1>5, <2>4 DEF ParseLine
      <3>2. more \in Seq(Nat)
        BY DEF ParserType
      <3> HIDE DEF more
      <3>3. /\ q \in ParserType /\ q.current = p.current /\ q.associations = p.associations
            /\ q.globals = p.globals /\ q.warnings = more
        BY <3>2, <3>1 DEF ParserType
      <3>4. Continues(p.current, q.current, n, line)
        BY <2>4, <3>3 DEF Continues
      <3>5. Closed(q) = Append(p.associations, q.current)
        BY <1>5, <3>3 DEF Closed
      <3> QED BY <1>5, <2>1, <2>4, <3>3, <3>4, <3>5 DEF more
    <2>5. CASE line.kind # "blank" /\ ~ IsLifetime(line) /\ line.kind = "peer"
      <3> DEFINE more == Append(p.current.peers, n)
                 b    == [p.current EXCEPT !.peers = more]
      <3>1. q = [p EXCEPT !.current = b]
        BY <1>2, <1>5, <2>5 DEF ParseLine
      <3>2. more \in Seq(Nat)
        BY <2>1 DEF AssociationType
      <3> HIDE DEF more
      <3>3. /\ b \in AssociationType /\ b.name = p.current.name
            /\ b.declared = p.current.declared /\ b.settings = p.current.settings
        BY <2>1, <3>2 DEF AssociationType
      <3>4. b # Nothing
        BY <1>3, <3>3
      <3> HIDE DEF b
      <3>5. /\ q \in ParserType /\ q.current = b /\ q.associations = p.associations
            /\ q.globals = p.globals /\ q.warnings = p.warnings
        BY <3>1, <3>3 DEF ParserType
      <3>6. Continues(p.current, q.current, n, line)
        BY <1>2, <2>5, <3>3, <3>5 DEF Continues
      <3>7. Closed(q) = Append(p.associations, q.current)
        BY <3>4, <3>5 DEF Closed
      <3> QED BY <1>5, <2>1, <2>5, <3>3, <3>4, <3>5, <3>6, <3>7
    <2>6. CASE line.kind # "blank" /\ ~ IsLifetime(line) /\ line.kind # "peer"
      <3>1. q = p /\ ~ IsValid(line)
        BY <1>2, <1>5, <2>6 DEF ParseLine
      <3>2. Continues(p.current, q.current, n, line)
        BY <3>1 DEF Continues
      <3> QED BY <1>5, <2>1, <2>6, <3>1, <3>2
    <2> QED BY <1>2, <2>2, <2>3, <2>4, <2>5, <2>6
  <1> QED BY <1>4, <1>5

-----------------------------------------------------------------------------
(* The parser has read a text *)

(* What association a says of its declaration. *)
Faithful(t, a) ==
    /\ a.declared \in Declared(t) /\ a.name = t[a.declared].name
    /\ Describes(a.settings, t, a.declared)

(* The associations are the declarations of the text, each once. *)
OnePerDeclaration(t, associations) ==
    /\ \A i \in 1 .. Len(associations) : Faithful(t, associations[i])
    /\ \A h \in Declared(t) : \E i \in 1 .. Len(associations) : associations[i].declared = h
    /\ \A i, j \in 1 .. Len(associations) :
          associations[i].declared = associations[j].declared => i = j

(* The block the parser is in is that of the heading of the next line. *)
InBlock(t, current) ==
    /\ current # Nothing <=> Heading(t, Len(t) + 1) \in Declared(t)
    /\ current # Nothing => current.declared = Heading(t, Len(t) + 1)

Warned(t, warnings) ==
    Members(warnings) =
       {n \in Lines(t) : /\ IsLifetime(t[n]) /\ ~ IsValid(t[n])
                         /\ ~ t[n].indented \/ Heading(t, n) \in Declared(t)}

Parsing(t, p) ==
    /\ p \in ParserType
    /\ Describes(p.globals, t, 0)
    /\ OnePerDeclaration(t, Closed(p))
    /\ InBlock(t, p.current)
    /\ Warned(t, p.warnings)

LEMMA DeclaredStep ==
    ASSUME NEW t \in Seq(LineType), NEW line \in LineType
    PROVE  /\ Declared(Append(t, line)) =
                 IF line.kind = "declaration" THEN Declared(t) \cup {Len(t) + 1}
                 ELSE Declared(t)
           /\ Declared(t) \subseteq 1 .. Len(t) /\ Len(t) + 1 \notin Declared(t)
           /\ \A h \in Declared(t) : Append(t, line)[h] = t[h] /\ h \in Nat \ {0}
  BY DEF Declared, Lines

(* A line that does not configure what is declared leaves it as it was. *)
LEMMA FaithfulStays ==
    ASSUME NEW t \in Seq(LineType), NEW line \in LineType, NEW a \in AssociationType,
           Faithful(t, a),
           ~ (IsValid(line) /\ line.indented /\ Heading(t, Len(t) + 1) = a.declared)
    PROVE  Faithful(Append(t, line), a)
  <1>1. a.declared \in Nat \ {0} /\ Append(t, line)[a.declared] = t[a.declared]
    BY DeclaredStep DEF Faithful
  <1>2. SetBy(Append(t, line), a.declared) = SetBy(t, a.declared)
    BY <1>1, SetByStep
  <1>3. Describes(a.settings, Append(t, line), a.declared)
    BY <1>1, <1>2, DescribesSame DEF Faithful, AssociationType
  <1>4. a.declared \in Declared(Append(t, line))
    BY DeclaredStep DEF Faithful
  <1> QED BY <1>1, <1>3, <1>4 DEF Faithful

(* A line of a block: the association of the block goes on. *)
LEMMA FaithfulContinues ==
    ASSUME NEW t \in Seq(LineType), NEW line \in LineType, ~ ClosesBlock(line),
           NEW a \in AssociationType, NEW b \in AssociationType, Faithful(t, a),
           Continues(a, b, Len(t) + 1, line), Heading(t, Len(t) + 1) = a.declared
    PROVE  Faithful(Append(t, line), b)
  <1>1. /\ a.declared \in Nat \ {0} /\ Append(t, line)[a.declared] = t[a.declared]
        /\ a.declared \in Declared(Append(t, line))
    BY DeclaredStep DEF Faithful
  <1>2. Describes(b.settings, Append(t, line), a.declared)
    <2>1. CASE IsValid(line)
      <3>1. line.indented
        BY <2>1 DEF ClosesBlock, IsValid
      <3>2. SetBy(Append(t, line), a.declared) = SetBy(t, a.declared) \cup {Len(t) + 1}
        BY <1>1, <2>1, <3>1, SetByStep
      <3>3. b.settings = Append(a.settings, Setting(Len(t) + 1, line))
        BY <2>1 DEF Continues
      <3>4. a.settings \in Seq(SettingType) /\ Describes(a.settings, t, a.declared)
        BY DEF AssociationType, Faithful
      <3> QED BY <1>1, <2>1, <3>2, <3>3, <3>4, DescribesMore
    <2>2. CASE ~ IsValid(line)
      <3>1. SetBy(Append(t, line), a.declared) = SetBy(t, a.declared)
        BY <1>1, <2>2, SetByStep
      <3>2. b.settings = a.settings /\ a.settings \in Seq(SettingType)
        BY <2>2 DEF Continues, AssociationType
      <3> QED BY <1>1, <3>1, <3>2, DescribesSame DEF Faithful
    <2> QED BY <2>1, <2>2
  <1> QED BY <1>1, <1>2 DEF Faithful, Continues

LEMMA DeclarationsStay ==
    ASSUME NEW t \in Seq(LineType), NEW line \in LineType, line.kind # "declaration",
           NEW associations \in Seq(AssociationType), OnePerDeclaration(t, associations),
           ~ (IsValid(line) /\ line.indented /\ Heading(t, Len(t) + 1) \in Declared(t))
    PROVE  OnePerDeclaration(Append(t, line), associations)
  <1>1. \A i \in 1 .. Len(associations) : Faithful(Append(t, line), associations[i])
    <2> TAKE i \in 1 .. Len(associations)
    <2>1. associations[i] \in AssociationType /\ Faithful(t, associations[i])
      BY DEF OnePerDeclaration
    <2>2. associations[i].declared \in Declared(t)
      BY <2>1 DEF Faithful
    <2> QED BY <2>1, <2>2, FaithfulStays
  <1>2. Declared(Append(t, line)) = Declared(t)
    BY DeclaredStep
  <1> QED BY <1>1, <1>2 DEF OnePerDeclaration

LEMMA DeclarationAdded ==
    ASSUME NEW t \in Seq(LineType), NEW line \in LineType, line.kind = "declaration",
           NEW associations \in Seq(AssociationType), OnePerDeclaration(t, associations),
           NewAssociation(Len(t) + 1, line) \in AssociationType
    PROVE  OnePerDeclaration(Append(t, line),
                             Append(associations, NewAssociation(Len(t) + 1, line)))
  <1> DEFINE n      == Len(t) + 1
             longer == Append(t, line)
             new    == NewAssociation(n, line)
             more   == Append(associations, new)
             L      == Len(associations)
  <1>1. /\ L \in Nat /\ Len(more) = L + 1 /\ more[L + 1] = new
        /\ \A i \in 1 .. L : more[i] = associations[i]
    OBVIOUS
  <1>2. /\ \A i \in 1 .. L + 1 : i \in 1 .. L \/ i = L + 1
        /\ 1 .. L \subseteq 1 .. L + 1 /\ L + 1 \in 1 .. L + 1
    BY <1>1
  <1>3. new.declared = n /\ new.name = line.name /\ new.settings = <<>>
    BY DEF NewAssociation
  <1>4. /\ n \in Nat \ {0} /\ n > Len(t) /\ longer[n] = line
        /\ Declared(longer) = Declared(t) \cup {n} /\ n \notin Declared(t)
    BY DeclaredStep
  <1>5. ~ IsValid(line)
    BY DEF IsValid
  <1>6. Faithful(longer, new)
    <2>1. SetBy(longer, n) = {}
      BY <1>4, <1>5, SetByStep, SetByNew
    <2>2. Describes(<<>>, longer, n)
      BY <2>1 DEF Describes
    <2> QED BY <1>3, <1>4, <2>2 DEF Faithful
  <1>7. \A i \in 1 .. L : /\ Faithful(longer, associations[i])
                          /\ associations[i].declared \in Declared(t)
    <2> TAKE i \in 1 .. L
    <2>1. associations[i] \in AssociationType /\ Faithful(t, associations[i])
      BY DEF OnePerDeclaration
    <2>2. Faithful(longer, associations[i])
      BY <1>5, <2>1, FaithfulStays
    <2> QED BY <2>1, <2>2 DEF Faithful
  <1> HIDE DEF n, longer, new, more, L
  <1>8. \A i \in 1 .. L + 1 : Faithful(longer, more[i])
    BY <1>1, <1>2, <1>6, <1>7
  <1>9. \A h \in Declared(longer) : \E i \in 1 .. L + 1 : more[i].declared = h
    <2>1. \A h \in Declared(t) : \E i \in 1 .. L : associations[i].declared = h
      BY DEF OnePerDeclaration, L
    <2> QED BY <1>1, <1>2, <1>3, <1>4, <2>1
  <1>10. \A i, j \in 1 .. L + 1 : more[i].declared = more[j].declared => i = j
    <2>1. \A i, j \in 1 .. L : associations[i].declared = associations[j].declared => i = j
      BY DEF OnePerDeclaration, L
    <2> QED BY <1>1, <1>2, <1>3, <1>4, <1>7, <2>1
  <1>11. OnePerDeclaration(longer, more)
    BY <1>1, <1>8, <1>9, <1>10 DEF OnePerDeclaration
  <1> QED BY <1>11 DEF longer, more, new, n

LEMMA DeclarationContinues ==
    ASSUME NEW t \in Seq(LineType), NEW line \in LineType, ~ ClosesBlock(line),
           NEW before \in Seq(AssociationType),
           NEW a \in AssociationType, NEW b \in AssociationType,
           OnePerDeclaration(t, Append(before, a)),
           Continues(a, b, Len(t) + 1, line), Heading(t, Len(t) + 1) = a.declared
    PROVE  OnePerDeclaration(Append(t, line), Append(before, b))
  <1> DEFINE longer == Append(t, line)
             old    == Append(before, a)
             new    == Append(before, b)
             L      == Len(before)
  <1>1. /\ L \in Nat /\ Len(old) = L + 1 /\ Len(new) = L + 1
        /\ old[L + 1] = a /\ new[L + 1] = b
        /\ \A i \in 1 .. L : /\ old[i] = before[i] /\ new[i] = before[i]
                             /\ before[i] \in AssociationType
    OBVIOUS
  <1>2. /\ \A i \in 1 .. L + 1 : i \in 1 .. L \/ i = L + 1
        /\ 1 .. L \subseteq 1 .. L + 1 /\ L + 1 \in 1 .. L + 1 /\ L + 1 \notin 1 .. L
    BY <1>1
  <1>3. /\ \A i \in 1 .. L + 1 : Faithful(t, old[i])
        /\ \A h \in Declared(t) : \E i \in 1 .. L + 1 : old[i].declared = h
        /\ \A i, j \in 1 .. L + 1 : old[i].declared = old[j].declared => i = j
    BY <1>1 DEF OnePerDeclaration
  <1> HIDE DEF old, new, L
  <1>4. \A i \in 1 .. L + 1 : new[i].declared = old[i].declared
    BY <1>1, <1>2 DEF Continues
  <1>5. \A i \in 1 .. L + 1 : Faithful(longer, new[i])
    <2>1. Faithful(longer, b)
      BY <1>1, <1>2, <1>3, FaithfulContinues
    <2>2. ASSUME NEW i \in 1 .. L PROVE Faithful(longer, before[i])
      <3>1. before[i].declared # a.declared
        BY <1>1, <1>2, <1>3
      <3>2. Faithful(t, before[i])
        BY <1>1, <1>2, <1>3
      <3> QED BY <1>1, <3>1, <3>2, FaithfulStays
    <2> QED BY <1>1, <1>2, <2>1, <2>2
  <1>6. Declared(longer) = Declared(t)
    <2>1. line.kind # "declaration"
      BY DEF ClosesBlock, LineType
    <2> QED BY <2>1, DeclaredStep
  <1>7. OnePerDeclaration(longer, new)
    BY <1>1, <1>3, <1>4, <1>5, <1>6 DEF OnePerDeclaration
  <1> QED BY <1>7 DEF longer, new

LEMMA MembersOfAppend ==
    ASSUME NEW S, NEW s \in Seq(S), NEW x
    PROVE  Members(Append(s, x)) = Members(s) \cup {x}
  <1>1. /\ Len(s) \in Nat /\ Len(Append(s, x)) = Len(s) + 1 /\ Append(s, x)[Len(s) + 1] = x
        /\ \A i \in 1 .. Len(s) : Append(s, x)[i] = s[i]
    OBVIOUS
  <1>2. 1 .. Len(s) + 1 = (1 .. Len(s)) \cup {Len(s) + 1}
    BY <1>1
  <1> QED BY <1>1, <1>2 DEF Members

LEMMA WarnedStep ==
    ASSUME NEW t \in Seq(LineType), NEW line \in LineType, NEW warnings \in Seq(Nat),
           Warned(t, warnings), NEW more,
           more = IF /\ IsLifetime(line) /\ ~ IsValid(line)
                     /\ ~ line.indented \/ Heading(t, Len(t) + 1) \in Declared(t)
                  THEN Append(warnings, Len(t) + 1) ELSE warnings
    PROVE  Warned(Append(t, line), more)
  <1> DEFINE longer == Append(t, line)
             n == Len(t) + 1
             warns(s, k) == /\ IsLifetime(s[k]) /\ ~ IsValid(s[k])
                            /\ ~ s[k].indented \/ Heading(s, k) \in Declared(s)
  <1>1. /\ Lines(longer) = Lines(t) \cup {n} /\ longer[n] = line /\ n \notin Lines(t)
        /\ \A k \in Lines(t) : longer[k] = t[k] /\ k \in 1 .. n
        /\ n \in 1 .. n
    BY DEF Lines
  <1>2. \A k \in 1 .. n : Heading(longer, k) = Heading(t, k)
    BY HeadingStays
  <1>3. \A k \in 1 .. n : Heading(t, k) \in Declared(longer) <=> Heading(t, k) \in Declared(t)
    <2> TAKE k \in 1 .. n
    <2>1. Heading(t, k) # n
      <3>1. k \in Nat \ {0} /\ k <= n /\ n \in Nat
        OBVIOUS
      <3>2. Heading(t, k) \in Nat /\ Heading(t, k) < k
        BY <3>1, HeadingBefore
      <3> QED BY <3>1, <3>2
    <2> QED BY <2>1, DeclaredStep
  <1> HIDE DEF longer, n
  <1>4. \A k \in Lines(t) : warns(longer, k) <=> warns(t, k)
    BY <1>1, <1>2, <1>3
  <1>5. warns(longer, n) <=> /\ IsLifetime(line) /\ ~ IsValid(line)
                             /\ ~ line.indented \/ Heading(t, n) \in Declared(t)
    BY <1>1, <1>2, <1>3
  <1>6. Members(warnings) = {k \in Lines(t) : warns(t, k)}
    BY DEF Warned
  <1>7. Members(more) = IF warns(longer, n) THEN Members(warnings) \cup {n} ELSE Members(warnings)
    BY <1>5, MembersOfAppend DEF n
  <1> HIDE DEF warns
  <1>8. Members(more) = {k \in Lines(longer) : warns(longer, k)}
    BY <1>1, <1>4, <1>6, <1>7
  <1> QED BY <1>8 DEF Warned, warns, longer

(* One line, parsed: what holds of the text so far holds of the longer one. *)
LEMMA ParseLineStep ==
    ASSUME NEW t \in Seq(LineType), NEW line \in LineType, NEW p, Parsing(t, p)
    PROVE  Parsing(Append(t, line), ParseLine(p, Len(t) + 1, line))
  <1> DEFINE longer == Append(t, line)
             n == Len(t) + 1
             q == ParseLine(p, n, line)
  <1>1. /\ p \in ParserType /\ n \in Nat \ {0} /\ Len(longer) + 1 = Len(t) + 2
        /\ longer \in Seq(LineType)
        /\ p.globals \in Seq(SettingType) /\ p.warnings \in Seq(Nat)
        /\ p.current \in AssociationType \cup {Nothing}
        /\ p.associations \in Seq(AssociationType)
    BY DEF Parsing, ParserType
  <1>2. /\ p.current # Nothing <=> Heading(t, n) \in Declared(t)
        /\ p.current # Nothing => p.current.declared = Heading(t, n)
    BY DEF Parsing, InBlock
  <1>3. Heading(longer, Len(longer) + 1) = IF ClosesBlock(line) THEN n ELSE Heading(t, n)
    BY <1>1, HeadingStep
  <1>4. /\ Declared(longer) = IF line.kind = "declaration" THEN Declared(t) \cup {n}
                              ELSE Declared(t)
        /\ n \notin Declared(t)
    BY DeclaredStep
  <1>5. line.kind = "declaration" => ClosesBlock(line) /\ ~ IsValid(line)
    BY DEF LineType, ClosesBlock, IsValid
  <1>6. SetBy(longer, 0) = IF IsValid(line) /\ ~ line.indented THEN SetBy(t, 0) \cup {n}
                           ELSE SetBy(t, 0)
    BY SetByStep
  <1>7. IsValid(line) => (ClosesBlock(line) <=> ~ line.indented)
    BY DEF IsValid, ClosesBlock
  <1>8. IsLifetime(line) => (ClosesBlock(line) <=> ~ line.indented)
    BY DEF IsLifetime, ClosesBlock
  <1>9. Describes(p.globals, t, 0) /\ OnePerDeclaration(t, Closed(p)) /\ Warned(t, p.warnings)
    BY DEF Parsing
  <1> HIDE DEF longer, n, q
  <1>10. ASSUME ClosesBlock(line) PROVE Parsing(longer, q)
    <2>1. /\ q \in ParserType
          /\ q.globals = IF IsValid(line) THEN Append(p.globals, Setting(n, line)) ELSE p.globals
          /\ q.warnings = IF IsLifetime(line) /\ ~ IsValid(line)
                          THEN Append(p.warnings, n) ELSE p.warnings
          /\ line.kind = "declaration" =>
                /\ q.current = NewAssociation(n, line) /\ q.current # Nothing
                /\ NewAssociation(n, line) \in AssociationType
                /\ Closed(q) = Append(Closed(p), NewAssociation(n, line))
          /\ line.kind # "declaration" => q.current = Nothing /\ Closed(q) = Closed(p)
          /\ Closed(p) \in Seq(AssociationType)
      BY <1>1, <1>10, ParseMargin DEF q
    <2>2. Describes(q.globals, longer, 0)
      <3>1. CASE IsValid(line)
        BY <1>1, <1>6, <1>7, <1>9, <1>10, <2>1, <3>1, DescribesMore DEF longer, n
      <3>2. CASE ~ IsValid(line)
        BY <1>1, <1>6, <1>9, <2>1, <3>2, DescribesSame DEF longer, n
      <3> QED BY <3>1, <3>2
    <2>3. OnePerDeclaration(longer, Closed(q))
      <3>1. CASE line.kind = "declaration"
        BY <1>9, <2>1, <3>1, DeclarationAdded DEF longer, n
      <3>2. CASE line.kind # "declaration"
        <4>1. ~ (IsValid(line) /\ line.indented)
          BY <1>7, <1>10
        <4> QED BY <1>9, <2>1, <3>2, <4>1, DeclarationsStay DEF longer, n
      <3> QED BY <3>1, <3>2
    <2>4. InBlock(longer, q.current)
      <3>1. line.kind = "declaration" => q.current.declared = n
        BY <2>1 DEF NewAssociation
      <3> QED BY <1>3, <1>4, <1>10, <2>1, <3>1 DEF InBlock
    <2>5. Warned(longer, q.warnings)
      BY <1>1, <1>8, <1>9, <1>10, <2>1, WarnedStep DEF longer, n
    <2> QED BY <2>1, <2>2, <2>3, <2>4, <2>5 DEF Parsing
  <1>11. ASSUME ~ ClosesBlock(line) PROVE Parsing(longer, q)
    <2>1. /\ q \in ParserType /\ q.globals = p.globals
          /\ q.warnings = IF IsLifetime(line) /\ ~ IsValid(line) /\ p.current # Nothing
                          THEN Append(p.warnings, n) ELSE p.warnings
          /\ p.current = Nothing => q.current = Nothing /\ Closed(q) = Closed(p)
          /\ p.current # Nothing =>
                /\ q.current # Nothing
                /\ p.current \in AssociationType /\ q.current \in AssociationType
                /\ Continues(p.current, q.current, n, line)
                /\ Closed(p) = Append(p.associations, p.current)
                /\ Closed(q) = Append(p.associations, q.current)
      BY <1>1, <1>11, ParseWithin DEF q
    <2>2. line.kind # "declaration"
      BY <1>5, <1>11
    <2>3. Describes(q.globals, longer, 0)
      <3>1. SetBy(longer, 0) = SetBy(t, 0)
        BY <1>6, <1>7, <1>11
      <3> QED BY <1>1, <1>9, <2>1, <3>1, DescribesSame DEF longer
    <2>4. OnePerDeclaration(longer, Closed(q))
      <3>1. CASE p.current = Nothing
        <4>1. Closed(p) \in Seq(AssociationType)
          BY <1>1, <3>1 DEF Closed
        <4> QED BY <1>2, <1>9, <2>1, <2>2, <3>1, <4>1, DeclarationsStay DEF longer, n
      <3>2. CASE p.current # Nothing
        BY <1>1, <1>2, <1>9, <1>11, <2>1, <3>2, DeclarationContinues DEF longer, n
      <3> QED BY <3>1, <3>2
    <2>5. InBlock(longer, q.current)
      <3>1. p.current # Nothing => q.current.declared = p.current.declared
        BY <2>1 DEF Continues
      <3> QED BY <1>2, <1>3, <1>4, <1>11, <2>1, <2>2, <3>1 DEF InBlock
    <2>6. Warned(longer, q.warnings)
      <3>1. q.warnings = IF /\ IsLifetime(line) /\ ~ IsValid(line)
                            /\ ~ line.indented \/ Heading(t, n) \in Declared(t)
                         THEN Append(p.warnings, n) ELSE p.warnings
        BY <1>2, <1>8, <1>11, <2>1
      <3> QED BY <1>1, <1>9, <3>1, WarnedStep DEF longer, n
    <2> QED BY <2>1, <2>3, <2>4, <2>5, <2>6 DEF Parsing
  <1> QED BY <1>10, <1>11 DEF longer, n, q

-----------------------------------------------------------------------------
(* What a parser has attributed *)

LEMMA AttributedToAppend ==
    ASSUME NEW associations \in Seq(AssociationType), NEW a
    PROVE  AttributedTo(Append(associations, a)) =
              AttributedTo(associations) \cup {<<a.declared, s>> : s \in Members(a.settings)}
  <1>1. Members(Append(associations, a)) = Members(associations) \cup {a}
    BY MembersOfAppend
  <1> QED BY <1>1 DEF AttributedTo

(* What line n adds to it. *)
Gain(p, n, line) ==
    IF ~ IsValid(line) THEN {}
    ELSE IF ~ line.indented THEN {<<0, Setting(n, line)>>}
    ELSE IF p.current = Nothing THEN {}
    ELSE {<<p.current.declared, Setting(n, line)>>}

LEMMA AttributedStep ==
    ASSUME NEW p \in ParserType, NEW n \in Nat, NEW line \in LineType
    PROVE  Attributed(ParseLine(p, n, line)) = Attributed(p) \cup Gain(p, n, line)
  <1> DEFINE q   == ParseLine(p, n, line)
             new == Setting(n, line)
             globals(r) == {<<0, s>> : s \in Members(r.globals)}
  <1>1. /\ Attributed(p) = AttributedTo(Closed(p)) \cup globals(p)
        /\ Attributed(q) = AttributedTo(Closed(q)) \cup globals(q)
    BY DEF Attributed
  <1>2. p.globals \in Seq(SettingType) /\ p.associations \in Seq(AssociationType)
    BY DEF ParserType
  <1>3. CASE ClosesBlock(line)
    <2>1. /\ q.globals = IF IsValid(line) THEN Append(p.globals, new) ELSE p.globals
          /\ line.kind = "declaration" =>
                Closed(q) = Append(Closed(p), NewAssociation(n, line))
          /\ line.kind # "declaration" => Closed(q) = Closed(p)
          /\ Closed(p) \in Seq(AssociationType)
      BY <1>3, ParseMargin
    <2>2. AttributedTo(Closed(q)) = AttributedTo(Closed(p))
      <3>1. Members(NewAssociation(n, line).settings) = {}
        BY DEF NewAssociation, Members
      <3>2. CASE line.kind = "declaration"
        <4> DEFINE a == NewAssociation(n, line)
        <4>1. AttributedTo(Append(Closed(p), a)) =
                 AttributedTo(Closed(p)) \cup {<<a.declared, s>> : s \in Members(a.settings)}
          BY <2>1, AttributedToAppend
        <4>2. {<<a.declared, s>> : s \in Members(a.settings)} = {}
          BY <3>1
        <4> QED BY <2>1, <3>2, <4>1, <4>2
      <3> QED BY <2>1, <3>2
    <2>3. globals(q) = globals(p) \cup IF IsValid(line) THEN {<<0, new>>} ELSE {}
      <3>1. Members(Append(p.globals, new)) = Members(p.globals) \cup {new}
        BY <1>2, MembersOfAppend
      <3> HIDE DEF new, q
      <3> QED BY <2>1, <3>1
    <2>4. Gain(p, n, line) = IF IsValid(line) THEN {<<0, new>>} ELSE {}
      BY <1>3 DEF Gain, ClosesBlock
    <2> HIDE DEF q, new, globals
    <2>5. Attributed(q) = Attributed(p) \cup Gain(p, n, line)
      BY <1>1, <2>2, <2>3, <2>4
    <2> QED BY <2>5 DEF q
  <1>4. CASE ~ ClosesBlock(line)
    <2>1. /\ q.globals = p.globals
          /\ p.current = Nothing => Closed(q) = Closed(p)
          /\ p.current # Nothing =>
                /\ Continues(p.current, q.current, n, line)
                /\ p.current \in AssociationType
                /\ Closed(p) = Append(p.associations, p.current)
                /\ Closed(q) = Append(p.associations, q.current)
      BY <1>4, ParseWithin
    <2>2. IsValid(line) => line.indented
      BY <1>4 DEF IsValid, ClosesBlock
    <2>3. globals(q) = globals(p)
      BY <2>1
    <2>4. CASE p.current = Nothing
      <3>1. Gain(p, n, line) = {}
        BY <2>2, <2>4 DEF Gain
      <3> QED BY <1>1, <2>1, <2>3, <2>4, <3>1
    <2>5. CASE p.current # Nothing
      <3> DEFINE a == p.current
                 b == q.current
                 of(c) == {<<c.declared, s>> : s \in Members(c.settings)}
      <3>1. /\ AttributedTo(Closed(p)) = AttributedTo(p.associations) \cup of(a)
            /\ AttributedTo(Closed(q)) = AttributedTo(p.associations) \cup of(b)
        BY <1>2, <2>1, <2>5, AttributedToAppend
      <3>2. Members(b.settings) = IF IsValid(line) THEN Members(a.settings) \cup {new}
                                  ELSE Members(a.settings)
        <4>1. /\ b.settings = IF IsValid(line) THEN Append(a.settings, new) ELSE a.settings
              /\ a.settings \in Seq(SettingType)
          BY <2>1, <2>5 DEF Continues, AssociationType
        <4> QED BY <4>1, MembersOfAppend
      <3>3. b.declared = a.declared
        BY <2>1, <2>5 DEF Continues
      <3>4. Gain(p, n, line) = IF IsValid(line) THEN {<<a.declared, new>>} ELSE {}
        BY <2>2, <2>5 DEF Gain
      <3> HIDE DEF a, b, new
      <3>5. of(b) = of(a) \cup Gain(p, n, line)
        BY <3>2, <3>3, <3>4
      <3> HIDE DEF of, globals, q
      <3>6. Attributed(q) = Attributed(p) \cup Gain(p, n, line)
        BY <1>1, <2>3, <3>1, <3>5
      <3> QED BY <3>6 DEF q
    <2> QED BY <2>4, <2>5
  <1> QED BY <1>3, <1>4

(* The settings of an association, or the global ones, as pairs. *)
LEMMA DescribedPairs ==
    ASSUME NEW settings, NEW t, NEW h, Describes(settings, t, h)
    PROVE  Members(settings) = {Setting(n, t[n]) : n \in SetBy(t, h)}
  <1>1. ASSUME NEW i \in 1 .. Len(settings)
        PROVE  \E n \in SetBy(t, h) : settings[i] = Setting(n, t[n])
    BY DEF Describes
  <1>2. ASSUME NEW n \in SetBy(t, h)
        PROVE  \E i \in 1 .. Len(settings) : settings[i] = Setting(n, t[n])
    BY DEF Describes
  <1> QED BY <1>1, <1>2 DEF Members

(* What the parser has read it has read as the whole text scopes it. *)
LEMMA ParsingIsScoped ==
    ASSUME NEW t \in Seq(LineType), NEW p, Parsing(t, p)
    PROVE  ScopedExactly(t, p)
  <1> DEFINE closed == Closed(p)
             scoped == {y \in (Declared(t) \cup {0}) \X Lines(t) : Sets(t, y[2], y[1])}
  <1>1. /\ \A i \in 1 .. Len(closed) : Faithful(t, closed[i])
        /\ \A h \in Declared(t) : \E i \in 1 .. Len(closed) : closed[i].declared = h
    BY DEF Parsing, OnePerDeclaration
  <1>2. /\ \A a \in Members(closed) : Faithful(t, a)
        /\ \A h \in Declared(t) : \E a \in Members(closed) : a.declared = h
    BY <1>1 DEF Members
  <1> HIDE DEF closed
  <1>3. {a.declared : a \in Members(closed)} = Declared(t)
    BY <1>2 DEF Faithful
  <1>4. \A a \in Members(closed) :
           Members(a.settings) = {Setting(n, t[n]) : n \in SetBy(t, a.declared)}
    BY <1>2, DescribedPairs DEF Faithful
  <1>5. Members(p.globals) = {Setting(n, t[n]) : n \in SetBy(t, 0)}
    BY DescribedPairs DEF Parsing
  <1>6. ASSUME NEW x \in Attributed(p)
        PROVE  \E y \in scoped : x = <<y[1], Setting(y[2], t[y[2]])>>
    <2>1. CASE x \in AttributedTo(closed)
      <3>1. PICK a \in Members(closed) : \E s \in Members(a.settings) : x = <<a.declared, s>>
        BY <2>1 DEF AttributedTo
      <3>2. PICK n \in SetBy(t, a.declared) : x = <<a.declared, Setting(n, t[n])>>
        BY <1>4, <3>1
      <3>3. a.declared \in Declared(t)
        BY <1>3
      <3>4. <<a.declared, n>> \in scoped
        BY <3>2, <3>3 DEF SetBy
      <3> QED BY <3>2, <3>4
    <2>2. CASE x \in {<<0, s>> : s \in Members(p.globals)}
      <3>1. PICK n \in SetBy(t, 0) : x = <<0, Setting(n, t[n])>>
        BY <1>5, <2>2
      <3>2. <<0, n>> \in scoped
        BY <3>1 DEF SetBy
      <3> QED BY <3>1, <3>2
    <2> QED BY <2>1, <2>2 DEF Attributed, closed
  <1>7. ASSUME NEW y \in scoped
        PROVE  <<y[1], Setting(y[2], t[y[2]])>> \in Attributed(p)
    <2>1. y[1] \in Declared(t) \cup {0} /\ y[2] \in SetBy(t, y[1])
      BY DEF SetBy
    <2>2. CASE y[1] \in Declared(t)
      <3>1. PICK a \in Members(closed) : a.declared = y[1]
        BY <1>2, <2>2
      <3>2. Setting(y[2], t[y[2]]) \in Members(a.settings)
        BY <1>4, <2>1, <3>1
      <3>3. <<y[1], Setting(y[2], t[y[2]])>> \in AttributedTo(closed)
        BY <3>1, <3>2 DEF AttributedTo
      <3> QED BY <3>3 DEF Attributed, closed
    <2>3. CASE y[1] = 0
      <3>1. Setting(y[2], t[y[2]]) \in Members(p.globals)
        BY <1>5, <2>1, <2>3
      <3> QED BY <2>3, <3>1 DEF Attributed
    <2> QED BY <2>1, <2>2, <2>3
  <1>8. Attributed(p) = {<<y[1], Setting(y[2], t[y[2]])>> : y \in scoped}
    <2> HIDE DEF scoped
    <2> QED BY <1>6, <1>7
  <1>9. Warned(t, p.warnings)
    BY DEF Parsing
  <1> QED BY <1>3, <1>8, <1>9 DEF ScopedExactly, Warned, closed

-----------------------------------------------------------------------------
(* The parser on the redacted text *)

(* Parser q, on the redacted text, knows no more than p on the source. *)
Echoes(q, p) ==
    /\ q \in ParserType /\ p \in ParserType
    /\ Attributed(q) \subseteq Attributed(p)
    /\ q.current # Nothing =>
          p.current # Nothing /\ q.current.declared = p.current.declared

(* What the redactor makes of a line: the line, or one the parser has no   *)
(* use for, as far from the margin.                                        *)
ShownAs(line, shown) ==
    /\ shown \in LineType /\ shown.indented = line.indented
    /\ shown = line \/ shown.kind \in {"marker", "secret"}

(* What the redactor adds to an output of k lines. *)
LEMMA RedactedAs ==
    ASSUME NEW r \in RedactionState, NEW line \in SourceLine
    PROVE  LET k == Len(r.output)
               o == RedactLine(r, line).output IN
           /\ o \in Seq(LineType) /\ k \in Nat
           /\ Len(o) = k \/ Len(o) = k + 1 \/ Len(o) = k + 2
           /\ ~ Dangling(r.output) => Len(o) # k /\ ShownAs(line, o[k + 1])
           /\ Len(o) = k + 2 => Hidden(r, line) /\ line.ending = "odd"
  <1> DEFINE k     == Len(r.output)
             o     == RedactLine(r, line).output
             how   == IF Hidden(r, line) THEN "yes" ELSE "no"
             lines == IF Hidden(r, line) THEN RedactEntireLine(line) ELSE <<RedactInline(line)>>
  <1>1. Appended(line, how, lines)
    <2>1. CASE Hidden(r, line)
      BY <2>1, EntireLineEffect
    <2>2. CASE ~ Hidden(r, line)
      BY <2>2, VisibleLineEffect
    <2> QED BY <2>1, <2>2
  <1>2. o = Join(r.output, lines)
    BY DEF RedactLine, Output
  <1>3. r.output \in Seq(LineType) /\ k \in Nat
    BY DEF RedactionState
  <1> HIDE DEF lines, how, o
  <1>4. /\ lines \in Seq(LineType) /\ (Len(lines) = 1 \/ Len(lines) = 2)
        /\ lines[1].indented = line.indented
        /\ lines[1] = line \/ lines[1].kind \in {"marker", "secret"}
        /\ Len(lines) = 2 => how = "yes" /\ line.ending = "odd"
    BY <1>1 DEF Appended
  <1>5. ShownAs(line, lines[1])
    <2>1. lines[1] \in LineType
      BY <1>4
    <2> QED BY <1>4, <2>1 DEF ShownAs
  <1>6. Joined(r.output, lines, Join(r.output, lines))
    BY <1>3, <1>4, JoinEffect
  <1>7. Joined(r.output, lines, o)
    BY <1>2, <1>6
  <1> DEFINE more == Len(lines)
             now  == Len(o)
  <1>8. /\ o \in Seq(LineType)
        /\ now = IF Dangling(r.output) THEN k + more - 1 ELSE k + more
        /\ ~ Dangling(r.output) => \A i \in 1 .. more : o[k + i] = lines[i]
    BY <1>7 DEF Joined
  <1>9. (more = 1 \/ more = 2) /\ k \in Nat
        /\ (more = 2 => Hidden(r, line) /\ line.ending = "odd")
    BY <1>3, <1>4 DEF how
  <1> HIDE DEF more, now, k
  <1>10. CASE Dangling(r.output)
    <2>1. now = k + more - 1
      BY <1>8, <1>10
    <2>2. (now = k \/ now = k + 1) /\ now # k + 2
      BY <1>9, <2>1
    <2> QED BY <1>8, <1>9, <1>10, <2>2 DEF now, k, o
  <1>11. CASE ~ Dangling(r.output)
    <2>1. now = k + more
      BY <1>8, <1>11
    <2>2. (now = k + 1 \/ now = k + 2) /\ now # k /\ (now = k + 2 => more = 2)
      BY <1>9, <2>1
    <2>3. 1 \in 1 .. more
      BY <1>9
    <2>4. o[k + 1] = lines[1]
      BY <1>8, <1>11, <2>3
    <2> QED BY <1>5, <1>8, <1>9, <2>2, <2>4 DEF now, k, o
  <1> QED BY <1>10, <1>11

(* Only a line that slips adds two. *)
LEMMA SecondLine ==
    ASSUME NEW t \in Seq(SourceLine), NEW line \in SourceLine, NEW r, Redacting(t, r),
           Len(RedactLine(r, line).output) = Len(r.output) + 2
    PROVE  Slips(Append(t, line), Len(t) + 1)
  <1>1. r \in RedactionState /\ (r.open <=> KeyOpen(t))
    BY DEF Redacting
  <1>2. Hidden(r, line) /\ line.ending = "odd"
    BY <1>1, RedactedAs
  <1>3. t \in Seq(LineType) /\ line \in LineType
    BY SourceTexts
  <1>4. InKeyBlock(Append(t, line), Len(t) + 1)
    BY <1>1, <1>2, <1>3, KeyBlockAtEnd DEF Hidden
  <1>5. Append(t, line)[Len(t) + 1] = line
    BY <1>3
  <1> QED BY <1>2, <1>4, <1>5 DEF Slips

(* The block a parser is in after a line. *)
LEMMA CurrentStep ==
    ASSUME NEW p \in ParserType, NEW n \in Nat, NEW line \in LineType
    PROVE  LET q == ParseLine(p, n, line) IN
           /\ q \in ParserType
           /\ ClosesBlock(line) =>
                 /\ q.current # Nothing <=> line.kind = "declaration"
                 /\ q.current # Nothing => q.current.declared = n
           /\ ~ ClosesBlock(line) =>
                 /\ q.current # Nothing <=> p.current # Nothing
                 /\ q.current # Nothing => q.current.declared = p.current.declared
  <1> DEFINE q == ParseLine(p, n, line)
  <1>1. CASE ClosesBlock(line)
    <2>1. /\ q \in ParserType
          /\ line.kind = "declaration" =>
                q.current = NewAssociation(n, line) /\ q.current # Nothing
          /\ line.kind # "declaration" => q.current = Nothing
      BY <1>1, ParseMargin
    <2>2. NewAssociation(n, line).declared = n
      BY DEF NewAssociation
    <2> HIDE DEF q
    <2>3. /\ q.current # Nothing <=> line.kind = "declaration"
          /\ q.current # Nothing => q.current.declared = n
      BY <2>1, <2>2
    <2> QED BY <1>1, <2>1, <2>3 DEF q
  <1>2. CASE ~ ClosesBlock(line)
    <2>1. /\ q \in ParserType
          /\ p.current = Nothing => q.current = Nothing
          /\ p.current # Nothing =>
                q.current # Nothing /\ Continues(p.current, q.current, n, line)
      BY <1>2, ParseWithin
    <2> QED BY <1>2, <2>1 DEF Continues
  <1> QED BY <1>1, <1>2

LEMMA EchoStep ==
    ASSUME NEW p, NEW q, Echoes(q, p), NEW n \in Nat, NEW line \in LineType,
           NEW shown, ShownAs(line, shown)
    PROVE  Echoes(ParseLine(q, n, shown), ParseLine(p, n, line))
  <1> DEFINE p1 == ParseLine(p, n, line)
             q1 == ParseLine(q, n, shown)
  <1>1. p \in ParserType /\ q \in ParserType /\ shown \in LineType
    BY DEF Echoes, ShownAs
  <1>2. /\ p1 \in ParserType
        /\ ClosesBlock(line) => /\ p1.current # Nothing <=> line.kind = "declaration"
                                /\ p1.current # Nothing => p1.current.declared = n
        /\ ~ ClosesBlock(line) =>
              /\ p1.current # Nothing <=> p.current # Nothing
              /\ p1.current # Nothing => p1.current.declared = p.current.declared
    BY <1>1, CurrentStep
  <1>3. /\ q1 \in ParserType
        /\ ClosesBlock(shown) => /\ q1.current # Nothing <=> shown.kind = "declaration"
                                 /\ q1.current # Nothing => q1.current.declared = n
        /\ ~ ClosesBlock(shown) =>
              /\ q1.current # Nothing <=> q.current # Nothing
              /\ q1.current # Nothing => q1.current.declared = q.current.declared
    BY <1>1, CurrentStep
  <1>4. /\ Attributed(p1) = Attributed(p) \cup Gain(p, n, line)
        /\ Attributed(q1) = Attributed(q) \cup Gain(q, n, shown)
    BY <1>1, AttributedStep
  <1> HIDE DEF p1, q1
  <1>5. /\ Attributed(q) \subseteq Attributed(p)
        /\ q.current # Nothing =>
              p.current # Nothing /\ q.current.declared = p.current.declared
    BY DEF Echoes
  <1>6. Gain(q, n, shown) \subseteq Gain(p, n, line)
    <2>1. CASE shown = line
      BY <1>5, <2>1 DEF Gain
    <2>2. CASE shown.kind \in {"marker", "secret"}
      BY <2>2 DEF Gain, IsValid
    <2> QED BY <2>1, <2>2 DEF ShownAs
  <1>7. q1.current # Nothing =>
           p1.current # Nothing /\ q1.current.declared = p1.current.declared
    <2>1. CASE shown = line
      BY <1>2, <1>3, <1>5, <2>1
    <2>2. CASE shown.kind \in {"marker", "secret"}
      <3>1. ~ ClosesBlock(shown) => ~ ClosesBlock(line)
        BY <2>2 DEF ClosesBlock, ShownAs
      <3> QED BY <1>2, <1>3, <1>5, <2>2, <3>1
    <2> QED BY <2>1, <2>2 DEF ShownAs
  <1>8. Echoes(q1, p1)
    BY <1>2, <1>3, <1>4, <1>5, <1>6, <1>7 DEF Echoes
  <1> QED BY <1>8 DEF p1, q1

(* Parser q, on the redacted form of text t, knows no more of the intact   *)
(* lines than p on the text.                                               *)
EchoesIn(t, q, p) ==
    /\ q \in ParserType /\ p \in ParserType
    /\ \A x \in Attributed(q) : Intact(t, x[2].line) => x \in Attributed(p)
    /\ (\A m \in Lines(t) : ~ Slips(t, m)) => Echoes(q, p)

(* A line of the output that is not intact adds nothing that counts. *)
LEMMA BehindSlip ==
    ASSUME NEW t, NEW q \in ParserType, NEW P, NEW k \in Nat, NEW line \in LineType,
           ~ Intact(t, k),
           \A x \in Attributed(q) : Intact(t, x[2].line) => x \in P
    PROVE  /\ ParseLine(q, k, line) \in ParserType
           /\ \A x \in Attributed(ParseLine(q, k, line)) : Intact(t, x[2].line) => x \in P
  <1>1. ParseLine(q, k, line) \in ParserType
    BY CurrentStep
  <1>2. Attributed(ParseLine(q, k, line)) = Attributed(q) \cup Gain(q, k, line)
    BY AttributedStep
  <1>3. Setting(k, line).line = k
    BY DEF Setting
  <1>4. \A x \in Gain(q, k, line) : x[2].line = k
    BY <1>3 DEF Gain
  <1> QED BY <1>1, <1>2, <1>4

(* The same for the lines that follow in the output. *)
LEMMA MoreBehindSlip ==
    ASSUME NEW t, NEW q \in ParserType, NEW P, NEW k \in Nat, NEW o \in Seq(LineType),
           ~ Intact(t, k + 1), ~ Intact(t, k + 2),
           Len(o) = k \/ Len(o) = k + 1 \/ Len(o) = k + 2,
           \A x \in Attributed(q) : Intact(t, x[2].line) => x \in P
    PROVE  /\ ParseMore(q, k, o) \in ParserType
           /\ \A x \in Attributed(ParseMore(q, k, o)) : Intact(t, x[2].line) => x \in P
  <1>1. CASE Len(o) = k
    <2>1. ParseMore(q, k, o) = q
      BY <1>1 DEF ParseMore
    <2> QED BY <2>1
  <1> DEFINE q1 == ParseLine(q, k + 1, o[k + 1])
  <1>2. ASSUME o[k + 1] \in LineType
        PROVE  /\ q1 \in ParserType
               /\ \A x \in Attributed(q1) : Intact(t, x[2].line) => x \in P
    <2>1. k + 1 \in Nat
      OBVIOUS
    <2> QED BY <1>2, <2>1, BehindSlip
  <1>3. CASE Len(o) = k + 1
    <2>1. ParseMore(q, k, o) = q1
      BY <1>3 DEF ParseMore
    <2>2. o[k + 1] \in LineType
      BY <1>3
    <2> QED BY <1>2, <2>1, <2>2
  <1>4. CASE Len(o) = k + 2
    <2>1. ParseMore(q, k, o) = ParseLine(q1, k + 2, o[k + 2])
      BY <1>4 DEF ParseMore
    <2>2. o[k + 1] \in LineType /\ o[k + 2] \in LineType /\ k + 2 \in Nat
      BY <1>4
    <2>3. /\ q1 \in ParserType
          /\ \A x \in Attributed(q1) : Intact(t, x[2].line) => x \in P
      BY <1>2, <2>2
    <2> DEFINE q2 == ParseLine(q1, k + 2, o[k + 2])
    <2> HIDE DEF q1
    <2>4. /\ q2 \in ParserType
          /\ \A x \in Attributed(q2) : Intact(t, x[2].line) => x \in P
      BY <2>2, <2>3, BehindSlip
    <2>5. ParseMore(q, k, o) = q2
      BY <2>1
    <2> HIDE DEF q2
    <2> QED BY <2>4, <2>5
  <1> QED BY <1>1, <1>3, <1>4

LEMMA EchoMore ==
    ASSUME NEW t \in Seq(SourceLine), NEW line \in SourceLine, NEW r, Redacting(t, r),
           NEW p, NEW q, EchoesIn(t, q, p)
    PROVE  EchoesIn(Append(t, line), ParseMore(q, Len(r.output), RedactLine(r, line).output),
                    ParseLine(p, Len(t) + 1, line))
  <1> DEFINE longer == Append(t, line)
             n  == Len(t) + 1
             k  == Len(r.output)
             o  == RedactLine(r, line).output
             p1 == ParseLine(p, n, line)
             q1 == ParseMore(q, k, o)
             P  == Attributed(p1)
  <1>1. t \in Seq(LineType) /\ line \in LineType
    BY SourceTexts
  <1>2. /\ Lines(longer) = Lines(t) \cup {n} /\ n \in Nat /\ Len(t) \in Nat
        /\ \A m \in Lines(t) : m \in Nat
    BY <1>1 DEF Lines
  <1>3. /\ \A m \in Lines(t) : Slips(longer, m) <=> Slips(t, m)
        /\ \A j : Intact(longer, j) => Intact(t, j)
    BY <1>1, SlipsStay
  <1>4. /\ o \in Seq(LineType) /\ k \in Nat
        /\ Len(o) = k \/ Len(o) = k + 1 \/ Len(o) = k + 2
        /\ ~ Dangling(r.output) => Len(o) # k /\ ShownAs(line, o[k + 1])
    <2>1. r \in RedactionState
      BY DEF Redacting
    <2> QED BY <2>1, RedactedAs
  <1>5. p \in ParserType /\ q \in ParserType
    BY DEF EchoesIn
  <1>6. p1 \in ParserType /\ Attributed(p) \subseteq P
    <2>1. p1 \in ParserType
      BY <1>1, <1>2, <1>5, CurrentStep
    <2>2. P = Attributed(p) \cup Gain(p, n, line)
      BY <1>1, <1>2, <1>5, AttributedStep
    <2> HIDE DEF P
    <2> QED BY <2>1, <2>2
  <1>7. \A x \in Attributed(q) : Intact(longer, x[2].line) => x \in P
    BY <1>3, <1>6 DEF EchoesIn
  <1> HIDE DEF longer, n, k, o, p1, P
  <1>8. CASE \E m \in Lines(t) : Slips(t, m)
    <2>1. PICK f \in Lines(t) : Slips(t, f) /\ f <= k
      BY <1>8 DEF Redacting, Reaches, k
    <2>2. f \in Lines(longer) /\ Slips(longer, f) /\ f < k + 1 /\ f < k + 2
      BY <1>2, <1>3, <1>4, <2>1
    <2>3. ~ Intact(longer, k + 1) /\ ~ Intact(longer, k + 2)
      BY <2>2 DEF Intact
    <2>4. /\ q1 \in ParserType
          /\ \A x \in Attributed(q1) : Intact(longer, x[2].line) => x \in P
      BY <1>4, <1>5, <1>7, <2>3, MoreBehindSlip
    <2>5. EchoesIn(longer, q1, p1)
      BY <1>6, <2>2, <2>4 DEF EchoesIn, P
    <2> QED BY <2>5 DEF longer, n, k, o, p1
  <1>9. CASE \A m \in Lines(t) : ~ Slips(t, m)
    <2>1. k = Len(t) /\ ~ Dangling(r.output) /\ k + 1 = n
      BY <1>9 DEF Redacting, Reaches, k, n
    <2>2. Echoes(q, p)
      BY <1>9 DEF EchoesIn
    <2> DEFINE q2 == ParseLine(q, n, o[n])
    <2>3. (Len(o) = k + 1 \/ Len(o) = k + 2) /\ ShownAs(line, o[n])
      BY <1>4, <2>1
    <2>4. Echoes(q2, p1)
      BY <1>1, <1>2, <2>2, <2>3, EchoStep DEF p1
    <2> HIDE DEF q2
    <2>5. q2 \in ParserType /\ Attributed(q2) \subseteq P
      BY <2>4 DEF Echoes, P
    <2>6. CASE Len(o) = k + 1
      <3>1. q1 = q2
        BY <1>4, <2>1, <2>6 DEF ParseMore, q2
      <3>2. EchoesIn(longer, q2, p1)
        BY <1>6, <2>4, <2>5 DEF EchoesIn, P
      <3> QED BY <3>1, <3>2 DEF longer, n, k, o, p1
    <2>7. CASE Len(o) = k + 2
      <3>1. q1 = ParseLine(q2, k + 2, o[k + 2])
        BY <1>4, <2>1, <2>7 DEF ParseMore, q2
      <3>2. Slips(longer, n)
        BY <2>7, SecondLine DEF longer, n, k, o
      <3>3. n \in Lines(longer) /\ ~ Intact(longer, k + 2)
        <4>1. n < k + 2
          BY <1>2, <2>1
        <4> QED BY <1>2, <3>2, <4>1 DEF Intact
      <3>4. o[k + 2] \in LineType /\ k + 2 \in Nat
        BY <1>4, <2>7
      <3> DEFINE q3 == ParseLine(q2, k + 2, o[k + 2])
      <3>5. /\ q3 \in ParserType
            /\ \A x \in Attributed(q3) : Intact(longer, x[2].line) => x \in P
        BY <2>5, <3>3, <3>4, BehindSlip
      <3> HIDE DEF q3
      <3>6. EchoesIn(longer, q3, p1)
        BY <1>6, <3>2, <3>3, <3>5 DEF EchoesIn, P
      <3>7. q1 = q3
        BY <3>1 DEF q3
      <3> HIDE DEF q1
      <3> QED BY <3>6, <3>7 DEF longer, n, k, o, p1, q1
    <2> QED BY <2>3, <2>6, <2>7
  <1> QED BY <1>8, <1>9

-----------------------------------------------------------------------------
(* The lifetime that counts *)

(* The last of the settings is that of the last line. *)
LEMMA LastSetting ==
    ASSUME NEW t \in Seq(LineType), NEW h, NEW settings \in Seq(SettingType),
           Describes(settings, t, h)
    PROVE  LastOf(settings, "seconds") =
              IF SetsSeconds(t, h) = {} THEN Nothing
              ELSE Setting(Last(SetsSeconds(t, h)), t[Last(SetsSeconds(t, h))])
  <1> DEFINE U == Units(settings, "seconds")
             S == SetsSeconds(t, h)
             line(i) == settings[i].line
  <1>1. S = {n \in SetBy(t, h) : t[n].unit = "seconds"}
    BY DEF SetsSeconds, SetBy
  <1>2. \A i \in 1 .. Len(settings) :
           /\ line(i) \in SetBy(t, h) /\ settings[i] = Setting(line(i), t[line(i)])
    BY DEF Describes
  <1>3. \A n \in SetBy(t, h) : \E i \in 1 .. Len(settings) : line(i) = n
    BY DEF Describes
  <1>4. \A i, j \in 1 .. Len(settings) : i < j => line(i) < line(j)
    BY DEF Describes
  <1>5. \A i \in 1 .. Len(settings) : settings[i].unit = t[line(i)].unit
    <2> TAKE i \in 1 .. Len(settings)
    <2>1. settings[i] = Setting(line(i), t[line(i)])
      BY <1>2
    <2>2. \A n, x : Setting(n, x).unit = x.unit
      BY DEF Setting
    <2> HIDE DEF line
    <2> QED BY <2>1, <2>2
  <1>6. U \in SUBSET (1 .. Len(settings)) /\ Len(settings) \in Nat
    BY DEF Units
  <1>7. S \in SUBSET (1 .. Len(t)) /\ Len(t) \in Nat
    BY DEF SetsSeconds, Lines
  <1>8. \A i \in U : line(i) \in S
    BY <1>1, <1>2, <1>5 DEF Units
  <1>9. \A n \in S : \E i \in U : line(i) = n
    BY <1>1, <1>3, <1>5 DEF Units
  <1>10. LastOf(settings, "seconds") = IF U = {} THEN Nothing ELSE settings[Last(U)]
    BY DEF LastOf, Last
  <1> HIDE DEF U, S, line
  <1>11. CASE S = {}
    BY <1>8, <1>10, <1>11 DEF S
  <1>12. CASE S # {}
    <2>1. U # {}
      BY <1>9, <1>12
    <2>2. Last(U) \in U /\ \A i \in U : i <= Last(U)
      BY <1>6, <2>1, LastIn
    <2>3. Last(S) \in S /\ \A n \in S : n <= Last(S)
      BY <1>7, <1>12, LastIn
    <2> DEFINE k == Last(U)
               l == Last(S)
    <2> HIDE DEF k, l
    <2>4. k \in U /\ (\A i \in U : i <= k) /\ l \in S /\ (\A n \in S : n <= l)
      BY <2>2, <2>3 DEF k, l
    <2>5. PICK i \in U : line(i) = l
      BY <1>9, <2>4
    <2>6. i = k \/ i < k
      BY <1>6, <2>4
    <2>7. line(k) = l
      <3>1. line(k) \in Nat /\ l \in Nat /\ line(k) <= l
        <4>1. line(k) \in S
          BY <1>8, <2>4
        <4>2. \A n \in S : n \in Nat
          BY <1>7
        <4> QED BY <2>4, <4>1, <4>2
      <3>2. i < k => l < line(k)
        BY <1>4, <1>6, <2>4, <2>5
      <3> QED BY <2>5, <2>6, <3>1, <3>2
    <2>8. settings[k] = Setting(l, t[l])
      BY <1>2, <1>6, <2>4, <2>7
    <2> QED BY <1>10, <1>12, <2>1, <2>8 DEF k, l, S
  <1> QED BY <1>11, <1>12

(* The settings that a text has are none of them Nothing. *)
LEMMA EvidenceThere ==
    ASSUME NEW t \in Seq(LineType), NEW h
    PROVE  /\ Deciding(t, h) \in Nat
           /\ Evidence(t, Deciding(t, h)) = Nothing <=> Deciding(t, h) = 0
           /\ Deciding(t, h) # 0 =>
                 Evidence(t, Deciding(t, h)).value = t[Deciding(t, h)].value
  <1>1. ASSUME NEW g, SetsSeconds(t, g) # {}
        PROVE  LET n == Last(SetsSeconds(t, g)) IN
               n \in Lines(t) /\ t[n].kind = "lifetime" /\ t[n].value > 0
    <2>1. SetsSeconds(t, g) \in SUBSET (1 .. Len(t)) /\ Len(t) \in Nat
      BY DEF SetsSeconds, Lines
    <2>2. Last(SetsSeconds(t, g)) \in SetsSeconds(t, g)
      BY <1>1, <2>1, LastIn
    <2> QED BY <2>2 DEF SetsSeconds, Sets
  <1> DEFINE n == Deciding(t, h)
  <1>2. n = 0 \/ (n \in Lines(t) /\ t[n].kind = "lifetime" /\ t[n].value > 0)
    BY <1>1 DEF Deciding
  <1> HIDE DEF n
  <1>3. CASE n = 0
    BY <1>3 DEF Evidence, n
  <1>4. CASE n # 0
    <2>1. n \in Nat /\ t[n] \in LineType /\ IsValid(t[n])
      BY <1>2, <1>4 DEF Lines, IsValid
    <2>2. Setting(n, t[n]) \in SettingType
      BY <2>1, SettingOfLine
    <2>3. Setting(n, t[n]) # Nothing
      BY <2>2, NothingElse
    <2>4. Setting(n, t[n]).value = t[n].value
      BY DEF Setting
    <2>5. Evidence(t, n) = Setting(n, t[n])
      BY <1>4 DEF Evidence
    <2> QED BY <1>4, <2>1, <2>3, <2>4, <2>5 DEF n
  <1> QED BY <1>3, <1>4

LEMMA EffectiveIsDeciding ==
    ASSUME NEW t \in Seq(LineType), NEW p, Parsing(t, p),
           NEW a \in AssociationType, Faithful(t, a)
    PROVE  EffectiveLifetime(p, a) = Evidence(t, Deciding(t, a.declared))
  <1> DEFINE h == a.declared
             own == SetsSeconds(t, h)
             all == SetsSeconds(t, 0)
  <1>1. LastOf(a.settings, "seconds") =
           IF own = {} THEN Nothing ELSE Setting(Last(own), t[Last(own)])
    BY LastSetting DEF Faithful, AssociationType
  <1>2. LastOf(p.globals, "seconds") =
           IF all = {} THEN Nothing ELSE Setting(Last(all), t[Last(all)])
    BY LastSetting DEF Parsing, ParserType
  <1>3. Evidence(t, Deciding(t, h)) = Nothing <=> Deciding(t, h) = 0
    BY EvidenceThere
  <1>4. Deciding(t, h) = IF own # {} THEN Last(own) ELSE IF all # {} THEN Last(all) ELSE 0
    BY DEF Deciding
  <1>5. /\ own # {} => Last(own) \in Nat \ {0}
        /\ all # {} => Last(all) \in Nat \ {0}
    <2>1. ASSUME NEW g, SetsSeconds(t, g) # {}
          PROVE  Last(SetsSeconds(t, g)) \in Nat \ {0}
      <3>1. SetsSeconds(t, g) \in SUBSET (1 .. Len(t)) /\ Len(t) \in Nat
        BY DEF SetsSeconds, Lines
      <3>2. Last(SetsSeconds(t, g)) \in SetsSeconds(t, g)
        BY <2>1, <3>1, LastIn
      <3> QED BY <3>1, <3>2
    <2> QED BY <2>1
  <1> HIDE DEF own, all, h
  <1>6. EffectiveLifetime(p, a) = IF own # {} THEN Setting(Last(own), t[Last(own)])
                                  ELSE LastOf(p.globals, "seconds")
    <2>1. own # {} => Setting(Last(own), t[Last(own)]) # Nothing
      BY <1>3, <1>4, <1>5 DEF Evidence
    <2> QED BY <1>1, <2>1 DEF EffectiveLifetime
  <1>7. EffectiveLifetime(p, a) = Evidence(t, Deciding(t, h))
    BY <1>2, <1>4, <1>5, <1>6 DEF Evidence
  <1> QED BY <1>7 DEF h

-----------------------------------------------------------------------------
(* The association of the peer *)

(* The one paired association is that of the one declaration of the name.  *)
LEMMA PairedIsNamed ==
    ASSUME NEW t \in Seq(LineType), NEW p, Parsing(t, p), NEW map, NEW a
    PROVE  LET paired == PeerAssociation(a, p, map)
               theirs == DecidingFor(t, map[a.name]) IN
           \/ paired = Nothing /\ theirs = 0
           \/ /\ paired \in AssociationType /\ paired # Nothing /\ Faithful(t, paired)
              /\ theirs = Deciding(t, paired.declared)
  <1> DEFINE C       == Closed(p)
             name    == map[a.name]
             matches == Matches(a, p, map)
             named   == {g \in Declared(t) : t[g].name = name}
             at(i)   == C[i].declared
  <1>1. C \in Seq(AssociationType) /\ Len(C) \in Nat
    BY DEF Parsing, ParserType, Closed
  <1>2. /\ \A i \in 1 .. Len(C) : Faithful(t, C[i])
        /\ \A g \in Declared(t) : \E i \in 1 .. Len(C) : at(i) = g
        /\ \A i, j \in 1 .. Len(C) : at(i) = at(j) => i = j
    BY DEF Parsing, OnePerDeclaration
  <1>3. \A i \in 1 .. Len(C) : at(i) \in Declared(t) /\ C[i].name = t[at(i)].name
    BY <1>2 DEF Faithful
  <1>4. \A g \in Declared(t) : t[g].name # Nothing
    <2>1. \A g \in Declared(t) : t[g] \in LineType /\ t[g].kind = "declaration"
      BY DEF Declared, Lines
    <2> QED BY <2>1, NothingElse DEF LineType
  <1>5. matches = {i \in 1 .. Len(C) : name # Nothing /\ C[i].name = name}
    BY DEF Matches
  <1>6. IsFiniteSet(matches) /\ IsFiniteSet(named)
    <2>1. IsFiniteSet(1 .. Len(C))
      BY <1>1, FS_Interval
    <2>2. IsFiniteSet(1 .. Len(t))
      BY FS_Interval
    <2>3. matches \subseteq 1 .. Len(C) /\ named \subseteq 1 .. Len(t)
      BY <1>5 DEF Declared, Lines
    <2> HIDE DEF matches, named, C
    <2> QED BY <2>1, <2>2, <2>3, FS_Subset
  <1>7. PeerAssociation(a, p, map) =
           IF Cardinality(matches) = 1 THEN C[CHOOSE i \in matches : TRUE] ELSE Nothing
    BY DEF PeerAssociation
  <1>8. DecidingFor(t, name) =
           IF Cardinality(named) # 1 THEN 0 ELSE Deciding(t, CHOOSE g \in named : TRUE)
    BY DEF DecidingFor
  <1> HIDE DEF C, name, matches, at
  <1>9. /\ \A i \in matches : at(i) \in named
        /\ \A g \in named : \E i \in matches : at(i) = g
        /\ \A i, j \in matches : at(i) = at(j) => i = j
    BY <1>2, <1>3, <1>4, <1>5
  <1> HIDE DEF named
  <1>10. CASE Cardinality(matches) = 1
    <2>1. PICK i : matches = {i}
      BY <1>6, <1>10, FS_Singleton
    <2>2. named = {at(i)}
      BY <1>9, <2>1
    <2>3. Cardinality(named) = 1
      BY <2>2, FS_Singleton
    <2>4. (CHOOSE j \in matches : TRUE) = i /\ (CHOOSE g \in named : TRUE) = at(i)
      BY <2>1, <2>2
    <2>5. i \in 1 .. Len(C)
      BY <1>5, <2>1
    <2>6. C[i] \in AssociationType /\ Faithful(t, C[i])
      BY <1>1, <1>2, <2>5
    <2>7. C[i] # Nothing
      BY <2>6, NothingElse
    <2>8. PeerAssociation(a, p, map) = C[i] /\ DecidingFor(t, name) = Deciding(t, C[i].declared)
      BY <1>7, <1>8, <1>10, <2>3, <2>4 DEF at
    <2> QED BY <2>6, <2>7, <2>8 DEF name
  <1>11. CASE Cardinality(matches) # 1
    <2>1. Cardinality(named) # 1
      <3> SUFFICES ASSUME Cardinality(named) = 1 PROVE FALSE
        OBVIOUS
      <3>1. PICK g : named = {g}
        BY <1>6, FS_Singleton
      <3>2. PICK i \in matches : at(i) = g
        BY <1>9, <3>1
      <3>3. matches = {i}
        BY <1>9, <3>1, <3>2
      <3> QED BY <1>11, <3>3, FS_Singleton
    <2> QED BY <1>7, <1>8, <1>11, <2>1 DEF name
  <1> QED BY <1>10, <1>11

-----------------------------------------------------------------------------
(* Two configurations are read *)

(* What holds of each document after every line: the redactor and the      *)
(* parser have its text behind them, and the parser of the redacted text   *)
(* knows no more than that of the source.                                  *)
AnalysisInv ==
    /\ text \in [Document -> Seq(SourceLine)]
    /\ redaction \in [Document -> RedactionState]
    /\ parsed \in [Document -> ParserType] /\ reparsed \in [Document -> ParserType]
    /\ \A d \in Document : /\ Redacting(text[d], redaction[d])
                           /\ Parsing(text[d], parsed[d])
                           /\ EchoesIn(text[d], reparsed[d], parsed[d])

LEMMA NothingIsRead ==
    /\ Redacting(<<>>, NothingRead) /\ Parsing(<<>>, NothingParsed)
    /\ EchoesIn(<<>>, NothingParsed, NothingParsed)
    /\ NothingRead \in RedactionState /\ NothingParsed \in ParserType
  <1>1. <<>> \in Seq(LineType) /\ Lines(<<>>) = {}
    BY DEF Lines
  <1>2. Redacting(<<>>, NothingRead) /\ NothingRead \in RedactionState
    <2>1. NothingRead \in RedactionState
      BY DEF NothingRead, RedactionState
    <2>2. ~ KeyOpen(<<>>)
      BY <1>1 DEF KeyOpen
    <2>3. {n \in Lines(<<>>) : <<>>[n].kind = "begin"} = {}
      BY <1>1
    <2>4. {n \in Lines(<<>>) : Slips(<<>>, n) /\ ~ Empty(<<>>[n])} = {}
      BY <1>1
    <2>5. /\ NothingRead.output = <<>> /\ NothingRead.redacted = {} /\ NothingRead.clear = {}
          /\ NothingRead.keys = 0 /\ NothingRead.read = 0 /\ NothingRead.open = FALSE
      BY DEF NothingRead
    <2>6. ~ Dangling(NothingRead.output) /\ Len(NothingRead.output) = 0 /\ Len(<<>>) = 0
      BY <2>5 DEF Dangling
    <2>7. RedactedExactly(<<>>, NothingRead)
      BY <1>1, <2>3, <2>4, <2>5, <2>6, FS_EmptySet DEF RedactedExactly
    <2>8. Reaches(<<>>, NothingRead.output)
      BY <1>1, <2>6 DEF Reaches
    <2> QED BY <2>1, <2>2, <2>5, <2>6, <2>7, <2>8 DEF Redacting
  <1>3. NothingParsed \in ParserType /\ Closed(NothingParsed) = <<>>
    BY DEF NothingParsed, ParserType, Closed
  <1>4. Declared(<<>>) = {} /\ \A h : SetBy(<<>>, h) = {}
    BY <1>1 DEF Declared, SetBy
  <1>5. Describes(<<>>, <<>>, 0)
    BY <1>4 DEF Describes
  <1>6. OnePerDeclaration(<<>>, <<>>)
    BY <1>4 DEF OnePerDeclaration
  <1>7. InBlock(<<>>, Nothing)
    BY <1>4 DEF InBlock
  <1>8. Warned(<<>>, <<>>)
    BY <1>1 DEF Warned, Members
  <1>9. /\ NothingParsed.globals = <<>> /\ NothingParsed.current = Nothing
        /\ NothingParsed.warnings = <<>>
    BY DEF NothingParsed
  <1>10. Parsing(<<>>, NothingParsed)
    BY <1>3, <1>5, <1>6, <1>7, <1>8, <1>9 DEF Parsing
  <1>11. EchoesIn(<<>>, NothingParsed, NothingParsed)
    BY <1>3, <1>9 DEF EchoesIn, Echoes
  <1> QED BY <1>2, <1>3, <1>10, <1>11

LEMMA ReadStep ==
    ASSUME AnalysisInv, NEW d \in Document, NEW line \in SourceLine, Read(d, line)
    PROVE  AnalysisInv'
  <1> DEFINE t  == text[d]
             n  == Len(t) + 1
             r  == RedactLine(redaction[d], line)
             p  == ParseLine(parsed[d], n, line)
             q  == ParseMore(reparsed[d], Len(redaction[d].output), r.output)
  <1>1. /\ t \in Seq(SourceLine) /\ Redacting(t, redaction[d]) /\ Parsing(t, parsed[d])
        /\ EchoesIn(t, reparsed[d], parsed[d])
    BY DEF AnalysisInv
  <1>2. /\ t \in Seq(LineType) /\ line \in LineType
        /\ Append(t, line) \in Seq(SourceLine)
    BY <1>1, SourceTexts
  <1>3. Redacting(Append(t, line), r)
    BY <1>1, RedactLineStep
  <1>4. Parsing(Append(t, line), p)
    BY <1>1, <1>2, ParseLineStep
  <1>7. EchoesIn(Append(t, line), q, p)
    BY <1>1, EchoMore
  <1>9. r \in RedactionState /\ p \in ParserType /\ q \in ParserType
    BY <1>3, <1>4, <1>7 DEF Redacting, Parsing, EchoesIn
  <1>10. /\ text' = [text EXCEPT ![d] = Append(t, line)]
         /\ redaction' = [redaction EXCEPT ![d] = r]
         /\ parsed' = [parsed EXCEPT ![d] = p]
         /\ reparsed' = [reparsed EXCEPT ![d] = q]
    BY DEF Read
  <1> HIDE DEF r, p, q
  <1> DEFINE longer == Append(t, line)
  <1>11. /\ longer \in Seq(SourceLine) /\ Redacting(longer, r) /\ Parsing(longer, p)
         /\ EchoesIn(longer, q, p)
    BY <1>2, <1>3, <1>4, <1>7
  <1>12. text' = [text EXCEPT ![d] = longer]
    BY <1>10
  <1> HIDE DEF longer, t, n
  <1>13. /\ text' \in [Document -> Seq(SourceLine)]
         /\ redaction' \in [Document -> RedactionState]
         /\ parsed' \in [Document -> ParserType] /\ reparsed' \in [Document -> ParserType]
    BY <1>9, <1>10, <1>11, <1>12 DEF AnalysisInv
  <1>14. ASSUME NEW e \in Document
         PROVE  /\ Redacting(text'[e], redaction'[e]) /\ Parsing(text'[e], parsed'[e])
                /\ EchoesIn(text'[e], reparsed'[e], parsed'[e])
    <2>1. CASE e = d
      <3>1. text'[e] = longer /\ redaction'[e] = r /\ parsed'[e] = p /\ reparsed'[e] = q
        BY <1>10, <1>12, <2>1 DEF AnalysisInv
      <3> QED BY <1>11, <3>1
    <2>2. CASE e # d
      <3>1. /\ text'[e] = text[e] /\ redaction'[e] = redaction[e]
            /\ parsed'[e] = parsed[e] /\ reparsed'[e] = reparsed[e]
        BY <1>10, <1>12, <2>2 DEF AnalysisInv
      <3> QED BY <3>1 DEF AnalysisInv
    <2> QED BY <2>1, <2>2
  <1> QED BY <1>13, <1>14 DEF AnalysisInv

(* redact_cisco_config and parse_cisco_ios_config, line by line, keep to   *)
(* the whole of the text they have read, for all texts of any length.      *)
THEOREM AnalysisInvariant == AnalysisSpec => []AnalysisInv
  <1>1. AnalysisInit => AnalysisInv
    <2> SUFFICES ASSUME AnalysisInit PROVE AnalysisInv
      OBVIOUS
    <2>1. \A d \in Document : /\ text[d] = <<>> /\ redaction[d] = NothingRead
                              /\ parsed[d] = NothingParsed /\ reparsed[d] = NothingParsed
      BY DEF AnalysisInit
    <2>2. /\ text \in [Document -> Seq(SourceLine)]
          /\ redaction \in [Document -> RedactionState]
          /\ parsed \in [Document -> ParserType] /\ reparsed \in [Document -> ParserType]
      BY NothingIsRead DEF AnalysisInit
    <2> QED BY <2>1, <2>2, NothingIsRead DEF AnalysisInv
  <1>2. AnalysisInv /\ [AnalysisNext]_analysisVars => AnalysisInv'
    <2> SUFFICES ASSUME AnalysisInv, [AnalysisNext]_analysisVars PROVE AnalysisInv'
      OBVIOUS
    <2>1. ASSUME NEW line \in LocalLine, Read("local", line) PROVE AnalysisInv'
      BY <2>1, ReadStep, LineAssumption DEF Document
    <2>2. ASSUME NEW line \in PeerLine, Read("peer", line) PROVE AnalysisInv'
      BY <2>2, ReadStep, LineAssumption DEF Document
    <2>3. CASE UNCHANGED analysisVars
      BY <2>3 DEF analysisVars, AnalysisInv
    <2> QED BY <2>1, <2>2, <2>3 DEF AnalysisNext
  <1> QED BY <1>1, <1>2, PTL DEF AnalysisSpec

(* Whatever the text, redact_cisco_config hides exactly its key blocks,    *)
(* leaves exactly the secrets behind a detached sign or a marker, joins    *)
(* lines exactly at the odd terminators of hidden ones, and reports what   *)
(* it has changed.                                                         *)
THEOREM RedactsExactly == AnalysisSpec => []RedactionExact
  <1>1. AnalysisInv => RedactionExact
    BY DEF AnalysisInv, RedactionExact, Redacting
  <1> QED BY <1>1, AnalysisInvariant, PTL

(* Whatever the text, parse_cisco_ios_config attributes every lifetime to  *)
(* the command it is subordinate to, and warns of exactly the refused.     *)
THEOREM ParsesAsScoped == AnalysisSpec => []ParsedAsScoped
  <1>1. AnalysisInv => ParsedAsScoped
    BY ParsingIsScoped, SourceTexts DEF AnalysisInv, ParsedAsScoped
  <1> QED BY <1>1, AnalysisInvariant, PTL

(* Whatever the text, a setting found in its redacted form, before any     *)
(* line that is joined to another, is a setting of the source, on the same *)
(* line and under the same declaration.                                    *)
THEOREM EvidenceSurvivesRedaction == AnalysisSpec => []RedactedEvidenceHolds
  <1>1. AnalysisInv => RedactedEvidenceHolds
    BY DEF AnalysisInv, RedactedEvidenceHolds, EchoesIn
  <1> QED BY <1>1, AnalysisInvariant, PTL

(* The result is that of lines mine of t and theirs of u. *)
DecidedBy(result, t, mine, u, theirs) ==
    /\ result.observed = Evidence(t, mine)
    /\ result.expected = Evidence(u, theirs)
    /\ result.status =
          IF mine = 0 \/ theirs = 0 THEN "insufficient_context"
          ELSE IF t[mine].value = u[theirs].value THEN "pass" ELSE "fail"

LEMMA ResultJustified ==
    ASSUME NEW t \in Seq(LineType), NEW p, Parsing(t, p),
           NEW u \in Seq(LineType), NEW peer, peer = Nothing \/ Parsing(u, peer),
           NEW map, NEW a \in AssociationType, Faithful(t, a),
           NEW theirs, theirs = IF peer = Nothing THEN 0 ELSE DecidingFor(u, map[a.name])
    PROVE  DecidedBy(ResultFor(a, p, peer, map), t, Deciding(t, a.declared), u, theirs)
  <1> DEFINE paired == IF peer = Nothing THEN Nothing ELSE PeerAssociation(a, peer, map)
             mine   == Deciding(t, a.declared)
             M      == EffectiveLifetime(p, a)
             T      == IF paired = Nothing THEN Nothing ELSE EffectiveLifetime(peer, paired)
  <1>1. /\ M = Evidence(t, mine) /\ (M = Nothing <=> mine = 0)
        /\ mine # 0 => M.value = t[mine].value
    BY EffectiveIsDeciding, EvidenceThere
  <1>2. /\ T = Evidence(u, theirs) /\ (T = Nothing <=> theirs = 0)
        /\ theirs # 0 => T.value = u[theirs].value
    <2>1. CASE paired = Nothing /\ theirs = 0
      <3>1. T = Nothing /\ Evidence(u, theirs) = Nothing
        BY <2>1 DEF Evidence
      <3> QED BY <2>1, <3>1
    <2>2. CASE /\ peer # Nothing /\ paired \in AssociationType /\ paired # Nothing
               /\ Faithful(u, paired) /\ theirs = Deciding(u, paired.declared)
      <3>1. T = Evidence(u, theirs)
        BY <2>2, EffectiveIsDeciding
      <3> QED BY <2>2, <3>1, EvidenceThere
    <2>3. peer # Nothing =>
             \/ paired = Nothing /\ theirs = 0
             \/ /\ paired \in AssociationType /\ paired # Nothing
                /\ Faithful(u, paired) /\ theirs = Deciding(u, paired.declared)
      BY PairedIsNamed
    <2>4. peer = Nothing => paired = Nothing /\ theirs = 0
      OBVIOUS
    <2> HIDE DEF paired, T
    <2> QED BY <2>1, <2>2, <2>3, <2>4
  <1>3. ResultFor(a, p, peer, map) =
           [status |-> IF M = Nothing \/ T = Nothing THEN "insufficient_context"
                       ELSE IF M.value = T.value THEN "pass" ELSE "fail",
            association |-> a.declared, observed |-> M, expected |-> T]
    BY DEF ResultFor, Result
  <1> HIDE DEF paired, mine, M, T
  <1> DEFINE result == ResultFor(a, p, peer, map)
  <1>4. /\ result.observed = Evidence(t, mine)
        /\ result.expected = Evidence(u, theirs)
        /\ result.status =
              IF mine = 0 \/ theirs = 0 THEN "insufficient_context"
              ELSE IF t[mine].value = u[theirs].value THEN "pass" ELSE "fail"
    BY <1>1, <1>2, <1>3
  <1> QED BY <1>4 DEF DecidedBy, mine

(* Whatever the two texts and the pairing, the verdict and the evidence of *)
(* validate_phase2_lifetime are those of the lines that decide.            *)
THEOREM VerdictIsJustified == AnalysisSpec => []VerdictJustified
  <1>1. ASSUME AnalysisInv PROVE VerdictJustified
    <2> DEFINE t == text["local"]
               u == text["peer"]
               local == parsed["local"]
    <2>1. /\ t \in Seq(LineType) /\ u \in Seq(LineType)
          /\ Parsing(t, local) /\ Parsing(u, parsed["peer"])
      BY <1>1, SourceTexts DEF AnalysisInv, Document
    <2> HIDE DEF t, u, local
    <2>2. ASSUME NEW map,
                 NEW peer \in {parsed["peer"], Nothing},
                 NEW result \in Members(Validate(local, peer, map))
          PROVE  DecidedBy(result, t, Deciding(t, result.association), u,
                           IF peer = Nothing THEN 0
                           ELSE DecidingFor(u, map[t[result.association].name]))
      <3>1. Closed(local) \in Seq(AssociationType)
        BY <2>1 DEF Parsing, ParserType, Closed
      <3>2. PICK i \in 1 .. Len(Closed(local)) :
               result = ResultFor(Closed(local)[i], local, peer, map)
        <4> DEFINE of(i) == ResultFor(Closed(local)[i], local, peer, map)
                   L == Len(Closed(local))
        <4>1. Validate(local, peer, map) = [i \in 1 .. L |-> of(i)]
          BY DEF Validate
        <4>2. L \in Nat
          BY <3>1
        <4> HIDE DEF of, L
        <4>3. /\ Len(Validate(local, peer, map)) = L
              /\ \A i \in 1 .. L : Validate(local, peer, map)[i] = of(i)
          BY <4>1, <4>2
        <4>4. \E i \in 1 .. L : result = of(i)
          BY <4>3 DEF Members
        <4> QED BY <4>4 DEF of, L
      <3> DEFINE a == Closed(local)[i]
      <3>3. a \in AssociationType /\ Faithful(t, a)
        BY <2>1, <3>1 DEF Parsing, OnePerDeclaration
      <3>4. peer = Nothing \/ Parsing(u, peer)
        BY <2>1
      <3> HIDE DEF a
      <3>5. t[a.declared].name = a.name
        BY <3>3 DEF Faithful
      <3>6. result = ResultFor(a, local, peer, map)
        BY <3>2 DEF a
      <3> DEFINE theirs == IF peer = Nothing THEN 0 ELSE DecidingFor(u, map[a.name])
      <3>7. theirs = IF peer = Nothing THEN 0 ELSE DecidingFor(u, map[a.name])
        OBVIOUS
      <3> HIDE DEF theirs
      <3>8. DecidedBy(ResultFor(a, local, peer, map), t, Deciding(t, a.declared), u, theirs)
        BY <2>1, <3>3, <3>4, <3>7, ResultJustified
      <3>9. result.association = a.declared
        BY <3>6 DEF ResultFor, Result
      <3> QED BY <3>5, <3>6, <3>7, <3>8, <3>9
    <2> QED BY <2>2 DEF VerdictJustified, DecidedBy, t, u, local
  <1> QED BY <1>1, AnalysisInvariant, PTL
=============================================================================

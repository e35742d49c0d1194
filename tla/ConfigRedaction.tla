-------------------------- MODULE ConfigRedaction --------------------------
(***************************************************************************)
(* redact_cisco_config of ingestion/redaction.py, one line at a time.  A   *)
(* line is what the patterns of the redactor and of the parser see of it:  *)
(* whether it is indented, its kind, the words that matter to either, and  *)
(* its terminator.                                                         *)
(*                                                                         *)
(*   kind "blank"        nothing, or a comment, which has a name           *)
(*        "begin", "end" the armour lines of a private key                 *)
(*        "secret"       keyword, word, secret, for an inline rule.  unit  *)
(*                       tells which rules know the keyword, name is the   *)
(*                       word: "word" for a type number or "local", "sign" *)
(*                       for = or :, a marker in its place, or nothing     *)
(*        "marker"       a line that begins with a marker                  *)
(*        "text"         any other line                                    *)
(*   and "declaration", "lifetime", "malformed" and "peer", which only     *)
(*   the parser tells apart (IpsecLifetimes).                              *)
(*                                                                         *)
(*   ending "plain"  \r\n, \n or \r                                        *)
(*          "odd"    another terminator of splitlines: \x0b, \x0c, \x1c to *)
(*                   \x1e, \x85, \u2028 or \u2029, white space to a rule   *)
(*          "none"   of the last line of an output, so far                 *)
(***************************************************************************)
EXTENDS Naturals, Sequences

CONSTANT Nothing  \* None, or no such word

Line(indented, kind, name, unit, value, ending) ==
    [indented |-> indented, kind |-> kind, name |-> name, unit |-> unit,
     value |-> value, ending |-> ending]

(* The value of a secret line: there for all to read, or replaced. *)
Clear    == 1
Replaced == 0

-----------------------------------------------------------------------------

(* The rules for a command keyword: R1 to R6 and R9 of _INLINE_RULES.  The *)
(* token behind the keyword, and behind the optional type number, is taken *)
(* for the secret unless it is a marker: a detached sign too, and the word *)
(* where the secret is a marker, since the pattern may match without it.   *)
ByCommandRule(line) ==
    IF ~ (line.kind = "secret" /\ line.unit \in {"command", "both"}) THEN line
    ELSE IF line.name = "marker" THEN line
    ELSE IF line.name = "sign" THEN [line EXCEPT !.name = "marker"]
    ELSE IF line.value = Clear THEN [line EXCEPT !.value = Replaced]
    ELSE IF line.name = "word" THEN [line EXCEPT !.name = "marker"]
    ELSE line

(* The rules for a keyword with a sign: R7, R8 and R10. *)
ByAssignmentRule(line) ==
    IF /\ line.kind = "secret" /\ line.unit \in {"assignment", "both"}
       /\ line.name = "sign"
    THEN [line EXCEPT !.value = Replaced] ELSE line

(* Each rule sees what those before it have left: where R3, R5 or R6 has   *)
(* taken the sign of a password, R7 finds none.  R9 may stand with R1 to   *)
(* R6, since no rule between them shares its keyword.                      *)
RedactInline(line) == ByAssignmentRule(ByCommandRule(line))

Marker(indented, ending) == Line(indented, "marker", Nothing, Nothing, Nothing, ending)

Empty(line) == line.kind = "blank" /\ line.name = Nothing

(* _redact_entire_line: the indentation and a marker.  _split_line_ending  *)
(* leaves an odd terminator in the body, and so it is lost; that of an     *)
(* empty line is part of the indentation, and stays before the marker.     *)
RedactEntireLine(line) ==
    IF line.ending = "plain" THEN <<Marker(line.indented, "plain")>>
    ELSE IF Empty(line) THEN <<line, Marker(FALSE, "none")>>
    ELSE <<Marker(line.indented, "none")>>

(* open: private_key_open.  read: line_number.  output: the lines of the   *)
(* content so far.  redacted: redacted_line_numbers.  keys: the            *)
(* occurrence_count of the private-key rule.  clear: history, the lines    *)
(* whose secret can still be read.                                         *)
NothingRead ==
    [open |-> FALSE, read |-> 0, output |-> <<>>, redacted |-> {}, clear |-> {}, keys |-> 0]

Dangling(output) == output # <<>> /\ output[Len(output)].ending = "none"

(* The join of what has been written and what is appended, again in lines. *)
(* Text that follows a marker on its line is not seen by the parser, whose *)
(* patterns begin with the line.                                           *)
Join(output, lines) ==
    IF Dangling(output)
    THEN [output EXCEPT ![Len(output)].ending = Head(lines).ending] \o Tail(lines)
    ELSE output \o lines

(* Mutant: the line that ends a key closes the block before it is hidden. *)
HiddenEndFirst(state, line) == line.kind # "end" /\ (state.open \/ line.kind = "begin")

(* A line of an open key block, or one that opens it. *)
Hidden(state, line) == state.open \/ line.kind = "begin"

(* Mutant: a hidden line is left out of the output. *)
OutputVisible(state, line) ==
    IF Hidden(state, line) THEN state.output ELSE Join(state.output, <<RedactInline(line)>>)

Output(state, line) ==
    Join(state.output,
         IF Hidden(state, line) THEN RedactEntireLine(line) ELSE <<RedactInline(line)>>)

(* One turn of the loop: a hidden line is replaced as a whole, the inline  *)
(* rules see any other, and _record_match notes what has been replaced.    *)
RedactLine(state, line) ==
    LET n == state.read + 1 IN
    [open     |-> Hidden(state, line) /\ line.kind # "end",
     read     |-> n,
     output   |-> Output(state, line),
     redacted |-> IF Hidden(state, line) \/ RedactInline(line) # line
                  THEN state.redacted \cup {n} ELSE state.redacted,
     clear    |-> IF ~ Hidden(state, line) /\ line.kind = "secret"
                     /\ RedactInline(line).value = Clear
                  THEN state.clear \cup {n} ELSE state.clear,
     keys     |-> state.keys + IF line.kind = "begin" THEN 1 ELSE 0]
=============================================================================

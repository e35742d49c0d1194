--------------------------- MODULE ConfigAnalysis ---------------------------
(***************************************************************************)
(* Two configurations are read line by line, the local one and that of its *)
(* peer: redacted, parsed, and parsed again as redacted.  The states are   *)
(* all texts up to the bounds, and every invariant compares what the code  *)
(* has computed, line after line, with a definition over the whole text.   *)
(***************************************************************************)
EXTENDS IpsecLifetimes

CONSTANTS LocalLine,  \* the lines a local configuration may have
          PeerLine,   \* and those of the peer
          Name,       \* names of crypto maps and profiles
          MaxLines    \* bound on the lines of both together

(* What lines can be.  A lifetime has a unit and a number, a secret is     *)
(* clear or replaced and has its word, and declarations stand at the       *)
(* margin.                                                                 *)
LineType ==
    {line \in [indented : BOOLEAN,
               kind     : {"blank", "begin", "end", "secret", "marker", "text",
                           "declaration", "lifetime", "malformed", "peer"},
               name     : Name \cup {"word", "sign", "marker", Nothing},
               unit     : {"seconds", "kilobytes", "command", "assignment", "both", Nothing},
               value    : Nat \cup {Nothing},
               ending   : {"plain", "odd", "none"}] :
        /\ line.kind = "declaration" => ~ line.indented /\ line.name \in Name
        /\ line.kind = "lifetime" =>
              line.unit \in {"seconds", "kilobytes"} /\ line.value # Nothing
        /\ line.kind = "secret" =>
              /\ line.unit \in {"command", "assignment", "both"}
              /\ line.unit = "assignment" => line.name = "sign"
              /\ line.value \in {Clear, Replaced}}

(* A line of a text to read; a last one without terminator is as good. *)
SourceLine == {line \in LineType : line.ending # "none"}

SettingType == [unit : {"seconds", "kilobytes"}, value : Nat, line : Nat]

AssociationType ==
    [name : Name, declared : Nat, peers : Seq(Nat), settings : Seq(SettingType)]

ASSUME LineAssumption == LocalLine \cup PeerLine \subseteq SourceLine /\ MaxLines \in Nat

ASSUME NothingElse ==
    Nothing \notin Name \cup Nat \cup STRING \cup SettingType \cup AssociationType

VARIABLES text,       \* document |-> its lines
          redaction,  \* document |-> state of redact_cisco_config
          parsed,     \* document |-> state of the parser on the text
          reparsed    \* document |-> state of the parser on the redacted text

analysisVars == <<text, redaction, parsed, reparsed>>

Document == {"local", "peer"}

AnalysisInit ==
    /\ text      = [d \in Document |-> <<>>]
    /\ redaction = [d \in Document |-> NothingRead]
    /\ parsed    = [d \in Document |-> NothingParsed]
    /\ reparsed  = [d \in Document |-> NothingParsed]

(* The parser goes on with the lines of output after the first k, of which *)
(* there are at most two.                                                  *)
ParseMore(p, k, output) ==
    LET next == IF k < Len(output) THEN ParseLine(p, k + 1, output[k + 1]) ELSE p
    IN  IF k + 1 < Len(output) THEN ParseLine(next, k + 2, output[k + 2]) ELSE next

(* The next line of a document passes the redactor, and the line and what  *)
(* it adds to the redacted text pass a parser.  What is added to a line    *)
(* that has been parsed already changes nothing for the parser: the line   *)
(* begins with a marker.                                                   *)
Read(d, line) ==
    LET redacted == RedactLine(redaction[d], line)
        n        == Len(text[d]) + 1
        k        == Len(redaction[d].output)
    IN  /\ Len(text["local"]) + Len(text["peer"]) < MaxLines
        /\ text' = [text EXCEPT ![d] = Append(@, line)]
        /\ redaction' = [redaction EXCEPT ![d] = redacted]
        /\ parsed' = [parsed EXCEPT ![d] = ParseLine(@, n, line)]
        /\ reparsed' = [reparsed EXCEPT ![d] = ParseMore(@, k, redacted.output)]

AnalysisNext ==
    \/ \E line \in LocalLine : Read("local", line)
    \/ \E line \in PeerLine : Read("peer", line)

AnalysisSpec == AnalysisInit /\ [][AnalysisNext]_analysisVars

-----------------------------------------------------------------------------

(* The definitions that follow are about a whole text t. *)

Lines(t) == 1 .. Len(t)

(* Line n lies in a private-key block: from a BEGIN line to the next END   *)
(* line, both included, or to the end of the text without one.             *)
InKeyBlock(t, n) ==
    \E b \in 1 .. n : t[b].kind = "begin" /\ \A e \in b .. n - 1 : t[e].kind # "end"

(* The terminator of line n is not where it was: the next line is joined   *)
(* to the marker of this one.                                              *)
Slips(t, n) == InKeyBlock(t, n) /\ t[n].ending = "odd"

(* No line before n is joined to another. *)
Intact(t, n) == \A m \in Lines(t) : m < n => ~ Slips(t, m)

(* What the rules replace on a line, and what they leave. *)
HasReplaced(line) ==
    /\ line.kind = "secret"
    /\ \/ line.name = "word"
       \/ line.name = "sign" /\ (line.unit # "assignment" \/ line.value = Clear)
       \/ line.name \notin {"word", "sign", "marker"} /\ line.value = Clear

StaysClear(line) ==
    /\ line.kind = "secret" /\ line.value = Clear
    /\ line.name = "marker" \/ (line.name = "sign" /\ line.unit # "assignment")

(* The line that line n is subordinate to: the last command at the margin  *)
(* before it, or 0.                                                        *)
Margin(t, n) == {h \in 1 .. n - 1 : ~ t[h].indented /\ t[h].kind # "blank"}

Last(S) == CHOOSE n \in S : \A m \in S : m <= n

Heading(t, n) == IF Margin(t, n) = {} THEN 0 ELSE Last(Margin(t, n))

(* A valid lifetime on line n that configures what line h declares, or     *)
(* everything for h = 0.                                                   *)
Sets(t, n, h) ==
    /\ t[n].kind = "lifetime" /\ t[n].value > 0
    /\ IF h = 0 THEN ~ t[n].indented ELSE t[n].indented /\ Heading(t, n) = h

SetsSeconds(t, h) == {n \in Lines(t) : Sets(t, n, h) /\ t[n].unit = "seconds"}

(* The line that decides on the seconds of the association declared on h.  *)
Deciding(t, h) ==
    IF SetsSeconds(t, h) # {} THEN Last(SetsSeconds(t, h))
    ELSE IF SetsSeconds(t, 0) # {} THEN Last(SetsSeconds(t, 0)) ELSE 0

Declared(t) == {n \in Lines(t) : t[n].kind = "declaration"}

Members(s) == {s[i] : i \in 1 .. Len(s)}

(* What a parser has found: each setting with the line of its association. *)
AttributedTo(associations) ==
    UNION {{<<a.declared, s>> : s \in Members(a.settings)} : a \in Members(associations)}

Attributed(p) == AttributedTo(Closed(p)) \cup {<<0, s>> : s \in Members(p.globals)}

-----------------------------------------------------------------------------

(* Intact line n of the text as the output has it. *)
InPlace(t, r, n) ==
    /\ n \in 1 .. Len(r.output)
    /\ r.output[n].indented = t[n].indented
    /\ r.output[n].kind = IF InKeyBlock(t, n) /\ ~ (Slips(t, n) /\ Empty(t[n]))
                          THEN "marker" ELSE t[n].kind
    /\ Slips(t, n) \/ r.output[n].ending = t[n].ending

RedactedExactly(t, r) ==
    /\ \A n \in Lines(t) : Intact(t, n) => InPlace(t, r, n)
    /\ Len(r.output) + Cardinality({n \in Lines(t) : Slips(t, n) /\ ~ Empty(t[n])}) =
          Len(t) + IF Dangling(r.output) THEN 1 ELSE 0
    /\ r.redacted = {n \in Lines(t) : InKeyBlock(t, n) \/ HasReplaced(t[n])}
    /\ r.clear = {n \in Lines(t) : ~ InKeyBlock(t, n) /\ StaysClear(t[n])}
    /\ r.keys = Cardinality({n \in Lines(t) : t[n].kind = "begin"})

(* What redact_cisco_config does to a text, exactly.  It replaces the      *)
(* lines of key blocks, an unterminated one to the end of the text, and    *)
(* reports the lines it has changed and the keys it has met.  A secret     *)
(* stays readable exactly where a detached sign, or a marker, stands       *)
(* between a command keyword and the secret.  Lines keep their place,      *)
(* indentation and terminator up to the first hidden line with an odd      *)
(* terminator, and every such line that is not empty costs the text one    *)
(* line.                                                                   *)
RedactionExact == \A d \in Document : RedactedExactly(text[d], redaction[d])

ScopedExactly(t, p) ==
    /\ {a.declared : a \in Members(Closed(p))} = Declared(t)
    /\ Attributed(p) =
          {<<x[1], Setting(x[2], t[x[2]])>> : x \in
             {y \in (Declared(t) \cup {0}) \X Lines(t) : Sets(t, y[2], y[1])}}
    /\ Members(p.warnings) =
          {n \in Lines(t) : /\ IsLifetime(t[n]) /\ ~ IsValid(t[n])
                            /\ ~ t[n].indented \/ Heading(t, n) \in Declared(t)}

(* parse_cisco_ios_config attributes every valid lifetime to the last      *)
(* command at the margin before it, if that declares an association, and   *)
(* warns of exactly the others that stand where a lifetime counts.         *)
ParsedAsScoped == \A d \in Document : ScopedExactly(text[d], parsed[d])

(* Line numbers of the redacted text are good as evidence up to the first  *)
(* hidden line with an odd terminator: what the parser finds there, it     *)
(* finds in the source, on the same line, with the same value and under    *)
(* the same declaration.  Behind that line neither number nor declaration  *)
(* need be right.                                                          *)
RedactedEvidenceHolds ==
    \A d \in Document : \A x \in Attributed(reparsed[d]) :
        Intact(text[d], x[2].line) => x \in Attributed(parsed[d])

(* A setting of text t as the evidence for line n, 0 for none. *)
Evidence(t, n) == IF n = 0 THEN Nothing ELSE Setting(n, t[n])

(* The line that decides for the one association of the peer's text t that *)
(* has the name, or 0.                                                     *)
DecidingFor(t, name) ==
    LET named == {g \in Declared(t) : t[g].name = name}
    IN  IF Cardinality(named) # 1 THEN 0 ELSE Deciding(t, CHOOSE g \in named : TRUE)

(* validate_phase2_lifetime reports pass or fail only for an association   *)
(* the caller has paired with exactly one of the peer, whose text it has   *)
(* supplied, and where both texts have a lifetime; its evidence is the     *)
(* lines that decide, whatever they override, and it is pass exactly if    *)
(* their values agree.                                                     *)
VerdictJustified ==
    \A map \in [Name -> Name \cup {Nothing}], peer \in {parsed["peer"], Nothing} :
    \A result \in Members(Validate(parsed["local"], peer, map)) :
       LET name   == text["local"][result.association].name
           mine   == Deciding(text["local"], result.association)
           theirs == IF peer = Nothing THEN 0 ELSE DecidingFor(text["peer"], map[name])
       IN  /\ result.observed = Evidence(text["local"], mine)
           /\ result.expected = Evidence(text["peer"], theirs)
           /\ result.status =
                 IF mine = 0 \/ theirs = 0 THEN "insufficient_context"
                 ELSE IF text["local"][mine].value = text["peer"][theirs].value
                      THEN "pass" ELSE "fail"
=============================================================================

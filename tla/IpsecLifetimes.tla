--------------------------- MODULE IpsecLifetimes ---------------------------
(***************************************************************************)
(* The Cisco IOS parser of parsers/cisco_ios, one line at a time, and the  *)
(* comparison of phase 2 lifetimes of validators/cisco_ios_ipsec.py.       *)
(*                                                                         *)
(* Of the lines of ConfigRedaction the parser tells apart                  *)
(*   "declaration"  of a crypto map or profile, at the margin; name stands *)
(*                  for its identifier: kind, name and sequence            *)
(*   "lifetime"     the command that sets a lifetime where it stands, with *)
(*                  unit and value; 0 is any value int() or the sign rule  *)
(*                  refuses                                                *)
(*   "malformed"    a line that begins like that command and is not it     *)
(*   "peer"         set peer                                               *)
(***************************************************************************)
EXTENDS Naturals, Sequences, FiniteSets, ConfigRedaction

NothingParsed ==
    [current |-> Nothing, associations |-> <<>>, globals |-> <<>>, warnings |-> <<>>]

Setting(n, line) == [unit |-> line.unit, value |-> line.value, line |-> n]

IsLifetime(line) == line.kind \in {"lifetime", "malformed"}
IsValid(line)    == line.kind = "lifetime" /\ line.value > 0

(* Mutant: a comment or an empty line at the margin ends a block too. *)
ClosesBlockBlank(line) == ~ line.indented

(* Only a command at the margin ends the block of an association. *)
ClosesBlock(line) == ~ line.indented /\ line.kind # "blank"

(* The command at the margin that is no lifetime: a declaration, or        *)
(* nothing the parser supports.                                            *)
TopLevelDeclaration(n, line) ==
    IF line.kind = "declaration"
    THEN [name |-> line.name, declared |-> n, peers |-> <<>>, settings |-> <<>>]
    ELSE Nothing

Closed(parsed) ==
    IF parsed.current = Nothing THEN parsed.associations
    ELSE Append(parsed.associations, parsed.current)

(* The loop of parse_cisco_ios_config for line n. *)
ParseLine(parsed, n, line) ==
    IF ClosesBlock(line)
    THEN [current      |-> IF IsLifetime(line) THEN Nothing ELSE TopLevelDeclaration(n, line),
          associations |-> Closed(parsed),
          globals      |-> IF IsValid(line) THEN Append(parsed.globals, Setting(n, line))
                           ELSE parsed.globals,
          warnings     |-> IF IsLifetime(line) /\ ~ IsValid(line)
                           THEN Append(parsed.warnings, n) ELSE parsed.warnings]
    ELSE IF line.kind = "blank" \/ parsed.current = Nothing THEN parsed
    ELSE IF IsValid(line)
    THEN [parsed EXCEPT !.current.settings = Append(@, Setting(n, line))]
    ELSE IF IsLifetime(line) THEN [parsed EXCEPT !.warnings = Append(@, n)]
    ELSE IF line.kind = "peer"
    THEN [parsed EXCEPT !.current.peers = Append(@, n)]
    ELSE parsed

-----------------------------------------------------------------------------

Units(settings, unit) == {i \in 1 .. Len(settings) : settings[i].unit = unit}

(* effective_override and global_lifetime: the last setting of a unit. *)
LastOf(settings, unit) ==
    IF Units(settings, unit) = {} THEN Nothing
    ELSE settings[CHOOSE i \in Units(settings, unit) :
                     \A j \in Units(settings, unit) : j <= i]

(* _effective_lifetime: the association's own setting, or the global one. *)
EffectiveLifetime(parsed, association) ==
    IF LastOf(association.settings, "seconds") # Nothing
    THEN LastOf(association.settings, "seconds")
    ELSE LastOf(parsed.globals, "seconds")

(* The associations of the peer that the caller has paired with this one:  *)
(* map is Nothing for a name it has not paired.                            *)
Matches(association, peer, map) ==
    {i \in 1 .. Len(Closed(peer)) :
        map[association.name] # Nothing /\ Closed(peer)[i].name = map[association.name]}

(* Mutant: the first association of the name is taken. *)
PeerAssociationFirst(association, peer, map) ==
    LET matches == Matches(association, peer, map)
    IN  IF matches # {}
        THEN Closed(peer)[CHOOSE i \in matches : \A j \in matches : i <= j]
        ELSE Nothing

(* _peer_association: the one paired association, if there is one only.    *)
PeerAssociation(association, peer, map) ==
    LET matches == Matches(association, peer, map)
    IN  IF Cardinality(matches) = 1 THEN Closed(peer)[CHOOSE i \in matches : TRUE]
        ELSE Nothing

(* _result and its _evidence: a setting stands for a value and for the     *)
(* line it was found on, Nothing for an absent one.                        *)
Result(status, association, local, peer) ==
    [status |-> status, association |-> association.declared,
     observed |-> local, expected |-> peer]

(* The result for one association of the local configuration.  peer is     *)
(* Nothing when no configuration of it was supplied.                       *)
ResultFor(association, local, peer, map) ==
    LET mine   == EffectiveLifetime(local, association)
        paired == IF peer = Nothing THEN Nothing ELSE PeerAssociation(association, peer, map)
        theirs == IF paired = Nothing THEN Nothing ELSE EffectiveLifetime(peer, paired)
    IN  Result(IF mine = Nothing \/ theirs = Nothing THEN "insufficient_context"
               ELSE IF mine.value = theirs.value THEN "pass" ELSE "fail",
               association, mine, theirs)

(* validate_phase2_lifetime: a result for every association in order.      *)
(* Without one the single result is not_applicable, the empty sequence     *)
(* here.                                                                   *)
Validate(local, peer, map) ==
    [i \in 1 .. Len(Closed(local)) |-> ResultFor(Closed(local)[i], local, peer, map)]
=============================================================================

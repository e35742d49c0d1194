SPECIFICATION AnalysisSpec
CONSTANTS
    Nothing = Nothing
    a = a
    b = b
    Name = {a, b}
    LocalLine <- MCLocalLine
    PeerLine <- MCPeerLine
    MaxLines = 5
INVARIANTS RedactionExact ParsedAsScoped RedactedEvidenceHolds VerdictJustified
CHECK_DEADLOCK FALSE

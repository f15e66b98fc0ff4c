--------------------------- MODULE MCPytestBridge ---------------------------
(* Module PytestBridge for TLC.                                              *)
EXTENDS PytestBridge

CONSTANTS a, b, MaxCases

\* Test cases with no fixture, with either, and with one that needs the other.
SomeCases == {<<>>, <<a>>, <<b>>, <<a, b>>}

SomeSessions == UNION {[1 .. n -> SomeCases] : n \in 0 .. MaxCases}

=============================================================================

--------------------------- MODULE MCRuntimeConfig ---------------------------
(***************************************************************************)
(* Two keys, a value that fits the budget once, and two ports.             *)
(***************************************************************************)
EXTENDS RuntimeConfig

CONSTANTS k1, k2, v

MCKeys == {k1, k2}
MCValues == {v}

\* Too large: both keys with a value.
MCEncodable == {m \in Maps : \E k \in ValidKeys : m[k] = NoValue}

\* The last of the range, and one that 16 bits would turn into 4464.
MCPorts == {65535, 70000}

=============================================================================

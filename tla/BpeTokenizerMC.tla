--------------------------- MODULE BpeTokenizerMC ---------------------------
EXTENDS BpeTokenizer, FiniteSets
CONSTANTS a, b
MCWords == UNION {[1 .. k -> {a, b}] : k \in 1 .. 5}
\* Pairs of which a table has up to MaxPairs, with one of two scores each.
MCPairs == {<<<<a>>, <<a>>>>, <<<<a>>, <<b>>>>, <<<<b>>, <<a>>>>,
            <<<<a, a>>, <<a>>>>, <<<<a>>, <<a, a>>>>, <<<<a, b>>, <<a>>>>, <<<<a>>, <<b, a>>>>,
            <<<<a, a>>, <<b, a>>>>, <<<<a, b>>, <<a, b>>>>}
CONSTANT MaxPairs
MCTables == UNION {[P -> {1, 2}] : P \in {P \in SUBSET MCPairs : Cardinality(P) <= MaxPairs}}
=============================================================================

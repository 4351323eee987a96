--------------------------- MODULE ModelContextMC ---------------------------
(* Small instances of ModelContext for TLC. *)
EXTENDS ModelContext

CONSTANTS t1, t2, eos

MCToken   == {t1, t2, eos}
MCTokenSmall   == {t1, eos}
MCRefeedsSmall == {<<>>, <<t1>>, <<t1, t1>>}
\* Prompts shorter and longer than a batch, of up to three tokens.
MCPrompts == {<<t1>>, <<t2, t1, t1>>}
\* For shifting: the last token of an output, or nothing, is fed again.
MCRefeeds == {<<>>, <<t1>>, <<t2, t1>>}
MCMaxNews == {-1, 2}
=============================================================================

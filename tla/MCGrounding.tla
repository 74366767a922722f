------------------------------ MODULE MCGrounding ------------------------------
EXTENDS Grounding

\* Four words of one, one, two and three tokens; a window holds four, the
\* overlap two: the longest word fits beside no overlap of two.
MCTokenCount == [w \in Words |-> CASE w = "so" -> 1 [] w = "well" -> 1 [] w = "maybe" -> 2 [] OTHER -> 3]
MCLoaded == [c \in Channels |-> CASE c = Fresh -> 0 [] c = "b" -> 3 [] OTHER -> 1]
=============================================================================

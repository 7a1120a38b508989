---------------------------- MODULE MCMluiClient ----------------------------
EXTENDS MluiClient

Box(id) == [ZeroNode EXCEPT !.id = id, !.kind = "BOX"]

\* A root with one child for every other node.
Rows(nodes) ==
    LET n == Len(nodes)
    IN  MakeProgram(TRUE,
            [i \in 0 .. n - 1 |->
               IF i = 0 THEN [nodes[1] EXCEPT !.n_child = n - 1] ELSE nodes[i + 1]],
            [c \in 0 .. n - 2 |-> c + 1], 0)

Two       == Rows(<<Box(1), Box(2)>>)
Behind    == Rows(<<Box(1), [Box(2) EXCEPT !.drawn = FALSE]>>)
Three     == Rows(<<Box(1), [Box(2) EXCEPT !.role = "ACTIVATE_TARGET"], Box(3)>>)
Empty     == Rows(<<Box(1), [Box(2) EXCEPT !.kind = "EMPTY"]>>)
Twins     == Rows(<<Box(1), Box(1)>>)

MCPrograms == {Two, Behind, Three, Empty, Twins}

MCRaws == {"NONE", "POINTER_MOVED", "POINTER_PRESSED", "POINTER_RELEASED",
           "POINTER_CANCELLED"}

\* Two programs, each valid, and no allocation refused.
MCGrowing == {Two, Three}

=============================================================================

----------------------------- MODULE MCLuaHosts -----------------------------
EXTENDS LuaHosts

Tree(sizecode, p) == [sizecode |-> sizecode, p |-> p]

\* One function; a chain; siblings around a nested pair; two generations where
\* the order of the functions in the tree is not the order of the dump.
MCTrees == { Tree(<<1>>, <<<<>>>>),
             Tree(<<2, 1, 3>>, <<<<2>>, <<3>>, <<>>>>),
             Tree(<<1, 2, 1, 3>>, <<<<3, 2, 4>>, <<>>, <<>>, <<>>>>),
             Tree(<<2, 1, 1, 2, 3>>, <<<<5, 2>>, <<4>>, <<>>, <<>>, <<3>>>>) }

=============================================================================

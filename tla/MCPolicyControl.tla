--------------------------- MODULE MCPolicyControl ---------------------------
(***************************************************************************)
(* Small instances of PolicyControl for TLC.                               *)
(***************************************************************************)
EXTENDS PolicyControl, TLC

Block    == [blk |-> "image_block", reg |-> "registry"]
Location == [blk |-> "location", reg |-> "registry"]

Says(n)    == [text |-> n, refs |-> {}]
Points(v)  == [text |-> 1, refs |-> {<<"blk", v>>}]

Saves == {<<"blk", "v1", Says(1)>>, <<"reg", "v1", Points("v1")>>}

\* An artifact of the block and the registry, published elsewhere.
Rows   == [blk |-> Says(2), reg |-> Points("v1")]
Export == [q \in Policies |-> <<"v1", Rows[q]>>]
Clone  == <<"world", Export>> :> Rows

\* And one of the client's scope, with the other variant of the block.
ClientRows   == [blk |-> Says(1), reg |-> NoRow]
ClientExport == [blk |-> <<"v2", Says(1)>>, reg |-> <<None, NoRow>>]
Clones       == Clone @@ (<<"client", ClientExport>> :> ClientRows)

Alike == Permutations(Procs)
=============================================================================

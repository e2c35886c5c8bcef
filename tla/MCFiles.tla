------------------------------- MODULE MCFiles --------------------------------
(* A file, a directory with a file in it, and two requests that each may ask  *)
(* for one of these operations.                                               *)
EXTENDS Files
F == <<"f">>
D == <<"d">>
E == <<"e">>
DF == <<"d", "f">>
EF == <<"e", "f">>
MCStart == [p \in {<<>>, D, DF} |-> IF p = DF THEN 1 ELSE Dir]
Op(kind, from, to) == [kind |-> kind, from |-> from, to |-> to]
MCOperation == {
  Op("write", <<>>, DF), Op("write", <<>>, F), Op("write", <<>>, <<".h">>),
  Op("read", DF, <<>>), Op("search", <<>>, <<>>), Op("list", D, <<>>),
  Op("mkdir", <<>>, EF), Op("rename", D, E), Op("rename", DF, F),
  Op("deleteAll", D, <<>>), Op("delete", D, <<>>), Op("delete", DF, <<>>), Op("deleteAll", NoPath, <<>>), Op("delete", Outside, <<>>),
  Op("copy", DF, F), Op("copy", DF, DF), Op("copy", D, E), Op("copy", D, DF), Op("copy", D, <<"d", "e">>)}
=============================================================================

--------------------------- MODULE MCObsOperator ---------------------------
\* Instances of ObsOperator for TLC.  One caller does anything and may be
\* cancelled, the other writes or reads; the client may change to a second endpoint.
EXTENDS ObsOperator, TLC

A == <<"a">>
B == <<"b">>
Paths == <<<<"a", "">>, <<"a", "", "y">>, <<"a", "x">>, <<"b", "", "y">>, <<"b", "x">>, <<"b", "y">>>>
AllKeys == [i \in 1..Len(Paths) |-> At("e", Paths[i])] \o [i \in 1..Len(Paths) |-> At("f", Paths[i])]
Bucket == [k \in Range(AllKeys) |->
    CASE k = <<"e", "a", "x">> -> "ax" [] k = <<"e", "a", "", "y">> -> "ay"
      [] k = <<"e", "b", "x">> -> "bx" [] k = <<"f", "a", "x">> -> "fx" [] OTHER -> "none"]
AtE == "n" :> "e"

Mover == {[op |-> "rename", dir |-> TRUE, name |-> "n", src |-> A, dst |-> B],
          [op |-> "rename", dir |-> TRUE, name |-> "n", src |-> <<"a", "">>, dst |-> B],
          [op |-> "rename", dir |-> FALSE, name |-> "", src |-> <<"a", "x">>, dst |-> <<"b", "x">>],
          [op |-> "copy", name |-> "n", src |-> <<"a", "x">>, dst |-> <<"b", "y">>],
          [op |-> "delete", name |-> "n", src |-> <<"b", "">>],
          [op |-> "remove", name |-> "n", src |-> <<"a", "x">>],
          [op |-> "removeObjects", name |-> "n", keys |-> {<<"a", "x">>, <<"b", "x">>}],
          [op |-> "put", name |-> "n", src |-> <<"b", "y">>, content |-> "new", seeker |-> TRUE],
          [op |-> "exist", name |-> "n", src |-> A],
          [op |-> "get", name |-> "n", src |-> <<"a", "x">>]}
Other == {[op |-> "put", name |-> "n", src |-> <<"b", "x">>, content |-> "new", seeker |-> FALSE],
          [op |-> "upload", name |-> "n", dir |-> <<"b", "">>, files |-> <<<<"x">>, <<"y">>>>, content |-> "up"],
          [op |-> "fput", name |-> "n", src |-> <<"b", "y">>, content |-> "file"],
          [op |-> "mkdir", name |-> "n", src |-> <<"a", "">>, content |-> "marker"],
          [op |-> "download", name |-> "n", src |-> A],
          [op |-> "listAll", name |-> "n", src |-> <<"b", "">>]}
AllJobs == "m" :> Mover @@ "o" :> Other

ASSUME JobsApart == Apart
=============================================================================

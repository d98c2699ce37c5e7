----------------------------- MODULE MCLockers -----------------------------
(***************************************************************************)
(* Constants for TLC of the lockers and of the migrations (Lockers).       *)
(***************************************************************************)
EXTENDS Lockers, TLC

\* Every instance has a hostname and process id of its own.
OwnName == [i \in Instances |-> i]

----------------------------------------------------------------------------
File(name, date, number, lines, baseline, standard, creates) ==
    [name |-> name, date |-> date, number |-> number, desc |-> 1, lines |-> lines,
     baseline |-> baseline, standard |-> standard, creates |-> creates]

Comment == [is |-> "comment"]
Statement == [is |-> "sql"]
Header(v) == [is |-> "version", version |-> v]
V(n) == 2000 + n                             \* Version(2, n)
Increment(n, creates) == File(n, 2, n, <<Statement>>, FALSE, FALSE, creates)
Baseline(v, creates) == File(1, 1, 1, <<Comment, Header(V(v)), Statement>>, TRUE, TRUE, creates)

\* The old release: a baseline that covers version 2, the increments 2 and 3, a
\* baseline with another name and a file without a version in its name.
OldDDL == { Baseline(2, <<"a", "b">>),
            File(2, 1, 1, <<Header(V(5))>>, TRUE, FALSE, <<"z">>),
            Increment(2, <<"b">>),
            Increment(3, <<"c", "d">>),
            File(6, 2, 0, <<Header(V(3))>>, FALSE, FALSE, <<"y">>) }

\* The new release: its baseline covers version 3; version 4 is new, declared by
\* a header.  A header of increment 2 comes too late to count, the one of
\* increment 3 is malformed.
NewDDL == { Baseline(3, <<"a", "b", "c", "d">>),
            File(2, 2, 2, <<Comment, Statement, Header(V(4))>>, FALSE, FALSE, <<"b">>),
            File(3, 2, 3, <<Header(0), Header(V(5))>>, FALSE, FALSE, <<"c", "d">>),
            File(5, 2, 3, <<Comment, Header(V(4)), Statement>>, FALSE, FALSE, <<"e">>) }

\* The old release has no seeds or a seed without a baseline, the new release a
\* baseline and an increment.
NewSeeds == { Baseline(1, <<"s">>), Increment(2, <<"t">>) }

\* A rolling deployment: instances 1 and 2 are old, 3 is new.
RollingDDL == [i \in Runners |-> IF i = 3 THEN NewDDL ELSE OldDDL]
RollingSeeds ==
    [i \in Runners |-> IF i = 3 THEN NewSeeds
                       ELSE IF i = 2 THEN {Increment(2, <<"t">>)} ELSE {}]

\* The two releases are stages of one schema.
ASSUME ReleasesAreStages == Runner!FilesAgree
=============================================================================

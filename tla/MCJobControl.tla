----------------------------- MODULE MCJobControl -----------------------------
(***************************************************************************)
(* Small instances of JobControl for TLC.                                  *)
(***************************************************************************)
EXTENDS JobControl

\* Test case contents are numbers; content n represents n - 1 origins, so that content 1
\* has no binding the target budget accepts.
MCOrigins == [v \in Version |-> v - 1]

\* Claims of runners that opt into nothing, into owned execution, into everything.
Legacy == {NoBody}
Owned == {NoBody, [owned |-> TRUE, budget |-> FALSE, binding |-> None, seconds |-> None]}
Budgeted == {NoBody} \union
    [owned : {TRUE}, budget : BOOLEAN, binding : Version \union {None}, seconds : {None, 1, 2}]
===============================================================================

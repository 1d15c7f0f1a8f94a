------------------------------- MODULE MCChecks -------------------------------
(* Four checks, one of them the coverage check, and what runs are asked for. *)
EXTENDS Checks

Def(severity, pure, deps, outcomes) ==
    [severity |-> severity, pure |-> pure, deps |-> deps, outcomes |-> outcomes]
One == Def("error", TRUE, <<>>, {"pass", "fail", Throws})
Two == Def("warn", FALSE, <<1>>, {"skip", "warn"})
Three == Def("error", TRUE, <<2, 9>>, {"pass"})
Cov == Def("error", TRUE, <<>>, {})

\* 1 and 2 are declared; in directory 1 a provider adds 3, in directory 2 it
\* throws.
Usual == [names |-> {1, 2, 3, 9},
          declared |-> (1 :> One) @@ (2 :> Two),
          provided |-> <<<<9, 3>>, <<9, Broken>>>>,
          specs |-> <<(3 :> Three) @@ (9 :> Cov), (9 :> Cov)>>]
\* 3 and 4 depend on each other, 5 on a check nobody has, and 2 is declared
\* and provided.
Odd == [Usual EXCEPT
          !.names = @ \cup {4, 5, 6},
          !.provided = <<<<9, 3, 4, 5>>, <<3, 2>>>>,
          !.specs = <<(3 :> [Three EXCEPT !.deps = <<4>>]) @@ (4 :> [Two EXCEPT !.deps = <<3>>])
                        @@ (5 :> [Two EXCEPT !.deps = <<6>>]) @@ (9 :> Cov),
                      (3 :> Three) @@ (2 :> Two)>>]
\* The providers of directory 2 define the checks 2 and 3 of directory 1 anew:
\* 2 depends on 3 and warns, 3 is impure, depends on 1 alone and fails, and 4
\* comes in between.
Moved == [names |-> {1, 2, 3, 4},
          declared |-> 1 :> [One EXCEPT !.outcomes = {"pass", "fail"}],
          provided |-> <<<<2, 3>>, <<2, 3, 4>>>>,
          specs |-> <<(2 :> Def("error", TRUE, <<1>>, {"fail"}))
                        @@ (3 :> Def("error", TRUE, <<2>>, {"pass"})),
                      (2 :> Def("warn", TRUE, <<3>>, {"warn"}))
                        @@ (3 :> Def("error", FALSE, <<1, 4>>, {"fail"}))
                        @@ (4 :> Def("error", TRUE, <<>>, {"pass"}))>>]
MCApps == {Usual, Odd, Moved}

All == [NoRequest EXCEPT !.all = TRUE]
Lowered == (1 :> "warn") @@ (2 :> "off")
MCRequests ==
    {NoRequest, All, [All EXCEPT !.pure = TRUE],
     [All EXCEPT !.failing = TRUE, !.values = Lowered],
     [NoRequest EXCEPT !.filters = <<{3, 9}, {1, 3}>>],
     [NoRequest EXCEPT !.filters = <<{5}>>],
     [All EXCEPT !.values = (2 :> "error")]}
MCManifests == {AbsentManifest, Manifest({"a"})}

Symmetric == Permutations(Runs) \cup Permutations(Procs)

EveryCheck == {All}
UsualApp == {Usual}
NoManifest == {AbsentManifest}
=============================================================================

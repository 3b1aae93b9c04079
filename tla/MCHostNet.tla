----------------------------- MODULE MCHostNet -----------------------------
(* Small instances of HostNet for TLC. *)
EXTENDS HostNet, TLC

Flat == [builtin |-> {},
         listed  |-> ("veth" :> <<>>) @@ ("overlay" :> <<"base">>) @@ ("base" :> <<>>),
         needs   |-> ("veth" :> {}) @@ ("overlay" :> {"base"}) @@ ("base" :> {}) @@ ("low" :> {}),
         zipped  |-> {"base"},
         unzips  |-> FALSE]

\* modules.dep lists the nearest dependency first, so base comes before low.
Chain == [Flat EXCEPT !.listed = ("veth" :> <<>>) @@ ("overlay" :> <<"base", "low">>)
                                     @@ ("base" :> <<"low">>) @@ ("low" :> <<>>),
                      !.needs = [Flat.needs EXCEPT !["base"] = {"low"}],
                      !.unzips = TRUE]

Builtin == [Flat EXCEPT !.builtin = {"veth", "overlay"}, !.listed = <<>>]
Absent == [Flat EXCEPT !.listed = ("veth" :> <<>>)]
Gap == [Flat EXCEPT !.listed = ("veth" :> <<>>) @@ ("overlay" :> <<"base">>)]
MCTrees == {Flat, Chain, Builtin, Absent, Gap}

Symmetry == Permutations(Procs)
=============================================================================

------------------------------ MODULE MCMounts ------------------------------
(* Roots and volumes for checking Mounts: a root with nothing in it, one   *)
(* with a directory and files, and one with links: to a directory, out of  *)
(* the root, to what does not exist, and to each other.                    *)
EXTENDS Mounts, TLC

A == Append(Root, "a")
F == Append(Root, "f")
L(n) == Append(Root, n)

PlainTree == Root :> Dir @@ A :> Dir @@ F :> File("f")
             @@ Append(A, "f") :> File("af")

LinkTree == Root :> Dir @@ A :> Dir @@ F :> File("f")
            @@ L("l") :> Link(<<"/", "a">>)
            @@ L("m") :> Link(<<"none", "x">>)
            @@ L("o") :> Link(<<"p", "x">>) @@ L("p") :> Link(<<"o">>)
            @@ Append(A, "u") :> Link(<<"..", "..", "..", "l", "..", "f">>)
            @@ Append(A, "v") :> Link(<<"/", "l">>)

MCTrees == {Root :> Dir, PlainTree, LinkTree}

Dests == {<<"/", "a", "x">>, <<"/", "a", "y", "x">>, <<"/", "f">>,
          <<"/", "a", "f">>, <<"/", "f", "x">>, <<"..", "x">>,
          <<"/", "l", "x">>, <<"/", "a", "v", "u">>, <<"/", "m", "y">>,
          <<"/", "o", "..", "y">>}

Kinds == {[type |-> "nullfs", source |-> "dir"],
          [type |-> "nullfs", source |-> "file"],
          [type |-> "bind", source |-> "file"]}

MCVolumes == {[dest |-> d, type |-> k.type, source |-> k.source] :
                d \in Dests, k \in Kinds}

MCLists == {<<v>> : v \in MCVolumes}
           \cup {<<v, w>> : v \in MCVolumes, w \in MCVolumes}
=============================================================================

------------------------------ MODULE MCGitRepo ------------------------------
(* Two files, two branches and two callers; a new repository, one whose     *)
(* branches have gone apart, in the same file or in different ones, and one *)
(* in which a merge --continue of a branch deleted since has left .git/main. *)
EXTENDS GitRepo, TLC

CONSTANTS c1, c2, f1, f2, main, topic

MCBranches == {main, topic}
Made(n, parents, from, a, b) ==
    [parents |-> parents, from |-> from \cup {0, n}, tree |-> f1 :> a @@ f2 :> b]
NoFiles == [b \in {} |-> 0]
Parted(b, a) ==
    [commits |-> <<Made(1, <<>>, {}, None, None), Made(2, <<1>>, {1}, 1, None),
                   Made(3, <<1>>, {1}, a, b)>>,
     refs |-> main :> 2 @@ topic :> 3, shadow |-> NoFiles]
Continued(b, a) ==
    [commits |-> Parted(b, a).commits \o
                 <<Made(4, <<1>>, {1}, 2, None),
                   Made(5, <<2, 4>>, {1, 2, 4}, Marked, None)>>,
     refs |-> main :> 5 @@ topic :> 3, shadow |-> main :> 5]
MCStarts == {[commits |-> <<>>, refs |-> main :> 0, shadow |-> NoFiles],
             Parted(2, None), Parted(2, 2), Continued(2, None), Continued(2, 2)}
MCSymmetry == Permutations(Callers)
==============================================================================

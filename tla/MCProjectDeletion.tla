------------------------- MODULE MCProjectDeletion -------------------------
(***************************************************************************)
(* Instances of ProjectDeletion: a project with a thread and a side chat   *)
(* that may be forked from it.                                             *)
(***************************************************************************)
EXTENDS ProjectDeletion, TLC

CONSTANTS p, s, c1, c2, d1, d2, none

Command(id, type, thread, other) ==
    [id |-> id, type |-> type, thread |-> thread, other |-> other]

DeleteOf == [x \in ProjectIds \X Threads |->
                Command(x[1] \o ToString(x[2]), "delete", x[2], none)]

ClientCommands ==
    {Command("fork", "fork", s, p), Command("edit", "edit", p, none),
     Command("delete", "delete", p, none)}

AllCommands == ClientCommands \cup {DeleteOf[x] : x \in ProjectIds \X Threads}

DeleterSymmetry == Permutations(Deleters)
=============================================================================

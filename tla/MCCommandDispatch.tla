------------------------- MODULE MCCommandDispatch -------------------------
(***************************************************************************)
(* Instances of CommandDispatch: the commands that clients send.           *)
(***************************************************************************)
EXTENDS CommandDispatch, TLC

CONSTANTS p, q, s, d, c1, c2, none

Command(id, type, thread, other) ==
    [id |-> id, type |-> type, thread |-> thread, other |-> other]

\* A side chat is forked, created otherwise, settled, and deleted with its parent; a
\* task is delegated and followed up; two threads are forked onto each other; and
\* one id is used to change two threads.
AllCommands ==
    {Command("fork", "fork", s, p), Command("delete", "delete", p, none),
     Command("create", "create", s, none), Command("settle", "settle", s, none),
     Command("delegate", "delegate", p, d), Command("message", "message", d, none),
     Command("over", "fork", q, p), Command("back", "fork", p, q),
     Command("edit", "edit", p, none), Command("edit", "edit", s, none)}

\* One id is used for the creation of two threads, and for a settlement.
ReusedCommands ==
    {Command("create", "create", s, none), Command("create", "create", q, none),
     Command("create", "settle", p, none)}

CallerSymmetry == Permutations(Callers)
=============================================================================

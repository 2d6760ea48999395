-------------------------- MODULE MCEffectOutbox --------------------------
(***************************************************************************)
(* Small instances of EffectOutbox for TLC.                                *)
(***************************************************************************)
EXTENDS EffectOutbox, TLC

CONSTANTS e1, e2, e3, f1, f2, x1, none

FiberSymmetry == Permutations(Fibers)

OneThread == [e \in Effects |-> "t1"]

TwoThreads == [e \in Effects |-> IF e = e2 THEN "t2" ELSE "t1"]

Types(a, b, c) ==
    [e \in Effects |-> CASE e = e1 -> a [] e = e2 -> b [] e = e3 -> c]

\* A start that a stop can cancel, the stop of delegated tasks that it enqueues, which
\* has a timeout, and a title in the other lane.
LaneTypes == Types("provider-turn.start", "delegated-tasks.stop",
                   "thread-title.generate")

\* An interrupt, which dies with its process, and the awaited continuation of its run.
RestartTypes == Types("provider-turn.interrupt", "provider-runtime.continue",
                      "thread-title.generate")

\* A start that a stop can cancel, and an awaited continuation.
SettlingTypes == Types("provider-turn.start", "provider-runtime.continue",
                       "thread-title.generate")
=============================================================================

-------------------------- MODULE MCMioBoundedSend --------------------------
(* Two connections and one or two standalone tasks on a pool of two or     *)
(* three slots: a send on another task's connection, a full pool, and a    *)
(* waiter behind a larger one all happen.                                  *)
EXTENDS MioBoundedSend, TLC

CONSTANTS c1, c2, s1, s2

TwoConns == {c1, c2}

OneConn == {c1}

NoConns == {}

OneTask == {s1}

TwoTasks == {s1, s2}

Symmetry == Permutations(Conns) \union Permutations(Standalone)
=============================================================================

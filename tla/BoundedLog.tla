----------------------------- MODULE BoundedLog -----------------------------
(***************************************************************************)
(* What a rotating log promises: one log, in the order of the calls, that  *)
(* grows at the end and may be shortened at the beginning only.            *)
(***************************************************************************)
EXTENDS Naturals, Sequences

CONSTANT Messages   \* records with a field id, the number of the call

VARIABLE log

Newer(m) == \A i \in DOMAIN log : log[i].id < m.id

Init == log = <<>>

Add ==
    \E m \in Messages :
        /\ Newer(m)
        /\ log' = Append(log, m)

DropOldest ==
    \E n \in DOMAIN log : log' = SubSeq(log, n + 1, Len(log))

Next == Add \/ DropOldest

Spec == Init /\ [][Next]_log
============================================================================

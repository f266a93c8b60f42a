----------------------------- MODULE KvPromise -----------------------------
(***************************************************************************)
(* What src/kv/README.md calls a "persistent ... key-value store", for one  *)
(* client: a map that only writes change, and a table whose rows are        *)
(* brought up to date one key at a time or all at once.                     *)
(***************************************************************************)
CONSTANTS Keys, Row, NoRow

VARIABLES
    content,  \* what a get answers
    stored    \* the rows of the table

vars == <<content, stored>>

Init ==
    /\ content \in [Keys -> Row \cup {NoRow}]
    /\ stored = content

Put(k, row) ==
    /\ content' = [content EXCEPT ![k] = row]
    /\ UNCHANGED stored

Persist(k) ==
    /\ stored' = [stored EXCEPT ![k] = content[k]]
    /\ UNCHANGED content

SaveAll ==
    /\ stored' = content
    /\ UNCHANGED content

Next ==
    \/ SaveAll
    \/ \E k \in Keys :
         \/ Persist(k)
         \/ \E row \in Row \cup {NoRow} : Put(k, row)

Spec == Init /\ [][Next]_vars
=============================================================================

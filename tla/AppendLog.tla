----------------------------- MODULE AppendLog -----------------------------
(***************************************************************************)
(* What a journal promises, without bytes, files or recovery: a log of     *)
(* entries in the order they were written, one after the other with        *)
(* nothing between them.  An entry appears at the end; a crash may take a  *)
(* suffix, but never an entry that a flush has made safe; nothing else     *)
(* ever changes.                                                           *)
(***************************************************************************)
EXTENDS Naturals

CONSTANTS
    Ids,        \* names of entries, in the order they are written
    Sizes       \* bytes an entry can take

VARIABLES
    entries,    \* set of [id, from, to]: the entry `id` takes the bytes from..to-1
    safe        \* those of them no crash may take

Ends == {0} \cup {e.to : e \in entries}

\* One past the last byte of the log.
LogEnd == CHOOSE n \in Ends : \A m \in Ends : m <= n

Init == entries = {} /\ safe = {}

Append(id, size) ==
    /\ \A e \in entries : e.id < id
    /\ entries' = entries \cup {[id |-> id, from |-> LogEnd, to |-> LogEnd + size]}
    /\ UNCHANGED safe

Flush ==
    /\ safe' = entries
    /\ UNCHANGED entries

LoseSuffix(n) ==
    /\ entries' = {e \in entries : e.to <= n}
    /\ safe \subseteq entries'
    /\ UNCHANGED safe

Next ==
    \/ \E id \in Ids, size \in Sizes : Append(id, size)
    \/ Flush
    \/ \E n \in Ends : LoseSuffix(n)

Spec == Init /\ [][Next]_<<entries, safe>>

=============================================================================

------------------------------ MODULE RecordFile ------------------------------
(* The file of a one-use record (jawata-hook/src/oneshot.rs): the empty set, *)
(* or the set of the one record in it, which says when it was opened.        *)
EXTENDS Integers

\* open: what the file holds afterwards, whatever it held.
Record(what, at) == {[at |-> at, what |-> what]}

\* read_fresh: what a reader at a time finds in it. The file stays.
Fresh(file, ttl, at) == {r \in file : at - r.at < ttl}
=============================================================================

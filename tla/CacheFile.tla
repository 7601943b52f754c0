----------------------------- MODULE CacheFile -----------------------------
(***************************************************************************)
(* The JSON file with estimates, one on a line, that the local cache        *)
(* manager reads as a whole and writes from its start.                     *)
(***************************************************************************)
EXTENDS Selection, FiniteSets

Rests(s) == {SubSeq(s, k, Len(s)) : k \in 1..Len(s) + 1}

\* A file is "sound" when every line is an estimate (or punctuation), and
\* "torn" when some line is a part of one.
Sound(lines) == [state |-> "sound", lines |-> lines]
Torn == [state |-> "torn", lines |-> <<>>]
Absent == [state |-> "absent", lines |-> <<>>]

(***************************************************************************)
(* LocalCacheManager.fileHandle: the file is opened for reading and writing *)
(* and written from its start; nothing truncates it.                       *)
(***************************************************************************)

\* The outcomes of writing s over old.  Which one depends on lengths that are
\* abstracted here: s ends behind the old content, or old lines survive whole
\* behind it, or a part of a line does.  What begins with the old estimates is
\* longer for certain, and fewer of the same estimates are shorter.
Begins(s, old) == Len(old) <= Len(s) /\ SubSeq(s, 1, Len(old)) = old
Shorter(s, old) == Len(s) < Len(old) /\ Elements(s) \subseteq Elements(old)

Overwritten(s, old) ==
  IF old = <<>> \/ Begins(s, old) THEN {Sound(s)}
  ELSE {Torn} \cup {Sound(s \o rest) : rest \in Rests(Tail(old)) \ {<<>>}}
              \cup (IF Shorter(s, old) THEN {} ELSE {Sound(s)})
=============================================================================

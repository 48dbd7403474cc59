------------------------------ MODULE BinFile ------------------------------
(* storage/binstorage.go: a file that holds one JSON text. Save is            *)
(* os.WriteFile, which truncates the file before it writes, and the mutex of  *)
(* BinFileStorage is never locked: a reader, a crash and another writer may   *)
(* come between the two steps. data is Nothing for a text that does not parse *)
(* (empty, cut off, or with the end of another text behind it).               *)
EXTENDS Naturals

CONSTANT Nothing

NoFile == [exists |-> FALSE, data |-> Nothing, size |-> 0]

SavedFile(data, size) == [exists |-> TRUE, data |-> data, size |-> size]

IsExists(f) == f.exists

\* Save, first half: the directory is there, the file is created or truncated
Opened(f) == SavedFile(Nothing, 0)

\* Save, second half: a short text over a longer one leaves the longer one's end
Written(f, data, size) ==
    IF f.size <= size THEN SavedFile(data, size) ELSE [f EXCEPT !.data = Nothing]

\* Load and json.Unmarshal succeed
Loads(f) == f.exists /\ f.data # Nothing
=============================================================================

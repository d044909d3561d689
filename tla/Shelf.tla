------------------------------- MODULE Shelf --------------------------------
(***************************************************************************)
(* What an organization's readers are promised of its documents, wherever   *)
(* the bytes are kept: a document shows one content at a time, it goes on    *)
(* showing it until a new edition takes its place or it is deleted, and a    *)
(* content that was taken off the shelf never comes back.                   *)
(***************************************************************************)
CONSTANTS
  Doc,      \* documents
  Content,  \* what an upload held; each is uploaded once
  Nothing   \* nothing on this shelf: not published, deleted, or not a file

VARIABLES
  shown,    \* the content each document opens with
  taken     \* contents that were shown and are no longer

shelf == <<shown, taken>>

Init ==
  /\ shown = [d \in Doc |-> Nothing]
  /\ taken = {}

New(c) == c # Nothing => c \notin taken /\ \A d \in Doc : shown[d] # c

(* The first edition of a document, its next one, or its deletion.           *)
Show(d, c) ==
  /\ c # shown[d] /\ New(c)
  /\ shown' = [shown EXCEPT ![d] = c]
  /\ taken' = taken \cup ({shown[d]} \ {Nothing})

Next == \E d \in Doc, c \in Content \cup {Nothing} : Show(d, c)

Spec == Init /\ [][Next]_shelf
=============================================================================

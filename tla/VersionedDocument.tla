--------------------------- MODULE VersionedDocument ---------------------------
(***************************************************************************)
(* What the tabs of a document rely on: a row whose version names its        *)
(* content. A change of the content takes the next version and no row in the *)
(* trash is changed; moving a row to the trash or back changes neither. The  *)
(* server promises it (Workbook), the editor is built on it (DocumentEditor).*)
(***************************************************************************)
EXTENDS Naturals

CONSTANT Contents

VARIABLES
  version,   \* the version column
  content,   \* what the row holds
  deleted    \* the row is in the trash

documentVars == <<version, content, deleted>>

Init ==
  /\ version = 1
  /\ content \in Contents
  /\ deleted = FALSE

\* A save, a restore of an earlier version, or a change of who may see it.
Write ==
  /\ ~deleted
  /\ version' = version + 1
  /\ content' \in Contents
  /\ UNCHANGED deleted

\* Into the trash, or out of it.
Move ==
  /\ deleted' = ~deleted
  /\ UNCHANGED <<version, content>>

Next == Write \/ Move

Spec == Init /\ [][Next]_documentVars

\* Whoever has version v of the document has its content: the comparison of two versions, which
\* is all that the server and the editor ever do, is a comparison of contents.
VersionNamesContent(v, c) ==
  [](version = v /\ content = c => [](version = v => content = c))
=============================================================================

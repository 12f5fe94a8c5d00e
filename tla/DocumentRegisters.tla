--------------------------- MODULE DocumentRegisters ---------------------------
(***************************************************************************)
(* What a knowledge base promises about each of its documents: it is put     *)
(* there once, with one content; it is worked on, settles, and may be worked *)
(* on again; once deleted it is gone, whatever is still at work on it.       *)
(***************************************************************************)

CONSTANTS
  Names,       \* documents
  Contents,    \* contents
  NoContent    \* the content of a document that was not put there

VARIABLES
  life,      \* of each document: absent, pending, settled or gone
  content    \* of each document, what was uploaded

registers == <<life, content>>

Init ==
  /\ life = [d \in Names |-> "absent"]
  /\ content = [d \in Names |-> NoContent]

Put(d, c) ==
  /\ life[d] = "absent"
  /\ life' = [life EXCEPT ![d] = "pending"]
  /\ content' = [content EXCEPT ![d] = c]

\* Ready or failed.
Settle(d) ==
  /\ life[d] = "pending"
  /\ life' = [life EXCEPT ![d] = "settled"]
  /\ UNCHANGED content

\* Again, of some documents at once.
Resume(D) ==
  /\ \A d \in D : life[d] = "settled"
  /\ life' = [d \in Names |-> IF d \in D THEN "pending" ELSE life[d]]
  /\ UNCHANGED content

Remove(d) ==
  /\ life[d] \in {"pending", "settled"}
  /\ life' = [life EXCEPT ![d] = "gone"]
  /\ UNCHANGED content

Next ==
  \/ \E d \in Names : (\E c \in Contents : Put(d, c)) \/ Settle(d) \/ Remove(d)
  \/ \E D \in SUBSET Names : Resume(D)

Spec == Init /\ [][Next]_registers

\* Once d is gone it stays gone, and what was uploaded as d is never something else.
GoneForGood(d) == [](life[d] = "gone" => [](life[d] = "gone"))
ContentForGood(d, c) == [](life[d] # "absent" /\ content[d] = c => [](content[d] = c))
=============================================================================

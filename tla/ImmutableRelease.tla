-------------------------- MODULE ImmutableRelease --------------------------
(***************************************************************************)
(* What a publication promises to its readers, whatever the protocol: an   *)
(* item is absent, or complete; every part of a complete item comes from   *)
(* one writer; a complete item never changes and never disappears.         *)
(***************************************************************************)
CONSTANTS Keys,        \* the items of the release
          Parts,       \* the artifacts of one item
          Writers,     \* who may publish
          Unpublished  \* the content of an absent item

VARIABLE content       \* item -> part -> writer, or Unpublished

Init == content = [k \in Keys |-> Unpublished]

\* The item appears with all its parts at once.
PublishItem(k, w) ==
  /\ content[k] = Unpublished
  /\ content' = [content EXCEPT ![k] = [p \in Parts |-> w]]

Next == \E k \in Keys, w \in Writers : PublishItem(k, w)

Spec == Init /\ [][Next]_content

=============================================================================

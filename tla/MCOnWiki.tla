------------------------------ MODULE MCOnWiki ------------------------------
(* Options of the configuration page for model checking. *)
EXTENDS OnWiki

\* Nothing of use, names hidden, and each mask away from its default.
RawOptions == {
  [names |-> "unusable", sanctioned |-> "unusable", anonymised |-> "unusable"],
  [names |-> "hide", sanctioned |-> "hide", anonymised |-> "label"],
  [names |-> "show", sanctioned |-> "unlink", anonymised |-> "hide"]}
=============================================================================

----------------------------- MODULE MCRichEditor -----------------------------
(* Texts that share turns of the event loop or do not. *)
EXTENDS RichEditor
=============================================================================

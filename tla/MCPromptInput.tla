--------------------------- MODULE MCPromptInput ---------------------------
(* Instances of PromptInput for TLC; its constants are all bounds.         *)
EXTENDS PromptInput
=============================================================================

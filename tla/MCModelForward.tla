--------------------------- MODULE MCModelForward ---------------------------
(* Two sequences, one with a one-token prompt, one with two tokens.         *)
EXTENDS ModelForward
MCPrompt == 1 :> <<0>> @@ 2 :> <<1, 0>>
=============================================================================

----------------------------- MODULE MCSettings -----------------------------
(* Values for TLC's instance of Settings: a secret at the boundary of the mask. *)
EXTENDS Settings, TLC

MCChannels == <<"telegram">>
MCChars == {"a", "b", "c", "d"}
MCSecrets == {<<"a", "b", "c", "d">>}
MCSymmetry == Permutations(Tabs)
=============================================================================

---------------------------- MODULE MCGptCache ------------------------------
(* Small instances of GptCache: two slots, two GUIDs, two partition types.   *)
EXTENDS GptCache, TLC

TwoSlots == {1, 2}
Interchangeable == Permutations(Guids) \cup Permutations(Types)

=============================================================================

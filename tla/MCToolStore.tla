----------------------------- MODULE MCToolStore -----------------------------
(* ToolStore with callers, and fields, of which none is special. *)
EXTENDS ToolStoreReads, TLC

Interchangeable == Permutations(Callers) \cup Permutations(Fields)
OneVersion == {None, <<0, 1, 0>>}
=============================================================================

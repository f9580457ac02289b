---------------------------- MODULE MCEvolution -----------------------------
(* Two tasks; a tool the server knows and one it does not.                  *)
EXTENDS Evolution, TLC

MCPipelines == <<"first", "second">>
MCResults == {<<0, 0>>, <<1, 0>>, <<0, 1>>}
=============================================================================

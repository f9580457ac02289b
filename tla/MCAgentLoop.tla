---------------------------- MODULE MCAgentLoop -----------------------------
(* An agent with one tool of its own whitelist, an ordinary tool x and a    *)
(* risky, sensitive tool y that needs the permission named like x.          *)
EXTENDS AgentLoop, TLC

MCSetups == {<<"run", TRUE>>, <<"chat", TRUE>>, <<"chat", FALSE>>, <<"stream", TRUE>>}
MCTools == {"base", "x", "y"}
MCMaxTurns == [m \in {"run", "chat", "stream"} |-> IF m = "run" THEN 1 ELSE 2]
MCLineageOf == [t \in MCTools |-> t]
MCNeeds == ("base" :> {}) @@ ("x" :> {}) @@ ("y" :> {"x"})
=============================================================================

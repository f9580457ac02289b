---------------------------- MODULE MCMasterRun -----------------------------
(* Each strategy with and without a model, with the backends in turn, and    *)
(* masters whose sub-agents have processes of their own.                     *)
EXTENDS MasterRun, TLC

Setup(s, m, back, members, iso, b) ==
    [strategy |-> s, model |-> m, backend |-> back, team |-> members, isolated |-> iso, bus |-> b]

\* Two processes of each agent at a time, enough for one cancelled launch.
MCIdOf == [p \in {"a1", "a2", "b1", "b2"} |-> IF p \in {"a1", "a2"} THEN "a" ELSE "b"]

MCSetups == {
    Setup("summary", TRUE, "sqlite", {"a"}, {}, "none"),
    Setup("summary", FALSE, "none", {"b"}, {"b"}, "deaf"),
    Setup("lstm", TRUE, "file", {"a"}, {}, "none"),
    Setup("lstm", FALSE, "sqlite", {"a"}, {"a"}, "none"),
    Setup("full", FALSE, "none", {"a"}, {"a"}, "hosted"),
    Setup("full", TRUE, "file", {"a", "b"}, {"a"}, "heard"),
    Setup("full", FALSE, "none", {"a", "b"}, {"a", "b"}, "heard")}
=============================================================================

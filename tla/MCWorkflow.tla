----------------------------- MODULE MCWorkflow -----------------------------
(* Every plan of three steps for execute() alone; for conversations a plan   *)
(* in a row, one that joins, a cyclic one and one with a repeated id.        *)
EXTENDS Workflow, TLC

CONSTANTS s1, s2, s3

Of(pairs, isBad) ==
    [times |-> [s \in Steps |-> [d \in Steps |-> IF <<s, d>> \in pairs THEN 1 ELSE 0]],
     bad |-> isBad]

MCPlans == {Of({<<s2, s1>>, <<s3, s2>>}, FALSE), Of({<<s3, s1>>, <<s3, s2>>}, FALSE),
            Of({<<s1, s2>>, <<s2, s1>>}, FALSE), Of({}, TRUE)}

Setup(planner, l, model, old, new) ==
    [planner |-> planner, lookup |-> l, model |-> model, old |-> old, asked |-> new]

MCSetups == {Setup(FALSE, "none", FALSE, {}, {}), Setup(TRUE, "none", TRUE, {}, {"sort"}),
             Setup(TRUE, "keywords", FALSE, {"sort"}, {"sum", "report"}),
             Setup(TRUE, "json", TRUE, {"sum"}, {"sort"}),
             Setup(TRUE, "vec0", TRUE, {"report", "sort"}, {"sum"})}

MCAlike == {<<"sum", "sort">>, <<"sort", "sum">>}
=============================================================================

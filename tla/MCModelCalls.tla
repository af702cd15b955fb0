---------------------------- MODULE MCModelCalls ----------------------------
(* A small instance: an object, one in a fence, an array of objects where  *)
(* one object was asked for, and prose.                                    *)
EXTENDS ModelCalls

Text(fence, spans, cost) == [fence |-> fence, spans |-> spans, plain |-> "prose", cost |-> cost]
Span(start, json) == [start |-> start, json |-> json]

MCTexts ==
    {Text(None, {Span(1, "object")}, 1),
     Text(None, {Span(1, "array"), Span(2, "object")}, 2),
     Text("object", {Span(8, "object")}, 0),
     Text(None, {}, 4)}

Ask(services, matches, remedial, definitional) ==
    [services |-> services, matches |-> matches,
     remedial |-> remedial, definitional |-> definitional]

MCQuestions ==
    {Ask({"orders", "payments"}, {"PERFORMANCE_ANALYSIS", "ERROR_ANALYSIS"}, FALSE, FALSE),
     Ask({"orders"}, {"LOG_QUERY"}, FALSE, TRUE),
     Ask({}, {"REMEDIATION_QUESTION", "DATABASE_HEALTH"}, TRUE, TRUE),
     Ask({}, {"FULL_INVESTIGATION", "DATABASE_HEALTH"}, FALSE, TRUE),
     Ask({}, {}, FALSE, FALSE)}

Say(intent, service, rag, mcp, servers) ==
    [intent |-> intent, target_service |-> service,
     requires_rag |-> rag, requires_mcp |-> mcp, servers |-> servers]

(* Every intent, with the opposite of what the table says it needs.        *)
MCDecisions ==
    {Say(intent, NoService, ~INTENT_PLANS[intent].requires_rag,
         ~INTENT_PLANS[intent].requires_mcp, {"logs"}) : intent \in Intents}
    \cup {Say("LOG_QUERY", "payments", FALSE, TRUE, {})}

MCHints == {NoService, "orders"}

Symmetry == Permutations(Calls)
=============================================================================

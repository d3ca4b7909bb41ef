--------------------------- MODULE MCUsageReports ---------------------------
(* Three labels that differ in every field from one another or share one,   *)
(* so that each GROUP BY groups differently.  In the first release the two  *)
(* cheapest models of the family cost the same, one is cheap for input and  *)
(* dear for output, and one is listed twice.  The release changes its       *)
(* price; two others do not start.  One call has a negative number of       *)
(* tokens, and the filter "globex" does not let it through.                 *)
EXTENDS UsageReports

MCLabel(t, p, m, j) == [tenant |-> t, provider |-> p, model |-> m, project |-> j]
MCApp == MCLabel("acme", "openai", "gpt-4o", "app")
MCWeb == MCLabel("globex", "openai", "gpt-4o-mini", "web")
MCAzure == MCLabel("globex", "azure-openai", "gpt-4o", "app")
MCLabels == {MCApp, MCWeb, MCAzure}

MCModels == {"gpt-4o", "gpt-4o-mini", "o1"}
MCWords == [m \in MCModels |-> IF m = "o1" THEN {} ELSE {"gpt-4o"}]

Priced(m, in, out) == [model |-> m, in |-> in, out |-> out]
File(p, models) == [provider |-> p, models |-> models]
Azure == File("azure-openai", <<Priced("gpt-4o", 1, 5), Priced("gpt-4o-mini", 2, 2)>>)
MCFiles ==
    << Azure, File("openai", <<Priced("gpt-4o", 1, 1), Priced("o1", 1, 1),
                               Priced("gpt-4o-mini", 2, 2), Priced("gpt-4o", 4, 4)>>) >>
MCReleases == {
    << Azure, File("openai", <<Priced("gpt-4o", 9, 3), Priced("gpt-4o-mini", 2, 2)>>) >>,
    << Azure, Azure >>,
    << File("openai", <<>>) >> }
MCCall(label, in, out) == [label |-> label, in |-> in, out |-> out]
MCCalls == {MCCall(MCApp, 2, 2), MCCall(MCApp, 1, -3), MCCall(MCWeb, 1, 1), MCCall(MCAzure, 1, 2)}
=============================================================================

------------------------------- MODULE MCRunner ------------------------------
EXTENDS Runner

Desc(name, enabled, tags, fn) == [name |-> name, enabled |-> enabled, tags |-> tags, fn |-> fn]

MCRegistrations == << Desc("a", TRUE, {"s"}, TRUE), Desc("b", FALSE, {"x"}, TRUE),
                      Desc("c", TRUE, {"s", "x"}, FALSE), Desc("a", TRUE, {"x"}, TRUE),
                      Desc("d", TRUE, {}, TRUE) >>
MCPlanCalls     == { << "d", "a" >>, << "c", "b", "u", "c" >> }
MCTagCalls      == { [tags |-> {"s", "y"}, include_disabled |-> FALSE],
                     [tags |-> {"x"}, include_disabled |-> TRUE], [tags |-> {"y"}, include_disabled |-> TRUE] }
MCAfterNames    == {"a", "b", "c", "u"}
=============================================================================

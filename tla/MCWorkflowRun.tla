--------------------------- MODULE MCWorkflowRun ---------------------------
(* Four compiled cards with every kind of step: a destructive tool before  *)
(* a review; a tool in a nested card with an error branch; a condition that*)
(* may skip a review; a delay before a tool that may be repeated.          *)
EXTENDS WorkflowRun

Step(kind, next, alt, tries, safe, esc) ==
  [kind |-> kind, next |-> next, alt |-> alt, tries |-> tries, safe |-> safe,
   esc |-> esc]
End == Step("end", 0, 0, 1, TRUE, 0)

MCSteps == 1 .. 4
MCPrograms == {
  <<Step("mcp", 2, 0, 2, FALSE, 0), Step("ai", 3, 0, 1, TRUE, 0), End, End>>,
  <<Step("mcp", 3, 2, 1, TRUE, 3), Step("card", 3, 3, 1, TRUE, 0), End, End>>,
  <<Step("branch", 2, 3, 1, TRUE, 0), Step("ai", 3, 3, 1, TRUE, 0),
    Step("delay", 4, 0, 1, TRUE, 0), End>>,
  <<Step("mcp", 2, 0, 2, TRUE, 0), End, End, End>> }

(* Three events in the short cards, one where a retry has two attempts.    *)
MCEvents == [p \in MCPrograms |-> IF p[1].kind = "mcp" /\ p[1].tries = 2 /\ p[1].safe
                                  THEN 1 ELSE 3]
=============================================================================

----------------------------- MODULE MCWorkItems -----------------------------
EXTENDS WorkItems

\* A POST whose answer is lost beside one other trouble or two, and the troubles
\* of a run that was accepted together.
MCWorlds ==
  {{"answer", "ask"}, {"answer", "stop"}, {"answer", "die"}, {"answer", "trace", "vanish"},
   {"answer", "control", "restart"}, {"ask", "stop", "die", "control"},
   {"ask", "restart"}, {"stop", "restart"}, {"ask", "trace", "vanish"},
   {"stop", "trace", "vanish"},
   {"pause", "cancel"}, {"pause", "stop", "control"}, {"pause", "die", "vanish"},
   {"pause", "restart"}}

=============================================================================

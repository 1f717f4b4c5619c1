---------------------------- MODULE MCSwitchHost ----------------------------
(* SwitchHost on small instances.                                           *)
EXTENDS SwitchHost

\* What a player holds at once: nothing, one button, or a button with B.
ResetGrips == {{}, {"zlzr"}, {"A"}, {"Up"}}
MenuGrips == {{}, {"zlzr"}, {"lrminus"}, {"A"}, {"B"}, {"Down"}, {"Left"}, {"A", "B"}}
SaveRows == {5, 6}
MenuRows == {0, 2, 4, 5, 6}
=============================================================================

--------------------------- MODULE MCDesktopLoop ----------------------------
(* DesktopLoop on small instances.                                          *)
EXTENDS DesktopLoop

Boot == {<<>>}
FormerFile == <<0, 0>>
AllKeys == {{}, {"rewind"}, {"ff"}, {"save"}, {"load"}}
NoMenu == {{}}
NativeMenu == {{}, {"save"}}
AllChords == {"none", "one", "both"}
NoChord == {"none"}
AllViews == {"in", "alt", "out"}
InView == {"in"}
NoKeys == {{}}
TimeKeys == {{}, {"rewind"}, {"ff"}, {"load"}}
AllClicks == {"save", "load", "resume", "quit", "assist", "slot"}
=============================================================================

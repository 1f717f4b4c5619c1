---------------------------- MODULE WindowsKeys -----------------------------
(***************************************************************************)
(* The keyboard of the Windows host (desktop_main.c, windows_menu.c,       *)
(* windows_input.c).  The game reads the keys that are down at the moment  *)
(* it asks and the presses its window was told of since it last asked.     *)
(* Around both lie the window's messages, the native menu's loop, the      *)
(* About box, the overlay and other programs' windows; keys held when a    *)
(* menu is left or the focus is lost are withheld until they are up.       *)
(*                                                                         *)
(* A message is the key that went down, a menu command, "menu" when the    *)
(* player goes into the native menu and "kill" when the focus is lost.     *)
(* Gamepads, the performance log's key and fullscreen are left out.        *)
(***************************************************************************)
EXTENDS Integers, Sequences

CONSTANTS Keys,       \* the keyboard
          Escape,     \* the key of the overlay
          Room,       \* commands the menu's queue holds (16)
          MaxMail     \* bound on the messages that wait

Commands == {"pause", "about"}

ASSUME KeyboardAssumption ==
  /\ Escape \in Keys /\ {"menu", "kill"} \cap Keys = {} /\ Commands \cap Keys = {}
  /\ Room \in Nat /\ MaxMail \in Nat

VARIABLES
  phase,      \* of the loop: "pump", "commands", "box", "frame"
  down,       \* GetAsyncKeyState
  front,      \* GetForegroundWindow is the game's window
  mail,       \* the messages that wait for it
  in_menu, blocked_keys,      \* of the native menu
  commands,   \* the commands between read_command and write_command
  taps,       \* s_key_taps
  overlay,    \* the overlay is open
  seen,       \* the keys the last frame was given
  stale,      \* history: held since the last transition
  told,       \* history: pressed since it, or since the last read
  foreign     \* history: pressed in front of another window, still held

history == <<stale, told, foreign>>
keyVars == <<phase, down, front, mail, in_menu, blocked_keys, commands, taps, overlay, seen,
             history>>

Messages == Keys \cup Commands \cup {"menu", "kill"}

KeysTypeOK ==
  /\ phase \in {"pump", "commands", "box", "frame"}
  /\ front \in BOOLEAN /\ in_menu \in BOOLEAN /\ overlay \in BOOLEAN
  /\ mail \in Seq(Messages) /\ commands \in Seq(Commands)
  /\ down \subseteq Keys /\ blocked_keys \subseteq Keys /\ taps \subseteq Keys
  /\ seen \subseteq Keys /\ stale \subseteq Keys /\ told \subseteq Keys
  /\ foreign \subseteq Keys

KeysInit ==
  /\ phase = "pump" /\ front = TRUE /\ in_menu = FALSE /\ overlay = FALSE
  /\ mail = <<>> /\ commands = <<>>
  /\ down = {} /\ blocked_keys = {} /\ taps = {} /\ seen = {}
  /\ stale = {} /\ told = {} /\ foreign = {}

-----------------------------------------------------------------------------
\* The player.  The menu's loop and other windows take the keys for themselves.
Mail(m) == Len(mail) < MaxMail /\ mail' = Append(mail, m)            \* bound

Press(k) ==
  /\ k \notin down /\ down' = down \cup {k}
  /\ IF front /\ ~in_menu THEN Mail(k) ELSE UNCHANGED mail
  /\ foreign' = IF front THEN foreign ELSE foreign \cup {k}
  /\ UNCHANGED <<phase, front, in_menu, blocked_keys, commands, taps, overlay, seen,
                 stale, told>>

Release(k) ==
  /\ k \in down /\ down' = down \ {k}
  /\ stale' = stale \ {k} /\ foreign' = foreign \ {k}
  /\ UNCHANGED <<phase, front, mail, in_menu, blocked_keys, commands, taps, overlay, seen, told>>

ToMenu ==
  /\ front /\ ~in_menu /\ Mail("menu")
  /\ UNCHANGED <<phase, down, front, in_menu, blocked_keys, commands, taps, overlay, seen, history>>

GoAway ==
  /\ front /\ ~in_menu /\ Mail("kill") /\ front' = FALSE
  /\ UNCHANGED <<phase, down, in_menu, blocked_keys, commands, taps, overlay, seen, history>>

\* The host does nothing when the focus comes back.
ComeBack ==
  /\ ~front /\ phase # "box" /\ front' = TRUE
  /\ UNCHANGED <<phase, down, mail, in_menu, blocked_keys, commands, taps, overlay, seen, history>>

-----------------------------------------------------------------------------
\* Mutant: the keys held when the menu is left are not captured.
CaptureOnEntry ==
  /\ blocked_keys' = IF in_menu THEN blocked_keys ELSE down
  /\ taps' = {}

\* A transition: MenuProc captures the held keys, WindowProcedure forgets the
\* taps.
Capture == blocked_keys' = down /\ taps' = {}

Transition == Capture /\ stale' = down /\ told' = {} /\ UNCHANGED foreign

Handling == ~in_menu /\ phase \in {"pump", "box", "frame"} /\ mail # <<>>

\* The overlay toggles on Escape and keeps the other keys while it is open.
KeyMessage(k) ==
  /\ overlay' = IF k = Escape THEN ~overlay ELSE overlay
  /\ IF overlay \/ k = Escape THEN UNCHANGED <<taps, told>>
     ELSE taps' = taps \cup {k} /\ told' = told \cup {k}
  /\ UNCHANGED <<blocked_keys, commands, in_menu, stale, foreign>>

CommandMessage(c) ==
  /\ commands' = IF Len(commands) < Room THEN Append(commands, c) ELSE commands
  /\ UNCHANGED <<blocked_keys, taps, overlay, in_menu, history>>

\* The menu's loop runs within the message that opens it; the window of an
\* open box takes no such message.
MenuMessage ==
  /\ IF phase = "box" THEN UNCHANGED <<in_menu, blocked_keys, taps, history>>
     ELSE in_menu' = TRUE /\ Transition
  /\ UNCHANGED <<commands, overlay>>

\* PumpMessages, at the top of the loop and while a frame waits, and the box's
\* own loop.
Handle ==
  /\ Handling /\ mail' = Tail(mail)
  /\ \/ Head(mail) \in Keys /\ KeyMessage(Head(mail))
     \/ Head(mail) \in Commands /\ CommandMessage(Head(mail))
     \/ Head(mail) = "menu" /\ MenuMessage
     \/ Head(mail) = "kill" /\ Transition /\ UNCHANGED <<commands, overlay, in_menu>>
  /\ UNCHANGED <<phase, down, front, seen>>

\* The menu is left, with a command or without.
MenuEnds ==
  /\ in_menu /\ in_menu' = FALSE /\ Transition
  /\ \/ UNCHANGED mail
     \/ \E c \in Commands : Mail(c)
  /\ UNCHANGED <<phase, down, front, commands, overlay, seen>>

Pumped ==
  /\ phase = "pump" /\ ~in_menu /\ mail = <<>> /\ phase' = "commands"
  /\ UNCHANGED <<down, front, mail, in_menu, blocked_keys, commands, taps, overlay, seen, history>>

\* ApplyMenuCommands.  The About box takes the focus at once.
Command ==
  /\ phase = "commands" /\ commands # <<>> /\ commands' = Tail(commands)
  /\ IF Head(commands) = "about"
     THEN /\ phase' = "box" /\ front' = FALSE /\ UNCHANGED overlay
          /\ IF front THEN Transition ELSE UNCHANGED <<blocked_keys, taps, history>>
     ELSE /\ overlay' = ~overlay
          /\ UNCHANGED <<phase, front, blocked_keys, taps, history>>
  /\ UNCHANGED <<down, mail, in_menu, seen>>

\* It is closed by the press of a key or by the mouse, or behind another
\* window.
BoxEnds ==
  /\ phase = "box" /\ phase' = "commands" /\ front' \in BOOLEAN
  /\ UNCHANGED <<down, mail, in_menu, blocked_keys, commands, taps, overlay, seen, history>>

\* Dkc2WindowsMenuBlocksInput, when the window is in front.
StillBlocked == blocked_keys \cap down

\* ReadControls: the keys of the frame, and the taps are forgotten.
ReadControls ==
  /\ phase = "commands" /\ commands = <<>> /\ phase' = "frame"
  /\ blocked_keys' = IF front THEN StillBlocked ELSE blocked_keys
  /\ seen' = IF ~front \/ StillBlocked # {} \/ overlay \/ Escape \in down \cup taps THEN {}
             ELSE down \cup taps
  /\ taps' = {} /\ told' = {}
  /\ UNCHANGED <<down, front, mail, in_menu, commands, overlay, stale, foreign>>

FrameEnds ==
  /\ phase = "frame" /\ ~in_menu /\ phase' = "pump" /\ seen' = {}
  /\ UNCHANGED <<down, front, mail, in_menu, blocked_keys, commands, taps, overlay, history>>

KeysNext ==
  \/ \E k \in Keys : Press(k) \/ Release(k)
  \/ ToMenu \/ GoAway \/ ComeBack
  \/ Handle \/ MenuEnds \/ Pumped \/ Command \/ BoxEnds \/ ReadControls \/ FrameEnds

KeysSpec == KeysInit /\ [][KeysNext]_keyVars

-----------------------------------------------------------------------------
\* While a key is down that was held when the native menu was entered or left
\* or the focus was lost, the game is given nothing; and it is given a key
\* that is up only for a press after the last such transition.
KeysAreFresh ==
  [][ReadControls => /\ seen' # {} => stale = {}
                     /\ seen' \subseteq down \cup told]_keyVars

\* A key that went down in another window, and was never up since, is not
\* given to the game once the window has handled its messages.
ForeignIsStale == [][ReadControls /\ mail = <<>> /\ seen' # {} => foreign = {}]_keyVars
=============================================================================

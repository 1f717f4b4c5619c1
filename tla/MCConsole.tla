------------------------------ MODULE MCConsole ------------------------------
(* Console, sound, picture and pacing parts that share no state, each       *)
(* explored on its own small instance: `part` is the one a behaviour is     *)
(* about, the others keep their initial state.  The console's clock has     *)
(* four parts, one for each group of registers its programs use.            *)
EXTENDS SnesIo, HdmaScan, MusicPolicy, MsuPlayer, FramePacing, PlaneGate,
        VideoPorts, WideWindow

VARIABLE part

Clocks == {"interrupts", "arithmetic", "controllers", "hdma"}

consoleVars == <<ioVars, scanVars, musicVars, msuVars, pacingVars, gateVars, portVars,
                windowVars, part>>

-----------------------------------------------------------------------------
(* The clock: lines of 6 cycles, 4 to a frame; the timers lie at a line's    *)
(* start, within one, and beyond the frame.                                  *)
Timers == {[htime |-> 0, vtime |-> 1], [htime |-> 1, vtime |-> 3],
           [htime |-> 3, vtime |-> 0], [htime |-> 2, vtime |-> 9]}
Costs == {1, 3, 8}
Operations ==
  [interrupts |-> [kind : {"nmitimen"}, nmi : 0 .. 1, irq : 0 .. 3, joy : {0}]
                  \cup [kind : {"timer"}, htime : {1}, vtime : {1}]
                  \cup [kind : {"rdnmi", "timeup", "wait", "nop"}] \cup [kind : {"mask"}, value : 0 .. 1],
   arithmetic |-> [kind : {"wrmpya", "wrdiv", "wrmpyb", "wrdivb"}, value : {0, 3}],
   controllers |-> [kind : {"nmitimen"}, nmi : {0}, irq : {0}, joy : 0 .. 1]
                   \cup [kind : {"strobe"}, value : 0 .. 1] \cup [kind : {"serial"}],
   hdma |-> [kind : {"hdmaen"}, value : 0 .. 1] \cup [kind : {"nop", "unsupported"}]]

\* Three lines repeated, then two with one transfer, then the end.
LayerTable == [a \in 0 .. BankSize - 1 |-> IF a = 0 THEN RepeatBit + 1 ELSE IF a < 4 THEN a ELSE 0]
LayerChannels ==
  [table : {0}, indirect : {0}, target : {"layers"}, on : {1}, reverse : 0 .. 1]

ClockNext ==
  \/ IoNext(Operations[part], Costs)
  \/ part = "controllers" /\ \E p \in PadValues : SetController(p)

-----------------------------------------------------------------------------
(* HDMA tables of five bytes, a scroll channel, direct or indirect, and one  *)
(* for the layers, on or off.                                                *)
Content == {0, 2, 4, 6}
Memories == [0 .. BankSize - 1 -> Content]
Channel(t, ind, target, on) ==
  [table |-> t, indirect |-> ind, target |-> target, on |-> on, reverse |-> 0]
Setups == {<<Channel(0, i, "scroll", 1), Channel(2, 0, "layers", o)>> : i, o \in 0 .. 1}

Folders == {{1}, {1, 21}}
Files == [total : 1 .. 4, loopFrame : 0 .. 4, loops : 0 .. 1]
WrapMaps == {m \in Map : \A p \in Pages : m[p] = 1}
ObjectMaps == {m \in Map : m[1] = 0 /\ \E p \in Pages : m[p] = 1}

\* A frame writes at most one page, and a level is entered without a write.
PlaneNext ==
  \/ \E p \in Pages, c \in Contents, x \in Places :
        RunFrame({p}, [world.map EXCEPT ![p] = c], world.level, x)
  \/ \E l \in Levels, x \in Places : RunFrame({}, world.map, l, x)
  \/ SaveWorld \/ \E cleared \in 0 .. 1 : LoadWorld(cleared)
  \/ Draw

-----------------------------------------------------------------------------
(* The ports: bytes of 4 values, banks of 16 addresses, two banks of ROM.    *)
(* Transfers run into the end of a bank, of a table and of a memory, forwards *)
(* and backwards, a whole bank long, and through both remaps.                *)
Image == [o \in 0 .. 2 * BankLength - 1 |-> (o + o \div 4 + o \div 16) % ByteRange]
VramControls == [b \in 0 .. ByteRange - 1 |->
            [afterHigh |-> IF b = 0 THEN 0 ELSE 1, remap |-> IF b < 2 THEN 0 ELSE b - 1,
             step |-> IF b = 1 THEN 1 ELSE 0]]

Plain == [mode |-> 0, fixed |-> 0, down |-> 0, reverse |-> 0,
          to |-> 34, bank |-> 192, offset |-> 3, size |-> 5]
Transfers ==
  {Plain, [Plain EXCEPT !.reverse = 1],
   [Plain EXCEPT !.mode = 1, !.to = 24, !.bank = 127, !.down = 1, !.size = 0],
   [Plain EXCEPT !.mode = 3, !.to = 13, !.bank = 0, !.offset = 9, !.fixed = 1],
   [Plain EXCEPT !.mode = 4, !.to = 131, !.bank = 32, !.offset = 0, !.size = 7],
   [Plain EXCEPT !.bank = 32, !.offset = 1]}

ToVram(control, start, from, size) ==
  [to |-> "vram", start |-> start, control |-> control,
   bank |-> 193, from |-> from, down |-> 0, size |-> size]
UploadSample ==
  {ToVram(1, 1, 2, 6), ToVram(2, 0, 2, 0), ToVram(3, 3, 5, 13)} \cup
  {[to |-> t[1], start |-> t[2], control |-> 0, bank |-> t[3],
    from |-> t[4], down |-> t[5], size |-> t[6]] :
   t \in {<<"oam", 3, 192, 1, 0, 6>>, <<"oam", 5, 193, 14, 0, 4>>,
          <<"cgram", 2, 64, 14, 0, 5>>, <<"cgram", 0, 128, 15, 1, 8>>,
          <<"wram", 30, 129, 11, 0, 5>>, <<"wram", 18, 192, 0, 1, 0>>}}
Banks == {0, 32, 63, 64, 126, 127, 128, 160, 192, 193, 255}
CornerSample == [bank : Banks, offset : {0, 1, 3, 6, 7, 8, 15}]
Ports == {2, 3, 4, 13, 14, 15, 21, 23, 24, 25, 27, 28, 33, 34, 128, 130, 131}

Stores == Ports \X {1, 3}
ByteStores == [bank : {0, 32}, offset : {1, 3, 7, 8}] \X {2}

-----------------------------------------------------------------------------
\* The initial choices of the parts that are not explored are made alike.
FirstOf(file0) == file0.total = 1 /\ file0.loopFrame = 0 /\ file0.loops = 0
Chosen ==
  /\ part \notin Clocks => io.htime = 0 /\ io.channel.reverse = 0
  /\ part \in Clocks \ {"interrupts"} => io.vtime = 1
  /\ part \in Clocks \ {"hdma"} => io.channel.reverse = 0
  /\ part # "track" => FirstOf(file)
  /\ part # "pacing" => style = "sdl"
  /\ part # "window" => edge = "bars" /\ extra = 0
  /\ world.map \in WrapMaps

ScanStart ==
  IF part = "scan" THEN ScanInit(Memories, Setups)
  ELSE ScanInit({LayerTable}, {<<Channel(0, 0, "scroll", 1)>>})

ConsoleInit ==
  /\ part \in Clocks \cup {"scan", "music", "track", "pacing", "plane", "ports", "window"}
  /\ IoInit(Timers, {0}) /\ MusicInit /\ MsuInit /\ PacingInit /\ GateInit /\ PortsInit
  /\ WindowInit
  /\ Chosen
  /\ ScanStart

\* All of the parts but p stay as they are.
Only(p) ==
  /\ part = p
  /\ p # "scan" => UNCHANGED scanVars
  /\ p # "music" => UNCHANGED musicVars
  /\ p # "track" => UNCHANGED msuVars
  /\ p # "pacing" => UNCHANGED pacingVars
  /\ p # "plane" => UNCHANGED gateVars
  /\ p # "ports" => UNCHANGED portVars
  /\ p # "window" => UNCHANGED windowVars
  /\ p \notin Clocks => UNCHANGED ioVars

ConsoleNext ==
  /\ UNCHANGED part
  /\ \/ \E p \in Clocks : Only(p) /\ ClockNext
     \/ Only("scan") /\ ScanStep
     \/ Only("music") /\ MusicNext
     \/ Only("track") /\ MsuNext
     \/ Only("pacing") /\ PacingNext
     \/ Only("plane") /\ PlaneNext
     \/ Only("ports") /\ PortsNext(Stores, ByteStores, 1 .. 3)
     \/ Only("window") /\ WindowNext

\* The types of the part that moves.
ConsoleTypeOK ==
  CASE part \in Clocks -> IoTypeOK
    [] part = "scan" -> ScanTypeOK
    [] part = "music" -> MusicTypeOK
    [] part = "track" -> MsuTypeOK
    [] part = "pacing" -> PacingTypeOK
    [] part = "ports" -> PortsTypeOK
    [] part = "window" -> WindowTypeOK
    [] OTHER -> GateTypeOK

ConsoleSpec == ConsoleInit /\ [][ConsoleNext]_consoleVars
=============================================================================

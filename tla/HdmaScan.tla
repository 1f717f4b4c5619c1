------------------------------ MODULE HdmaScan ------------------------------
(***************************************************************************)
(* One frame seen twice: Dkc2HdmaScanBands foretells, before the frame is  *)
(* drawn, what every line will show; the console draws each line and then  *)
(* runs its HDMA.  A step of this module is one scanline of both.          *)
(***************************************************************************)
EXTENDS HdmaTables

CONSTANT LastLine           \* the last rendered line, 224 in the code

ASSUME LineAssumption == LastLine \in Nat

VARIABLES
    tables,     \* the bank the channels read
    setup,      \* the channels' configuration at the start of the frame
    line,       \* the line both have reached
    console,    \* the console's channels
    screen,     \* the console's registers
    shown,      \* what each rendered line was drawn with
    scan,       \* the dry run's channels
    foreseen,   \* the dry run's registers
    bands,      \* the bands it has recorded
    parted      \* history: a table has met one of the encodings they read apart

scanVars == <<tables, setup, line, console, screen, shown, scan, foreseen, bands, parted>>

Channels == DOMAIN setup

\* The latch is not part of what a line shows, and bands do not record it.
Visible(regs) == <<regs.high, regs.low, regs.layers>>

ScanInit(memories, setups) ==
    /\ tables \in memories
    /\ setup \in setups
    /\ line = 0
    /\ console = [c \in Channels |-> initialize_hdma(setup[c], IdleChannel)]
    /\ screen = [high |-> 0, low |-> 0, prev |-> 0, layers |-> 0]
    /\ foreseen = screen
    /\ scan = [c \in Channels |-> StartChannel(setup[c])]
    /\ shown = <<>>
    /\ bands = <<>>
    /\ parted = FALSE

\* Channels run in ascending order and share the registers.
ConsoleLine ==
    LET run(c, given) == run_hdma_channel(tables, setup[c], console[c], given)
        regs[c \in 0 .. Len(setup)] == IF c = 0 THEN screen ELSE run(c, regs[c - 1]).regs
    IN [regs |-> regs[Len(setup)],
        channels |-> [c \in Channels |-> run(c, regs[c - 1]).s]]

ScanLine ==
    LET step(c, given) == Dkc2HdmaStepChannel(tables, setup[c], scan[c], given)
        regs[c \in 0 .. Len(setup)] == IF c = 0 THEN foreseen ELSE step(c, regs[c - 1]).regs
    IN [regs |-> regs[Len(setup)],
        channels |-> [c \in Channels |-> step(c, regs[c - 1]).channel]]

\* Mutant: a band is continued without a look at its scroll.
Dkc2HdmaBandMatchesLayers == bands # <<>> /\ Last(bands).regs[3] = foreseen.layers
Dkc2HdmaBandMatches == bands # <<>> /\ Last(bands).regs = Visible(foreseen)

RecordBand ==
    IF line = 0 THEN bands
    ELSE IF Dkc2HdmaBandMatches
    THEN [bands EXCEPT ![Len(bands)].last = line]
    ELSE Append(bands, [first |-> line, last |-> line, regs |-> Visible(foreseen)])

\* The dry run gave a channel up while the console still reads its table:
\* the store ended, where the console's address wraps within the bank.
RanOff == \E c \in Channels : scan[c].table = Nowhere /\ console[c].active = 1

\* A descriptor of RepeatBit alone is 128 repeated lines for the console; the
\* dry run's count loses the repeat bit at the first decrement.
LongRepeat == \E c \in Channels : console[c].lines + 1 >= RepeatBit /\ console[c].repeat = 1

ScanStep ==
    /\ line <= LastLine
    /\ bands' = RecordBand
    /\ shown' = IF line = 0 THEN shown ELSE Append(shown, Visible(screen))
    /\ LET c == ConsoleLine IN screen' = c.regs /\ console' = c.channels
    /\ LET s == ScanLine IN foreseen' = s.regs /\ scan' = s.channels
    /\ line' = line + 1
    /\ UNCHANGED <<tables, setup>>
    /\ parted' = (parted \/ RanOff' \/ LongRepeat')

\* What a program may set the channels up for: transfers towards the A-bus are
\* not supported.
ChannelSetup ==
    [table : 0 .. BankSize - 1, indirect : 0 .. 1, target : {"scroll", "layers"},
     on : 0 .. 1, reverse : {0}]

ScanSpec ==
    /\ ScanInit([0 .. BankSize - 1 -> Bytes], Seq(ChannelSetup))
    /\ [][ScanStep]_scanVars

Dkc2HdmaBandForLine(y) == CHOOSE b \in Range(bands) : b.first <= y /\ y <= b.last

-----------------------------------------------------------------------------
(* Properties.                                                             *)

ScanTypeOK ==
    /\ line \in 0 .. LastLine + 1
    /\ screen \in Registers /\ foreseen \in Registers
    /\ \A c \in Channels :
         /\ console[c].lines \in 0 .. RepeatBit
         /\ console[c].next \in 0 .. BankSize - 1
         /\ scan[c].table \in 0 .. Nowhere
         /\ scan[c].count \in Bytes

\* The bands foretell every line: a line is drawn by the console with the
\* values of the band the scan put it in, for every table, direct or indirect,
\* with both channels writing, until a channel meets one of the two encodings
\* on which the two readers differ.
ScanForetells ==
    ~ parted =>
        \A y \in 1 .. Len(shown) : Dkc2HdmaBandForLine(y).regs = shown[y]
=============================================================================

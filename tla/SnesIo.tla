------------------------------- MODULE SnesIo -------------------------------
(***************************************************************************)
(* The analysis core's clock: dkc2_snes_io_advance_master_cycles moves the *)
(* beam by any number of master cycles at once and must raise, on the way, *)
(* every event the beam passes -- timer matches, HBlank's HDMA, VBlank's   *)
(* NMI and controller poll, the end of a multiplication.  dkc2_boot runs   *)
(* an instruction, pays its cycles, and looks at the latches.              *)
(***************************************************************************)
EXTENDS HdmaTables, FiniteSetsExt

CONSTANTS
    LineCycles, Lines,           \* 1364 and 262
    HBlankStart, VBlankStart,    \* 1096 and 225
    DotCycles,                   \* master cycles per unit of HTIME, 4
    JoyCycles,                   \* 4224
    MulCycles, DivCycles,        \* 48 and 96
    MaxWord,                     \* 65535
    PadValues,                   \* a pad's button masks, numbers below PadRange
    PadRange,                    \* 65536: the serial shift register's range
    Payments,                    \* numbers of cycles paid at once, to compare
    HdmaMemory, HdmaChannels     \* the bank HDMA reads, and the channel's configurations

ASSUME TimingAssumption ==
    /\ LineCycles \in Nat /\ Lines \in Nat
    /\ HBlankStart \in 1 .. LineCycles - 1 /\ VBlankStart \in 1 .. Lines - 1
    /\ DotCycles \in Nat \ {0} /\ MaxWord \in Nat
    /\ JoyCycles \in Nat \ {0} /\ DivCycles \in Nat /\ MulCycles \in 1 .. DivCycles
    /\ PadRange \in Nat \ {0} /\ PadValues \subseteq 0 .. PadRange - 1 /\ Payments \subseteq Nat

VARIABLES
    io,         \* dkc2_snes_io
    cpu,        \* waiting and the interrupt mask of dkc2_cpu
    stage,      \* "running" until dkc2_boot's loop ends
    sum,        \* history: the arithmetic last asked for, its age and the result before it
    waited      \* history: the lines a waiting CPU has let pass

ioVars == <<io, cpu, stage, sum, waited>>

-----------------------------------------------------------------------------
(* The clock.                                                              *)

irq_h_time(s) == s.htime * DotCycles

\* The modes of $4200: 1 horizontal, 2 vertical, 3 both.
check_irq_at_scanline_start(s) ==
    IF \/ s.irq = 1 /\ s.htime = 0
       \/ s.irq = 2 /\ s.v = s.vtime
       \/ s.irq = 3 /\ s.htime = 0 /\ s.v = s.vtime
    THEN [s EXCEPT !.timeup = 1] ELSE s

\* Mutant: a match at which the cycles end is missed.
PassesHTimeBefore(s, new_h) ==
    /\ s.irq = 1 \/ (s.irq = 3 /\ s.v = s.vtime)
    /\ irq_h_time(s) # 0 /\ irq_h_time(s) < LineCycles
    /\ s.h < irq_h_time(s) /\ new_h > irq_h_time(s)

PassesHTime(s, new_h) ==
    /\ s.irq = 1 \/ (s.irq = 3 /\ s.v = s.vtime)
    /\ irq_h_time(s) # 0 /\ irq_h_time(s) < LineCycles
    /\ s.h < irq_h_time(s) /\ new_h >= irq_h_time(s)

run_hdma_scanline(s) ==
    LET r == run_hdma_channel(HdmaMemory, [s.channel EXCEPT !.on = s.hdmaOn],
                              s.hdma, s.regs)
    IN [s EXCEPT !.hdma = r.s, !.regs = r.regs, !.barrier = Max({@, r.blocked})]

AtHBlank(s, new_h) ==
    IF s.v < VBlankStart /\ s.h < HBlankStart /\ new_h >= HBlankStart
    THEN run_hdma_scanline(s) ELSE s

advance_autojoy(s, cycles) ==
    CASE s.joyLeft = 0 -> s
      [] s.joyLeft > 0 /\ cycles >= s.joyLeft -> [s EXCEPT !.joyLeft = 0, !.joy = s.pad]
      [] OTHER -> [s EXCEPT !.joyLeft = @ - cycles]

\* $4214 holds a quotient, $4216 a product or a remainder.
finish_cpu_math(s) ==
    IF s.divides = 0 THEN [s EXCEPT !.product = s.left * s.right]
    ELSE IF s.right = 0 THEN [s EXCEPT !.quotient = MaxWord, !.product = s.left]
    ELSE [s EXCEPT !.quotient = s.left \div s.right, !.product = s.left % s.right]

advance_cpu_math(s, cycles) ==
    CASE s.mathLeft = 0 -> s
      [] s.mathLeft > 0 /\ cycles >= s.mathLeft -> finish_cpu_math([s EXCEPT !.mathLeft = 0])
      [] OTHER -> [s EXCEPT !.mathLeft = @ - cycles]

StartFrame(s) ==
    [s EXCEPT !.hdma = initialize_hdma([s.channel EXCEPT !.on = s.hdmaOn], s.hdma)]

StartVBlank(s) ==
    [s EXCEPT !.nmiFlag = 1,
              !.nmiPending = IF s.nmiOn = 1 THEN 1 ELSE @,
              !.shift = IF s.joyOn = 1 THEN s.pad ELSE @,
              !.joyLeft = IF s.joyOn = 1 THEN JoyCycles ELSE @]

begin_scanline(s) ==
    check_irq_at_scanline_start(
      IF s.v = 0 THEN StartFrame(s)
      ELSE IF s.v = VBlankStart THEN StartVBlank(s) ELSE s)

\* Mutant: the last line is not followed by the first.
NextLineEndless(s) == begin_scanline([s EXCEPT !.h = 0, !.v = @ + 1])
NextLine(s) == begin_scanline([s EXCEPT !.h = 0, !.v = (@ + 1) % Lines])

\* One turn of the loop: as far as the cycles or the line reach.
Segment(s, cycles) ==
    LET step == Min({cycles, LineCycles - s.h})
        new_h == s.h + step
        timed == IF PassesHTime(s, new_h) THEN [s EXCEPT !.timeup = 1] ELSE s
        blanked == AtHBlank(timed, new_h)
        aged == advance_cpu_math(advance_autojoy([blanked EXCEPT !.h = new_h], step), step)
    IN [s |-> IF new_h = LineCycles THEN NextLine(aged) ELSE aged,
        left |-> cycles - step]

GoOn(at) == IF at.left = 0 \/ at.s.barrier = 1 THEN at ELSE Segment(at.s, at.left)

\* The loop after each number of its turns.
Turns(s, cycles) ==
    LET turn[i \in Nat] == IF i = 0 THEN [s |-> s, left |-> cycles] ELSE GoOn(turn[i - 1])
    IN turn

\* The first turn may end a line that was begun, the last one leave one.
dkc2_snes_io_advance_master_cycles(s, cycles) ==
    Turns(s, cycles)[(cycles \div LineCycles) + 2].s

-----------------------------------------------------------------------------
(* What an instruction may do to the registers.                            *)

\* Writing $4200 while the VBlank flag stands raises the NMI again.
WriteNmitimen(s, nmi, irq, joy) ==
    [s EXCEPT !.nmiOn = nmi, !.irq = irq, !.joyOn = joy,
              !.nmiPending = IF nmi = 1 /\ s.nmiFlag = 1 THEN 1 ELSE @]

WriteTimer(s, htime, vtime) == [s EXCEPT !.htime = htime, !.vtime = vtime]

ReadRdnmi(s) == [s EXCEPT !.nmiFlag = 0]
ReadTimeup(s) == [s EXCEPT !.timeup = 0]

\* Mutant: a countdown that runs is not started again.
WriteMultiplierQueued(s, value) ==
    [s EXCEPT !.divides = 0, !.left = s.wrmpya, !.right = value,
              !.mathLeft = IF @ > 0 THEN @ ELSE MulCycles]

\* The operands are captured when the second one is written.
WriteMultiplier(s, value) ==
    [s EXCEPT !.divides = 0, !.left = s.wrmpya, !.right = value, !.mathLeft = MulCycles]
WriteDivisor(s, value) ==
    [s EXCEPT !.divides = 1, !.left = s.wrdiv, !.right = value, !.mathLeft = DivCycles]

WriteJoyStrobe(s, value) ==
    [s EXCEPT !.shift = IF value = 1 \/ s.strobe # value THEN s.pad ELSE @, !.strobe = value]

\* The serial stream gives the high bit and takes in ones.
ReadJoySerial(s) ==
    IF s.strobe = 1 THEN s ELSE [s EXCEPT !.shift = (2 * @ + 1) % PadRange]

WriteHdmaen(s, value) ==
    [s EXCEPT !.hdmaOn = value, !.hdma.active = IF value = 0 THEN 0 ELSE @]

dkc2_snes_io_set_controller(s, buttons) ==
    [s EXCEPT !.pad = buttons, !.shift = IF s.strobe = 1 THEN buttons ELSE @]

ReadUnsupported(s) == [s EXCEPT !.barrier = 1]

Perform(op, s) ==
    CASE op.kind = "nmitimen" -> WriteNmitimen(s, op.nmi, op.irq, op.joy)
      [] op.kind = "timer" -> WriteTimer(s, op.htime, op.vtime)
      [] op.kind = "rdnmi" -> ReadRdnmi(s)
      [] op.kind = "timeup" -> ReadTimeup(s)
      [] op.kind = "wrmpya" -> [s EXCEPT !.wrmpya = op.value]
      [] op.kind = "wrdiv" -> [s EXCEPT !.wrdiv = op.value]
      [] op.kind = "wrmpyb" -> WriteMultiplier(s, op.value)
      [] op.kind = "wrdivb" -> WriteDivisor(s, op.value)
      [] op.kind = "strobe" -> WriteJoyStrobe(s, op.value)
      [] op.kind = "serial" -> ReadJoySerial(s)
      [] op.kind = "hdmaen" -> WriteHdmaen(s, op.value)
      [] op.kind = "unsupported" -> ReadUnsupported(s)
      [] OTHER -> s

-----------------------------------------------------------------------------
(* dkc2_boot's loop.                                                       *)

IoInit(modes, pads) ==
    /\ io \in {[h |-> 0, v |-> 0, nmiOn |-> 0, irq |-> 0, joyOn |-> 0,
                htime |-> t.htime, vtime |-> t.vtime, timeup |-> 0, nmiFlag |-> 0, nmiPending |-> 0,
                pad |-> p, shift |-> 0, strobe |-> 0, joyLeft |-> 0, joy |-> 0,
                divides |-> 0, left |-> 0, right |-> 0, mathLeft |-> 0, wrmpya |-> 0, wrdiv |-> 0,
                product |-> 0, quotient |-> 0, hdmaOn |-> 0, hdma |-> IdleChannel, channel |-> c,
                regs |-> [high |-> 0, low |-> 0, prev |-> 0, layers |-> 0],
                barrier |-> 0] : t \in modes, p \in pads, c \in HdmaChannels}
    /\ cpu = [waiting |-> 0, masked |-> 1]
    /\ stage = "running"
    /\ sum = [op |-> "none", left |-> 0, right |-> 0, age |-> 0, product |-> 0, quotient |-> 0]
    /\ waited = 0

\* Spending cycles ages the arithmetic.
Spend(s, cycles, asked) ==
    /\ io' = dkc2_snes_io_advance_master_cycles(s, cycles)
    /\ sum' = [asked EXCEPT !.age = Min({@ + cycles, DivCycles})]

Looping == stage = "running" /\ io.barrier = 0

dkc2_snes_io_take_nmi == [io EXCEPT !.nmiPending = 0]
EntersIrq == io.nmiPending = 0 /\ io.timeup = 1 /\ cpu.masked = 0

\* service_timing_interrupt: NMI before IRQ, and an IRQ only if it is not masked.
ServiceNmi(cycles) ==
    /\ Looping /\ io.nmiPending = 1
    /\ cpu' = [waiting |-> 0, masked |-> 1]
    /\ Spend(dkc2_snes_io_take_nmi, cycles, sum)
    /\ waited' = 0
    /\ UNCHANGED stage

ServiceIrq(cycles) ==
    /\ Looping /\ EntersIrq
    /\ cpu' = [waiting |-> 0, masked |-> 1]
    /\ Spend(io, cycles, sum)
    /\ waited' = 0
    /\ UNCHANGED stage

NothingToService == io.nmiPending = 0 /\ ~ EntersIrq

dkc2_snes_io_interrupt_source_enabled == io.nmiOn = 1 \/ io.irq # 0

\* A waiting CPU: the loop ends if nothing can wake it, else a line passes.
WaitLine ==
    /\ Looping /\ NothingToService /\ cpu.waiting = 1
    /\ dkc2_snes_io_interrupt_source_enabled
    /\ Spend(io, LineCycles, sum)
    /\ waited' = Min({waited + 1, Lines + 1})
    /\ UNCHANGED <<cpu, stage>>

GiveUp ==
    /\ Looping /\ NothingToService /\ cpu.waiting = 1
    /\ ~ dkc2_snes_io_interrupt_source_enabled
    /\ stage' = "ended"
    /\ UNCHANGED <<io, cpu, sum, waited>>

Asked(op) ==
    IF op.kind \in {"wrmpyb", "wrdivb"}
    THEN [op |-> op.kind, left |-> IF op.kind = "wrmpyb" THEN io.wrmpya ELSE io.wrdiv,
          right |-> op.value, age |-> 0, product |-> io.product, quotient |-> io.quotient]
    ELSE sum

\* An instruction with at most one access to a register, then its cycles.
Step(op, cycles) ==
    /\ Looping /\ NothingToService /\ cpu.waiting = 0
    /\ cpu' = [waiting |-> IF op.kind = "wait" THEN 1 ELSE 0,
               masked |-> IF op.kind = "mask" THEN op.value ELSE cpu.masked]
    /\ Spend(Perform(op, io), cycles, Asked(op))
    /\ UNCHANGED <<stage, waited>>

\* The host gives the pad other buttons between two instructions.
SetController(buttons) ==
    /\ Looping
    /\ io' = dkc2_snes_io_set_controller(io, buttons)
    /\ UNCHANGED <<cpu, stage, sum, waited>>

\* Instructions that cost some of the cycles, interrupts that cost them, and
\* waits.
IoNext(program, costs) ==
    \/ \E n \in costs : ServiceNmi(n) \/ ServiceIrq(n) \/ \E op \in program : Step(op, n)
    \/ WaitLine \/ GiveUp

\* The instructions as far as the clock tells them apart, with every operand.
Instructions ==
    [kind : {"nmitimen"}, nmi : 0 .. 1, irq : 0 .. 3, joy : 0 .. 1]
    \cup [kind : {"timer"}, htime : 0 .. 511, vtime : 0 .. 511]
    \cup [kind : {"wrmpya", "wrmpyb", "wrdiv", "wrdivb"}, value : 0 .. MaxWord]
    \cup [kind : {"mask", "strobe", "hdmaen"}, value : 0 .. 1]
    \cup [kind : {"rdnmi", "timeup", "serial", "wait", "nop", "unsupported"}]

\* Any program on the console, and any buttons.
IoSpec ==
    /\ IoInit([htime : 0 .. 511, vtime : 0 .. 511], PadValues)
    /\ [][IoNext(Instructions, Nat) \/ \E p \in PadValues : SetController(p)]_ioVars

-----------------------------------------------------------------------------
(* Properties.                                                             *)

IoTypeOK ==
    /\ io.h \in 0 .. LineCycles - 1 /\ io.v \in 0 .. Lines - 1
    /\ io.joyLeft \in 0 .. JoyCycles
    /\ io.mathLeft \in 0 .. Max({MulCycles, DivCycles})
    /\ \A f \in {"timeup", "nmiFlag", "nmiPending", "strobe", "hdmaOn", "barrier"} : io[f] \in 0 .. 1
    /\ io.shift \in 0 .. PadRange - 1 /\ io.pad \in PadValues
    /\ stage \in {"running", "ended"}

\* The clock told cycle by cycle: the place the beam comes to, and what
\* happens there.
NextPlace(s) ==
    IF s.h + 1 < LineCycles THEN [h |-> s.h + 1, v |-> s.v] ELSE [h |-> 0, v |-> (s.v + 1) % Lines]
Matches(s, b) ==
    CASE s.irq = 1 -> b.h = s.htime * DotCycles
      [] s.irq = 2 -> b.h = 0 /\ b.v = s.vtime
      [] s.irq = 3 -> b.h = s.htime * DotCycles /\ b.v = s.vtime
      [] OTHER -> FALSE
VBlankAt(b) == b = [h |-> 0, v |-> VBlankStart]

Cycle(s) ==
    LET b == NextPlace(s)
        polled == advance_autojoy(s, 1)
        moved == [advance_cpu_math(polled, 1) EXCEPT !.h = b.h, !.v = b.v]
        lined == IF b = [h |-> 0, v |-> 0] THEN StartFrame(moved)
                 ELSE IF b.h = HBlankStart /\ b.v < VBlankStart THEN run_hdma_scanline(moved)
                 ELSE moved
        blank == IF VBlankAt(b) THEN StartVBlank(lined) ELSE lined
    IN [blank EXCEPT !.timeup = IF Matches(s, b) THEN 1 ELSE @]

\* However many cycles an instruction, a DMA or a wait pays at once, the clock
\* passes through the same events as if it had moved by single cycles: paying
\* one cycle more is one more cycle of the beam, so no match, blank, poll or
\* result is lost, doubled or moved across a line's end.
AdvanceMeetsBeam(costs) ==
    io.barrier = 0 =>
        \A n \in costs :
          LET r == dkc2_snes_io_advance_master_cycles(io, n)
          IN r.barrier = 0 => dkc2_snes_io_advance_master_cycles(io, n + 1) = Cycle(r)

\* A result is there when its time has passed, is that of the operands the
\* program had written when it asked, and is not there before.
ResultsOnTime ==
    io.barrier = 0 /\ sum.op # "none" =>
      LET done == sum.age >= (IF sum.op = "wrmpyb" THEN MulCycles ELSE DivCycles)
      IN <<io.quotient, io.product>> =
           CASE ~ done -> <<sum.quotient, sum.product>>
             [] done /\ sum.op = "wrmpyb" -> <<sum.quotient, sum.left * sum.right>>
             [] done /\ sum.op = "wrdivb" /\ sum.right = 0 -> <<MaxWord, sum.left>>
             [] OTHER -> <<sum.left \div sum.right, sum.left % sum.right>>

\* A CPU that waits is woken within a frame by every source it has left on:
\* by the NMI, or by a timer whose place the beam reaches and whose IRQ is not
\* masked.
TimerComes ==
    /\ cpu.masked = 0
    /\ io.irq \in {1, 3} => irq_h_time(io) < LineCycles
    /\ io.irq \in {2, 3} => io.vtime < Lines
    /\ io.irq # 0
WaitEnds == io.nmiOn = 1 \/ TimerComes => waited <= Lines

\* What the program asked of the clock reaches it.
EventsArrive == ResultsOnTime /\ WaitEnds

\* A payment of cycles does what the same cycles do one at a time, and what the
\* program arms, waits for or computes arrives.
ClockKept == AdvanceMeetsBeam(Payments) /\ EventsArrive
=============================================================================

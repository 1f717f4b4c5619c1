----------------------------- MODULE VideoPorts -----------------------------
(***************************************************************************)
(* The write-twice and auto-incrementing ports of the analysis core        *)
(* ($2102-$2122, $2180-$2183 in snes_io.c), and the general DMA that feeds *)
(* them from the bus.  A port is known by its low byte, as in the code.    *)
(* Left out: ports that only keep what is written, the marks of which      *)
(* picture features were used, and the fixed colour.                       *)
(***************************************************************************)
EXTENDS Bus, Sequences

CONSTANTS
    Controls,    \* what a byte of $2115 asks for: when to step, how far, which remap
    Column, Sheet,   \* 32 and 128 words: the long steps
    Turn, Field,     \* 8 and 32: a remap rotates three bits past a field of five or more
    TailWords,   \* 16: words of the sprites' high table
    Fine,        \* 8: the part of a scroll that the shared latch does not give
    DmaSetups,      \* a channel's registers
    DmaChannels,    \* 0 .. 7
    MaxAccesses, \* bound: accesses the program makes before the ports are judged
    Uploads,         \* transfers to compare with what they should do
    PairPorts, PairValues,  \* word registers to compare, and bytes to write to them
    Corners          \* addresses whose mirrors to compare

WordRange == ByteRange * ByteRange
Byte == 0 .. ByteRange - 1
Word == 0 .. WordRange - 1
OamSize == 2 * ByteRange + 2 * TailWords

\* What a channel's seven registers ask for.
DmaSetup ==
    [mode : 0 .. 7, fixed : 0 .. 1, down : 0 .. 1, reverse : 0 .. 1, to : 0 .. 255,
     bank : 0 .. 255, offset : 0 .. BankLength - 1, size : Word]

ASSUME PortAssumption ==
    /\ ByteRange % 2 = 0 /\ Fine \in Nat \ {0} /\ ByteRange % Fine = 0
    /\ Column \in Nat /\ Sheet \in Nat
    /\ Turn \in Nat \ {0} /\ Field \in Nat \ {0} /\ TailWords \in Nat \ {0}
    /\ BankLength = WordRange
    /\ Controls \in [Byte -> [afterHigh : 0 .. 1, remap : 0 .. 3, step : 0 .. 3]]
    /\ DmaSetups # {} /\ DmaSetups \subseteq DmaSetup
    /\ 0 \in DmaChannels /\ DmaChannels \subseteq 0 .. 7
    /\ MaxAccesses \in Nat

VARIABLES
    con,      \* dkc2_snes_io and its bus
    accesses  \* the program's accesses so far, for the bound

portVars == <<con, accesses>>

PortsInit ==
    /\ con = [wram |-> [a \in 0 .. WramSize - 1 |-> 0], sram |-> [a \in 0 .. SramSize - 1 |-> 0],
              open |-> 0, barrier |-> 0, wramAt |-> 0,
              vram |-> [a \in 0 .. WordRange - 1 |-> 0], vramAt |-> 0, vmain |-> 0,
              cgram |-> [a \in 0 .. 2 * ByteRange - 1 |-> 0], cgramAt |-> 0, cgramHigh |-> 0,
              oam |-> [a \in 0 .. OamSize - 1 |-> 0], oamAt |-> 0, oamHigh |-> 0, oamLatch |-> 0,
              rotates |-> 0, first |-> 0,
              hofs |-> [b \in 0 .. 3 |-> 0], vofs |-> [b \in 0 .. 3 |-> 0], scrollLatch |-> 0,
              m7h |-> 0, m7v |-> 0, m7 |-> [p \in 27 .. 32 |-> 0], latch |-> 0, product |-> 0,
              dma |-> [c \in DmaChannels |-> CHOOSE d \in DmaSetups : TRUE]]
    /\ accesses = 0

-----------------------------------------------------------------------------
(* VRAM.                                                                   *)

vram_remap(address, remap) ==
    LET field == CASE remap = 1 -> Field [] remap = 2 -> 2 * Field [] OTHER -> 4 * Field
        group == Turn * field
    IN IF remap = 0 THEN address
       ELSE (address \div group) * group + (address % field) * Turn + (address % group) \div field

vram_increment(step) == CASE step = 0 -> 1 [] step = 1 -> Column [] OTHER -> Sheet

VramCell(s, high) ==
    (2 * vram_remap(s.vramAt, Controls[s.vmain].remap) + high) % WordRange

increment_vram_address(s) ==
    [s EXCEPT !.vramAt = (@ + vram_increment(Controls[s.vmain].step)) % WordRange]

WriteVram(s, high, value) ==
    LET stored == [s EXCEPT !.vram[VramCell(s, high)] = value]
    IN IF Controls[s.vmain].afterHigh = high THEN increment_vram_address(stored) ELSE stored

-----------------------------------------------------------------------------
(* Sprites and colours: two bytes to a word, told apart by a toggle.       *)

WithFirst(s) == [s EXCEPT !.first = (s.oamAt % ByteRange) \div 2]

WriteOamLow(s, value) ==
    LET set == [s EXCEPT !.oamAt = (@ \div ByteRange) * ByteRange + value, !.oamHigh = 0]
    IN IF s.rotates = 1 THEN WithFirst(set) ELSE set

WriteOamHigh(s, value) ==
    LET top == value \div (ByteRange \div 2)
        set == [s EXCEPT !.oamAt = (value % 2) * ByteRange + (@ % ByteRange),
                         !.oamHigh = 0, !.rotates = top, !.first = 0]
    IN IF top = 1 THEN WithFirst(set) ELSE set

\* The low table takes a word at a time, the high table each byte.
WriteOam(s, value) ==
    LET latched == IF s.oamHigh = 0 THEN [s EXCEPT !.oamLatch = value] ELSE s
        cell == IF s.oamAt >= ByteRange
                THEN 2 * ByteRange + 2 * (s.oamAt % TailWords) ELSE 2 * s.oamAt
        stored == IF s.oamAt >= ByteRange THEN [latched EXCEPT !.oam[cell + s.oamHigh] = value]
                  ELSE IF s.oamHigh = 1
                  THEN [latched EXCEPT !.oam[cell] = s.oamLatch, !.oam[cell + 1] = value]
                  ELSE latched
        moved == IF s.oamHigh = 0 THEN stored
                 ELSE [stored EXCEPT !.oamAt = (@ + 1) % (2 * ByteRange)]
            turned == IF s.oamHigh = 1 /\ s.rotates = 1 THEN WithFirst(moved) ELSE moved
    IN [turned EXCEPT !.oamHigh = 1 - @]

\* Mutant: the toggle keeps its side when an address is chosen.
WriteCgaddOnly(s, value) == [s EXCEPT !.cgramAt = value]
WriteCgadd(s, value) == [s EXCEPT !.cgramAt = value, !.cgramHigh = 0]

WriteCgram(s, value) ==
    [s EXCEPT !.cgram[2 * s.cgramAt + s.cgramHigh] =
                IF s.cgramHigh = 1 THEN value % (ByteRange \div 2) ELSE value,
              !.cgramAt = IF s.cgramHigh = 1 THEN (@ + 1) % ByteRange ELSE @,
              !.cgramHigh = 1 - @]

-----------------------------------------------------------------------------
(* Scrolls and the matrix: two bytes to a register through shared latches. *)

write_bg_scroll(s, port, value) ==
    LET background == (port - 13) \div 2
        high == value * ByteRange
        across == port % 2 = 1
        set == IF across
               THEN [s EXCEPT !.hofs[background] =
                       high + (s.scrollLatch \div Fine) * Fine + ((@ \div ByteRange) % Fine)]
               ELSE [s EXCEPT !.vofs[background] = high + s.scrollLatch]
        shared == [set EXCEPT !.scrollLatch = value]
    IN CASE port = 13 -> [shared EXCEPT !.m7h = high + s.latch, !.latch = value]
         [] port = 14 -> [shared EXCEPT !.m7v = high + s.latch, !.latch = value]
         [] OTHER -> shared

Signed(value, range) == IF value >= range \div 2 THEN value - range ELSE value

update_mode7_product(s) ==
    [s EXCEPT !.product = Signed(s.m7[27], WordRange) * Signed(s.m7[28] \div ByteRange, ByteRange)]

write_mode7_matrix(s, port, value) ==
    LET set == [s EXCEPT !.m7[port] = s.latch + value * ByteRange, !.latch = value]
    IN IF port \in 27 .. 28 THEN update_mode7_product(set) ELSE set

-----------------------------------------------------------------------------
(* The port to work RAM.                                                   *)

StepWram(s) == [s EXCEPT !.wramAt = (@ + 1) % WramSize]

write_wram_port(s, port, value) ==
    LET low == s.wramAt % ByteRange
        bank == s.wramAt \div WordRange
        middle == (s.wramAt % WordRange) \div ByteRange
    IN CASE port = 128 -> StepWram([s EXCEPT !.wram[s.wramAt] = value])
         [] port = 129 -> [s EXCEPT !.wramAt = bank * WordRange + middle * ByteRange + value]
         [] port = 130 -> [s EXCEPT !.wramAt = bank * WordRange + value * ByteRange + low]
         [] port = 131 -> [s EXCEPT !.wramAt =
                             (value % 2) * WordRange + middle * ByteRange + low]

ppu_write(s, port, value) ==
    CASE port = 2 -> WriteOamLow(s, value)
      [] port = 3 -> WriteOamHigh(s, value)
      [] port = 4 -> WriteOam(s, value)
      [] port \in 13 .. 20 -> write_bg_scroll(s, port, value)
      [] port = 21 -> [s EXCEPT !.vmain = value]
      [] port = 22 -> [s EXCEPT !.vramAt = (@ \div ByteRange) * ByteRange + value]
      [] port = 23 -> [s EXCEPT !.vramAt = value * ByteRange + (@ % ByteRange)]
      [] port \in 24 .. 25 -> WriteVram(s, port - 24, value)
      [] port \in 27 .. 32 -> write_mode7_matrix(s, port, value)
      [] port = 33 -> WriteCgadd(s, value)
      [] port = 34 -> WriteCgram(s, value)
      [] port \in 128 .. 131 -> write_wram_port(s, port, value)
      [] OTHER -> s

-----------------------------------------------------------------------------
(* General DMA.                                                            *)

Patterns == <<<<0>>, <<0, 1>>, <<0, 0>>, <<0, 0, 1, 1>>,
              <<0, 1, 2, 3>>, <<0, 1, 0, 1>>, <<0, 0>>, <<0, 0, 1, 1>>>>

dma_pattern(mode, index) ==
    Patterns[mode + 1][(index % Len(Patterns[mode + 1])) + 1]

\* A byte of a transfer; the A-bus offset stays in its bank.
TransferByte(s, c, index) ==
    LET d == s.dma[c]
        read == dkc2_bus_read8(s, [bank |-> d.bank, offset |-> d.offset])
        port == (d.to + dma_pattern(d.mode, index)) % 256
        step == CASE d.fixed = 1 -> 0 [] d.fixed = 0 /\ d.down = 1 -> -1 [] OTHER -> 1
    IN [ppu_write(read, port, read.open) EXCEPT
         !.open = read.open, !.dma[c].offset = (@ + step) % BankLength]

\* A size of nought is a whole bank.  A transfer towards the A-bus, or one
\* that meets a barrier, ends early; its size is cleared all the same.
Amount(size) == IF size = 0 THEN WordRange ELSE size

run_dma_channel(s, c) ==
    LET moved[n \in Nat] ==
          IF n = 0 THEN s
          ELSE LET at == moved[n - 1]
               IN IF at.barrier = 1 THEN at ELSE TransferByte(at, c, n - 1)
        ended == IF s.dma[c].reverse = 1 THEN [s EXCEPT !.barrier = 1]
                 ELSE moved[Amount(s.dma[c].size)]
    IN [ended EXCEPT !.dma[c].size = 0]

\* The channels take their turns in ascending order.
run_dma(s, channels) ==
    LET after[n \in Nat] ==
          IF n = 0 THEN s
          ELSE LET at == after[n - 1]
               IN IF n - 1 \in channels /\ at.barrier = 0
                  THEN run_dma_channel(at, n - 1) ELSE at
    IN after[8]

-----------------------------------------------------------------------------
(* What the program does.                                                  *)

Running == con.barrier = 0

Access(next) ==
    /\ Running /\ accesses < MaxAccesses
    /\ con' = next /\ accesses' = accesses + 1

StorePort(port, value) == Access([ppu_write(con, port, value) EXCEPT !.open = value])

LoadWmdata == Access(StepWram([con EXCEPT !.open = con.wram[con.wramAt]]))

StoreByte(a, value) == Access(dkc2_bus_write8(con, a, value))

\* Seven stores; the bus keeps the last of them.
SetUpChannel(c, d) ==
    Access([con EXCEPT !.dma[c] = d, !.open = d.size \div ByteRange])

Selected(value) == {c \in DmaChannels : (value \div 2 ^ c) % 2 = 1}
StartDma(value) == Access(run_dma([con EXCEPT !.open = value], Selected(value)))

PortsNext(stores, bytes, starts) ==
    \/ \E w \in stores : StorePort(w[1], w[2])
    \/ \E w \in bytes : StoreByte(w[1], w[2])
    \/ \E c \in DmaChannels, d \in DmaSetups : SetUpChannel(c, d)
    \/ \E v \in starts : StartDma(v)
    \/ LoadWmdata

PortsSpec ==
    PortsInit /\ [][PortsNext((0 .. 255) \X Byte, Address \X Byte, Byte)]_portVars

-----------------------------------------------------------------------------
(* Properties.                                                             *)

PortState ==
    [wram : [0 .. WramSize - 1 -> Byte], sram : [0 .. SramSize - 1 -> Byte],
     open : Byte, barrier : 0 .. 1, wramAt : 0 .. WramSize - 1,
     vram : [Word -> Byte], vramAt : Word, vmain : Byte,
     cgram : [0 .. 2 * ByteRange - 1 -> Byte], cgramAt : Byte, cgramHigh : 0 .. 1,
     oam : [0 .. OamSize - 1 -> Byte], oamAt : 0 .. 2 * ByteRange - 1,
     oamHigh : 0 .. 1, oamLatch : Byte, rotates : 0 .. 1, first : Nat,
     hofs : [0 .. 3 -> Word], vofs : [0 .. 3 -> Word], scrollLatch : Byte,
     m7h : Word, m7v : Word, m7 : [27 .. 32 -> Word], latch : Byte, product : Int,
     dma : [DmaChannels -> DmaSetup]]

PortsTypeOK == con \in PortState /\ accesses \in 0 .. MaxAccesses

\* How a program uploads: it chooses the address, then starts a transfer from
\* a channel set up for the port.
Write(s, port, value) == ppu_write(s, port, value)
AtAddress(s, u) ==
    CASE u.to = "oam" -> Write(Write(s, 2, u.start % ByteRange), 3, u.start \div ByteRange)
      [] u.to = "cgram" -> Write(s, 33, u.start)
      [] u.to = "vram" -> Write(Write(Write(s, 21, u.control), 22, u.start % ByteRange),
                                23, u.start \div ByteRange)
      [] u.to = "wram" -> Write(Write(Write(s, 129, u.start % ByteRange),
                                      130, (u.start \div ByteRange) % ByteRange),
                                131, u.start \div WordRange)
PortOf == [oam |-> 4, cgram |-> 34, vram |-> 24, wram |-> 128]
SetUpFor(u) ==
    [mode |-> IF u.to = "vram" THEN 1 ELSE 0, fixed |-> 0, down |-> u.down, reverse |-> 0,
     to |-> PortOf[u.to], bank |-> u.bank, offset |-> u.from, size |-> u.size]
Uploaded(s, u) ==
    run_dma([AtAddress(s, u) EXCEPT !.dma[0] = SetUpFor(u)], {0})

\* Where byte i of an upload belongs, and where it comes from.
Destination(u, i) ==
    LET sprite == (u.start + i \div 2) % (2 * ByteRange)
    IN CASE u.to = "oam" /\ sprite < ByteRange -> 2 * sprite + (i % 2)
         [] u.to = "oam" /\ sprite >= ByteRange -> 2 * ByteRange + 2 * (sprite % TailWords) + (i % 2)
         [] u.to = "cgram" -> (2 * u.start + i) % (2 * ByteRange)
         [] u.to = "vram" ->
              (2 * vram_remap((u.start + (i \div 2) * vram_increment(Controls[u.control].step)) % WordRange,
                              Controls[u.control].remap) + (i % 2)) % WordRange
         [] u.to = "wram" -> (u.start + i) % WramSize
Origin(u, i) ==
    [bank |-> u.bank,
     offset |-> (u.from + (IF u.down = 1 THEN - i ELSE i)) % BankLength]
Kept(u, i, value) ==
    IF u.to = "cgram" /\ i % 2 = 1 THEN value % (ByteRange \div 2) ELSE value

\* A program's uploads read memory, not the bus nor registers, and into work
\* RAM they do not read work RAM; sprites are sent as whole words; VRAM moves
\* on after the second byte of a word.
Sourced(u) ==
    \A i \in 0 .. Amount(u.size) - 1 :
        /\ Driven(Origin(u, i))
        /\ u.to = "wram" => dkc2_bus_region_for(Origin(u, i)) # "WRAM"
Uploadable ==
    {u \in [to : {"oam", "cgram", "vram", "wram"}, start : 0 .. WramSize - 1, control : Byte,
            bank : 0 .. 255, from : 0 .. BankLength - 1, down : 0 .. 1, size : Word] :
       /\ Sourced(u)
       /\ u.to = "oam" => u.start < 2 * ByteRange /\ Amount(u.size) % 2 = 0
       /\ u.to = "cgram" => u.start < ByteRange
       /\ u.to = "vram" => u.start < WordRange /\ Controls[u.control].afterHigh = 1}

\* What a memory should hold once n bytes have come: at each cell the last
\* byte that was bound for it.
Expected(s, u, memory, n) ==
    [cell \in DOMAIN s[memory] |->
       LET bound == {i \in 0 .. n - 1 : Destination(u, i) = cell}
       IN IF u.to # memory \/ bound = {} THEN s[memory][cell]
          ELSE LET i == CHOOSE i \in bound : \A j \in bound : j <= i
               IN Kept(u, i, dkc2_bus_value(s, Origin(u, i)))]

\* Whatever the ports were used for before -- an odd number of writes, another
\* address, another remap -- an upload by DMA leaves in the memory it was
\* meant for exactly the bytes of its source, each at its own place, and
\* changes no other byte of any memory.
UploadIsExact(s, u) ==
    LET r == Uploaded(s, u)
    IN /\ \A memory \in {"oam", "cgram", "vram", "wram"} :
            r[memory] = Expected(s, u, memory, Amount(u.size))
       /\ r.sram = s.sram
       /\ r.barrier = 0 /\ r.dma[0].size = 0

\* A scroll written low byte first holds its word, whatever the latches the
\* scrolls and the matrix share held before; so does an element of the matrix.
PairsAreWhole(s, ports, values) ==
    \A p \in ports, low, high \in values :
      LET r == Write(Write(s, p, low), p, high)
          word == high * ByteRange + low
      IN CASE p \in 13 .. 20 /\ p % 2 = 1 -> r.hofs[(p - 13) \div 2] = word
           [] p \in 13 .. 20 /\ p % 2 = 0 -> r.vofs[(p - 13) \div 2] = word
           [] OTHER -> r.m7[p] = word

\* The product the program reads and the sprite drawn first are always those
\* of the registers as they stand.
DerivedAreCurrent ==
    /\ con.product = Signed(con.m7[27], WordRange) * Signed(con.m7[28] \div ByteRange, ByteRange)
    /\ con.first = IF con.rotates = 1 THEN (con.oamAt % ByteRange) \div 2 ELSE 0

\* Once a program has begun: whatever came before, an upload arrives whole and
\* harms nothing else, the two bytes of a register are one word, and RAM is
\* the same at its mirrors.
PortsKept ==
    Running /\ accesses > 0 =>
      /\ \A u \in Uploads : UploadIsExact(con, u)
      /\ PairsAreWhole(con, PairPorts, PairValues)
      /\ DerivedAreCurrent
      /\ accesses = 1 => MirrorsAgree(con, Corners, PairValues)

ASSUME SampleAssumption ==
    /\ Uploads \subseteq Uploadable
    /\ PairPorts \subseteq 13 .. 20 \cup 27 .. 32 /\ PairValues \subseteq Byte
    /\ Corners \subseteq Address
=============================================================================

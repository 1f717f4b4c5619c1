-------------------------------- MODULE Bus --------------------------------
(***************************************************************************)
(* The analysis core's address bus: dkc2_bus_read8 and dkc2_bus_write8     *)
(* over work RAM, save RAM and a HiROM image (bus.c, hirom.c).  An address *)
(* has a bank, numbered as in the code, and an offset counted in pages of  *)
(* eight kilobytes; a console is a record with the fields wram, sram, open *)
(* (the value left on the bus) and barrier.  The I/O window stands for a   *)
(* register the core does not support: the others are not addressed here.  *)
(***************************************************************************)
EXTENDS Integers

CONSTANTS
    Page,        \* 8192: eight pages to a bank
    SramSize,    \* 2048
    Rom,         \* the image: a function from its offsets to bytes
    ByteRange    \* 256

ASSUME BusAssumption ==
    /\ Page \in Nat \ {0} /\ ByteRange \in Nat \ {0}
    /\ SramSize \in Nat \ {0} /\ (2 * Page) % SramSize = 0
    /\ DOMAIN Rom # {} /\ DOMAIN Rom \subseteq 0 .. 64 * 8 * Page - 1
    /\ \A o \in DOMAIN Rom : Rom[o] \in 0 .. ByteRange - 1

BankLength == 8 * Page
WramSize == 2 * BankLength
Address == [bank : 0 .. 255, offset : 0 .. BankLength - 1]

is_system_bank(bank) == bank \in 0 .. 63 \cup 128 .. 191
is_dkc2_sram_bank(bank) == bank % 128 \in 32 .. 63
IsWramBank(bank) == bank \in 126 .. 127

RomOffset(a) == (a.bank % 64) * BankLength + a.offset

\* dkc2_hirom_snes_to_rom succeeds.
InRom(a) ==
    /\ ~ IsWramBank(a.bank)
    /\ a.bank \in 64 .. 125 \cup 192 .. 255 \/ (is_system_bank(a.bank) /\ a.offset >= 4 * Page)
    /\ RomOffset(a) \in DOMAIN Rom

dkc2_hirom_rom_to_snes(o) == [bank |-> 192 + o \div BankLength, offset |-> o % BankLength]

dkc2_bus_region_for(a) ==
    CASE IsWramBank(a.bank) -> "WRAM"
      [] is_system_bank(a.bank) /\ a.offset < Page -> "WRAM"
      [] is_system_bank(a.bank) /\ a.offset \in Page .. 3 * Page - 1 -> "IO"
      [] is_dkc2_sram_bank(a.bank) /\ is_system_bank(a.bank)
           /\ a.offset \in 3 * Page .. 4 * Page - 1 -> "SRAM"
      [] InRom(a) -> "ROM"
      [] OTHER -> "OPEN"

wram_offset(a) ==
    IF IsWramBank(a.bank) THEN (a.bank - 126) * BankLength + a.offset ELSE a.offset % Page

sram_offset(a) == (a.offset - 3 * Page) % SramSize

\* The byte an address gives; an unsupported register gives none.
dkc2_bus_value(s, a) ==
    LET region == dkc2_bus_region_for(a)
    IN CASE region = "WRAM" -> s.wram[wram_offset(a)]
         [] region = "SRAM" -> s.sram[sram_offset(a)]
         [] region = "ROM" -> Rom[RomOffset(a)]
         [] region = "IO" -> 0
         [] region = "OPEN" -> s.open

\* The console after a read: the bus keeps the byte, and the I/O handler
\* stops at a register it does not support.
dkc2_bus_read8(s, a) ==
    [s EXCEPT !.open = dkc2_bus_value(s, a),
              !.barrier = IF dkc2_bus_region_for(a) = "IO" THEN 1 ELSE @]

dkc2_bus_write8(s, a, value) ==
    LET region == dkc2_bus_region_for(a)
        driven == [s EXCEPT !.open = value]
    IN CASE region = "WRAM" -> [driven EXCEPT !.wram[wram_offset(a)] = value]
         [] region = "SRAM" -> [driven EXCEPT !.sram[sram_offset(a)] = value]
         [] region = "IO" -> [driven EXCEPT !.barrier = 1]
         [] OTHER -> driven

-----------------------------------------------------------------------------
(* The cartridge's map, told as which addresses are the same cell: a bank   *)
(* and the one 128 above it, the system banks' first page and the start of  *)
(* bank 126, the upper halves and the full banks of ROM, the save RAM's     *)
(* window in its banks.                                                     *)

Fast(bank) == IF IsWramBank(bank) THEN bank ELSE bank % 128
LowRam(a) == a.offset < Page /\ (is_system_bank(a.bank) \/ a.bank = 126)
SaveRam(a) == Fast(a.bank) \in 32 .. 63 /\ a.offset \in 3 * Page .. 4 * Page - 1
Cartridge(a) ==
    /\ ~ IsWramBank(a.bank)
    /\ Fast(a.bank) < 64 => a.offset >= 4 * Page
    /\ (Fast(a.bank) % 64) * BankLength + a.offset \in DOMAIN Rom

SameCell(a, b) ==
    \/ a = b
    \/ LowRam(a) /\ LowRam(b) /\ a.offset = b.offset
    \/ SaveRam(a) /\ SaveRam(b) /\ a.offset % SramSize = b.offset % SramSize
    \/ Cartridge(a) /\ Cartridge(b) /\ Fast(a.bank) % 64 = Fast(b.bank) % 64
       /\ a.offset = b.offset

Writable(a) == IsWramBank(a.bank) \/ LowRam(a) \/ SaveRam(a)
Driven(a) == Writable(a) \/ Cartridge(a)

\* A byte written is read at the address it was written to and at each of its
\* mirrors, and changes what is read at no other address; ROM keeps its bytes
\* and has every one of them at its canonical address.
MirrorsAgree(s, places, values) ==
    /\ \A a, b \in places, v \in values :
         Driven(b) =>
           dkc2_bus_value(dkc2_bus_write8(s, a, v), b)
             = IF SameCell(a, b) /\ Writable(a) THEN v ELSE dkc2_bus_value(s, b)
    /\ \A a, b \in places :
         Cartridge(a) /\ SameCell(a, b) => dkc2_bus_value(s, a) = dkc2_bus_value(s, b)
    /\ \A o \in DOMAIN Rom : dkc2_bus_value(s, dkc2_hirom_rom_to_snes(o)) = Rom[o]
=============================================================================

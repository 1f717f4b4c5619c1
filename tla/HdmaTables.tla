----------------------------- MODULE HdmaTables -----------------------------
(***************************************************************************)
(* HDMA tables as the repository reads them, twice: once by the analysis   *)
(* core, one line at each HBlank (snes_io.c), and once by the desktop      *)
(* renderer's dry run of a whole frame (dkc2_hdma.c).  A byte's high bit   *)
(* is RepeatBit (128 in the code); a memory is a function from the         *)
(* addresses of one bank to bytes.                                         *)
(***************************************************************************)
EXTENDS Integers, Sequences, SequencesExt

CONSTANTS
    RepeatBit,   \* the descriptor's high bit, and the longest run of lines
    BankSize     \* addresses in a bank; the code's 65536

ASSUME TableAssumption ==
    /\ RepeatBit \in Nat \ {0}
    /\ BankSize \in Nat \ {0}

Bytes == 0 .. 2 * RepeatBit - 1

Nowhere == BankSize + 1          \* a NULL pointer; BankSize is the store's end

(***************************************************************************)
(* The registers that decide what a line shows: one vertical scroll with   *)
(* the latch all scrolls share, and the main-screen mask.                  *)
(***************************************************************************)
Registers == [high : Bytes, low : Bytes, prev : Bytes, layers : Bytes]

ApplyWrite(regs, target, value) ==
    IF target = "scroll"
    THEN [regs EXCEPT !.high = value, !.low = regs.prev, !.prev = value]
    ELSE [regs EXCEPT !.layers = value]

\* Mode 2 writes two bytes to one register, mode 0 one.
TransferLength(target) == IF target = "scroll" THEN 2 ELSE 1
ApplyWrites(regs, target, first, second) ==
    LET one == ApplyWrite(regs, target, first)
    IN IF TransferLength(target) = 2 THEN ApplyWrite(one, target, second) ELSE one

Wrap(address) == address % BankSize

Indirect(low, high) == Wrap(low + 2 * RepeatBit * high)

-----------------------------------------------------------------------------
(* The console: one channel's state and registers, advanced a line at a    *)
(* time.  next is $43x8/9, from $43x5/6 and counter $43xA.                 *)

initialize_hdma(config, s) ==
    [s EXCEPT !.active = config.on, !.transfer = config.on,
              !.repeat = 0, !.lines = 0,
              !.next = IF config.on = 1 THEN config.table ELSE @,
              !.counter = IF config.on = 1 THEN 0 ELSE @]

IdleChannel == [active |-> 0, transfer |-> 0, repeat |-> 0, lines |-> 0,
                next |-> 0, from |-> 0, counter |-> 0]

reload_hdma_line_descriptor(memory, config, s) ==
    LET descriptor == memory[s.next]
        after == Wrap(s.next + 1)
        count == descriptor % RepeatBit
    IN IF descriptor = 0
       THEN [s EXCEPT !.active = 0, !.counter = 0, !.next = after]
       ELSE [s EXCEPT
               !.repeat = descriptor \div RepeatBit,
               !.lines = IF count = 0 THEN RepeatBit ELSE count,
               !.transfer = 1,
               !.next = IF config.indirect = 1 THEN Wrap(after + 2) ELSE after,
               !.from = IF config.indirect = 1
                        THEN Indirect(memory[after], memory[Wrap(after + 1)])
                        ELSE @]

transfer_hdma_line(memory, config, s, regs) ==
    LET source == IF config.indirect = 1 THEN s.from ELSE s.next
        after == Wrap(source + TransferLength(config.target))
    IN [s |-> IF config.indirect = 1
              THEN [s EXCEPT !.from = after, !.transfer = 0]
              ELSE [s EXCEPT !.next = after, !.transfer = 0],
        regs |-> ApplyWrites(regs, config.target, memory[source], memory[Wrap(source + 1)]),
        blocked |-> 0]

\* One channel's part of run_hdma_scanline; a transfer towards the A-bus is
\* not supported and stops the console.
run_hdma_channel(memory, config, s, regs) ==
    LET loaded == IF s.lines = 0 THEN reload_hdma_line_descriptor(memory, config, s)
                                 ELSE s
        same == [s |-> loaded, regs |-> regs, blocked |-> 0]
        moved == IF loaded.transfer = 1
                 THEN transfer_hdma_line(memory, config, loaded, regs) ELSE same
        left == loaded.lines - 1
    IN IF config.on = 0 \/ s.active = 0 THEN [same EXCEPT !.s = s]
       ELSE IF loaded.active = 0 THEN same
       ELSE IF loaded.transfer = 1 /\ config.reverse = 1 THEN [same EXCEPT !.blocked = 1]
       ELSE [moved EXCEPT
               !.s = [moved.s EXCEPT
                        !.lines = left,
                        !.transfer = IF left # 0 THEN loaded.repeat ELSE moved.s.transfer,
                        !.counter = loaded.repeat * RepeatBit + (left % RepeatBit)]]

-----------------------------------------------------------------------------
(* The dry run: host pointers that stop at the end of the backing store,   *)
(* and one byte that holds the count and the repeat bit together.          *)

readable(pointer, length) == pointer + length <= BankSize

StartChannel(config) ==
    [table |-> IF config.on = 1 THEN config.table ELSE Nowhere,
     indirect |-> Nowhere, count |-> 0]

\* Advancing over one byte of a transfer; a pointer that cannot be read
\* ends the channel and leaves the rest of the transfer undone.
StepByte(memory, config, at) ==
    LET source == IF config.indirect = 1 THEN at.channel.indirect ELSE at.channel.table
    IN IF ~ at.going THEN at
       ELSE IF source = Nowhere \/ ~ readable(source, 1)
       THEN [at EXCEPT !.channel.table = Nowhere, !.going = FALSE]
       ELSE [at EXCEPT
               !.channel = IF config.indirect = 1 THEN [at.channel EXCEPT !.indirect = source + 1]
                                                  ELSE [at.channel EXCEPT !.table = source + 1],
               !.regs = ApplyWrite(at.regs, config.target, memory[source])]

Dkc2HdmaStepChannel(memory, config, channel, regs) ==
    LET fresh == channel.count % RepeatBit = 0
        ended == [channel |-> [channel EXCEPT !.table = Nowhere], regs |-> regs]
        descriptor == memory[channel.table]
        after == channel.table + 1
        pair == config.indirect = 1
        loaded ==
          IF ~ fresh THEN channel
          ELSE [table |-> IF pair THEN after + 2 ELSE after,
                count |-> descriptor,
                indirect |-> IF pair THEN Indirect(memory[after], memory[after + 1])
                                     ELSE channel.indirect]
        first == StepByte(memory, config, [channel |-> loaded, regs |-> regs, going |-> TRUE])
        moved == IF TransferLength(config.target) = 2 THEN StepByte(memory, config, first) ELSE first
        done == IF fresh \/ loaded.count >= RepeatBit
                THEN moved ELSE [channel |-> loaded, regs |-> regs]
    IN IF channel.table = Nowhere THEN [channel |-> channel, regs |-> regs]
       ELSE IF fresh /\ ~ readable(channel.table, 1) THEN ended
       ELSE IF fresh /\ descriptor = 0 THEN
              [ended EXCEPT !.channel.count = 0]
       ELSE IF fresh /\ pair /\ ~ readable(after, 2) THEN
              [ended EXCEPT !.channel.count = descriptor]
       ELSE [channel |-> [done.channel EXCEPT
                            !.count = (loaded.count + 2 * RepeatBit - 1) % (2 * RepeatBit)],
             regs |-> done.regs]
=============================================================================

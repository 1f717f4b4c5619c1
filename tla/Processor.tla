----------------------------- MODULE Processor ------------------------------
(***************************************************************************)
(* The 65816 executor (src/execute.c), beside the static width state that  *)
(* the control-flow analysis would carry along the executed path.          *)
(*                                                                         *)
(* What a register or a byte of memory holds is left out, but for what     *)
(* decides how many bytes the next instruction has: the emulation bit, the *)
(* status bits M, X, C and I, and whether X and Y have a high byte.        *)
(***************************************************************************)
EXTENDS Decoder, Sequences

CONSTANTS Operands,        \* operand bytes of REP and SEP
          HandlerOpcodes,  \* what runs within an interrupt handler
          MaxDepth         \* bound on nested interrupts

ASSUME CpuAssumption ==
  /\ Operands \subseteq 0 .. 255 /\ HandlerOpcodes \subseteq 0 .. 255 /\ MaxDepth \in Nat

VARIABLES cpu,       \* [e, m, x, c, i: the bits; xh, yh: X, Y above 255]
          sleep,     \* "run", "wait" (cpu->waiting) or "stop" (cpu->stopped)
          known,     \* the analysis's state of the path being executed
          handlers   \* interrupted code: the pushed status and its known state

cpuVars == <<cpu, sleep, known, handlers>>

Flags == [m : BOOLEAN, x : BOOLEAN, c : BOOLEAN, i : BOOLEAN]

CpuTypeOK ==
  /\ cpu \in [e : BOOLEAN, m : BOOLEAN, x : BOOLEAN, c : BOOLEAN, i : BOOLEAN,
              xh : BOOLEAN, yh : BOOLEAN]
  /\ sleep \in {"run", "wait", "stop"}
  /\ known \in Static
  /\ handlers \in Seq([status : Flags, known : Static])

-----------------------------------------------------------------------------
(* The executor: which opcodes dkc2_cpu_step handles itself, with the      *)
(* operand bytes it fetches, and which operation_for gives to              *)
(* execute_generic.                                                        *)
Fetches0 == {
  \h08, \h0B, \h18, \h1B, \h28, \h2B, \h38, \h3B, \h40, \h48, \h4B, \h58, \h5A, \h5B, \h60, \h68,
  \h6B, \h78, \h7A, \h7B, \h88, \h8A, \h8B, \h98, \h9A, \h9B, \hA8, \hAA, \hAB, \hB8, \hBA, \hBB,
  \hC8, \hCA, \hCB, \hD8, \hDA, \hDB, \hE8, \hEA, \hEB, \hF8, \hFA, \hFB}
Fetches1 == {
  \h00, \h02, \h42, \h10, \h30, \h50, \h70, \h80, \h90, \hB0, \hD0, \hF0, \hC2, \hE2, \hD4}
Fetches2 == {\h20, \h44, \h54, \h4C, \h62, \h6C, \h7C, \h82, \hDC, \hF4, \hFC}
Fetches3 == {\h22, \h5C}

\* The operations whose opcodes lie at the same places of a group.
Group(first) == {first + k : k \in {0, 2, 4, 6, 8, 12, 14, 16, 17, 18, 20, 22, 24, 28, 30}}
ADC == Group(\h61)
SBC == Group(\hE1)
CMP == Group(\hC1)
STA == Group(\h81) \ {\h89}
LogicAndLoad == UNION {Group(b) : b \in {\h01, \h21, \h41, \hA1}}
Shifted(first) == {first, first + 4, first + 8, first + 16, first + 24}
Shifts == UNION {Shifted(b) : b \in {\h06, \h26, \h46, \h66}}
LDX == {\hA2, \hA6, \hAE, \hB6, \hBE}
LDY == {\hA0, \hA4, \hAC, \hB4, \hBC}
CPX == {\hE0, \hE4, \hEC}
CPY == {\hC0, \hC4, \hCC}
StoreIndex == {\h86, \h8E, \h96, \h84, \h8C, \h94}
Others == {\h3A, \hC6, \hCE, \hD6, \hDE, \h1A, \hE6, \hEE, \hF6, \hFE, \h24, \h2C, \h34, \h3C,
           \h89, \h04, \h0C, \h14, \h1C, \h64, \h74, \h9C, \h9E}
\* Mutant: the index compares take the accumulator's width.
IndexWideNoCompare == LDX \cup LDY \cup StoreIndex
IndexWide == LDX \cup LDY \cup CPX \cup CPY \cup StoreIndex
Generic == ADC \cup SBC \cup CMP \cup STA \cup LogicAndLoad \cup Shifts \cup IndexWide \cup Others
WritesCarry == ADC \cup SBC \cup CMP \cup CPX \cup CPY \cup Shifts

Memory8(s) == s.e \/ s.m
Index8(s) == s.e \/ s.x

\* resolve_data_address: operand bytes of an address; a mode it does not know
\* (-1) would stop the run with an invalid argument.
AddressFetches(mode) ==
  CASE mode \in {"d", "dx", "dy", "di", "dxi", "diy", "dli", "dliy", "s", "siy"} -> 1
    [] mode \in {"a", "ax", "ay"} -> 2
    [] mode \in {"l", "lx"} -> 3
    [] OTHER -> -1

\* execute_generic's operand.
GenericFetches(op, s) ==
  LET width8 == IF op \in IndexWide THEN Index8(s) ELSE Memory8(s) IN
  CASE op \notin Generic -> -1
    [] ModeOf(op) \in {"imM", "imX"} -> IF width8 THEN 1 ELSE 2
    [] ModeOf(op) = "acc" -> 0
    [] OTHER -> AddressFetches(ModeOf(op))

\* Bytes dkc2_cpu_step takes from the program for one instruction.
FetchedLength(op, s) ==
  1 + CASE op \in Fetches0 -> 0 [] op \in Fetches1 -> 1 [] op \in Fetches2 -> 2
        [] op \in Fetches3 -> 3 [] OTHER -> GenericFetches(op, s)

-----------------------------------------------------------------------------
TruncateIndexes(s) == IF Index8(s) THEN [s EXCEPT !.xh = FALSE, !.yh = FALSE] ELSE s

\* normalize_emulation_state.
Normalize(s) == IF s.e THEN TruncateIndexes([s EXCEPT !.m = TRUE, !.x = TRUE]) ELSE s

\* Mutant: replace_status without truncate_indexes.
ReplaceOnly(s, p) ==
  [s EXCEPT !.m = p.m \/ s.e, !.x = p.x \/ s.e, !.c = p.c, !.i = p.i]

ReplaceStatus(s, p) ==
  LET new == ReplaceOnly(s, p) IN
  IF ~Index8(s) /\ Index8(new) THEN TruncateIndexes(new) ELSE new

StatusForPush(s, break) ==
  [m |-> s.m \/ s.e, x |-> IF s.e THEN break ELSE s.x, c |-> s.c, i |-> s.i]

Rep(s, mask) ==
  ReplaceStatus(s, [m |-> s.m /\ ~HasM(mask), x |-> s.x /\ ~HasX(mask),
                    c |-> s.c /\ ~HasC(mask), i |-> s.i /\ ~HasI(mask)])
Sep(s, mask) ==
  ReplaceStatus(s, [m |-> s.m \/ HasM(mask), x |-> s.x \/ HasX(mask),
                    c |-> s.c \/ HasC(mask), i |-> s.i \/ HasI(mask)])
Xce(s) == Normalize([s EXCEPT !.e = s.c, !.c = s.e])

WritesX == LDX \cup {\hAA, \hBA, \hBB, \hE8, \hCA, \hFA, \h44, \h54}
WritesY == LDY \cup {\hA8, \h9B, \hC8, \h88, \h7A, \h44, \h54}

\* Every other opcode: the registers and the carry it writes take any value
\* of their width.
Computed(s, op) ==
  [e : {s.e}, m : {s.m}, x : {s.x}, i : {s.i},
   c : IF op \in WritesCarry THEN BOOLEAN ELSE {s.c},
   xh : IF op \notin WritesX THEN {s.xh} ELSE IF Index8(s) THEN {FALSE} ELSE BOOLEAN,
   yh : IF op \notin WritesY THEN {s.yh} ELSE IF Index8(s) THEN {FALSE} ELSE BOOLEAN]

Interrupts == {\h00, \h02, \h40}   \* BRK, COP and RTI
StatusOps == {\h18, \h28, \h38, \h58, \h78, \hC2, \hE2, \hFB}

\* What an opcode of StatusOps makes of the status; PLP pulls any byte.
StatusEffect(s, op, mask) ==
  CASE op = \h18 -> {[s EXCEPT !.c = FALSE]}
    [] op = \h38 -> {[s EXCEPT !.c = TRUE]}
    [] op = \h58 -> {[s EXCEPT !.i = FALSE]}
    [] op = \h78 -> {[s EXCEPT !.i = TRUE]}
    [] op = \hC2 -> {Rep(s, mask)}
    [] op = \hE2 -> {Sep(s, mask)}
    [] op = \hFB -> {Xce(s)}
    [] op = \h28 -> {ReplaceStatus(s, p) : p \in Flags}

\* dkc2_cpu_step, but for the instructions that enter or leave a handler.
Execute(op, mask) ==
  /\ sleep = "run" /\ op \notin Interrupts
  /\ handlers = <<>> \/ op \in HandlerOpcodes
  /\ cpu' \in {Normalize(s) : s \in IF op \in StatusOps THEN StatusEffect(Normalize(cpu), op, mask)
                                    ELSE Computed(Normalize(cpu), op)}
  /\ sleep' = CASE op = \hCB -> "wait" [] op = \hDB -> "stop" [] OTHER -> "run"
  /\ known' = Apply(known, op, mask)
  /\ UNCHANGED handlers

\* enter_interrupt.  The analysis starts anew at a native NMI or IRQ vector
\* and knows nothing of the other vectors.
Enter(break) ==
  /\ Len(handlers) < MaxDepth
  /\ handlers' = Append(handlers, [status |-> StatusForPush(Normalize(cpu), break),
                                   known |-> IF cpu.e THEN Lost ELSE known])
  /\ cpu' = Normalize([Normalize(cpu) EXCEPT !.i = TRUE])
  /\ sleep' = "run"
  /\ known' = IF cpu.e \/ break THEN Lost ELSE NativeEntry

Trap == sleep = "run" /\ Enter(TRUE)
Nmi  == sleep # "stop" /\ Enter(FALSE)
Irq  == sleep # "stop" /\ ~cpu.i /\ Enter(FALSE)

\* RTI pulls the status the last handler was entered with, or, outside of
\* one, any byte the program has pushed.
Rti ==
  /\ sleep = "run"
  /\ \/ /\ handlers # <<>>
        /\ LET last == handlers[Len(handlers)] IN
           /\ cpu' = Normalize(ReplaceStatus(Normalize(cpu), last.status))
           /\ known' = IF cpu.e THEN Lost ELSE last.known
        /\ handlers' = SubSeq(handlers, 1, Len(handlers) - 1)
     \/ /\ handlers = <<>>
        /\ \E p \in Flags : cpu' = Normalize(ReplaceStatus(Normalize(cpu), p))
        /\ known' = Lost
        /\ UNCHANGED handlers
  /\ UNCHANGED sleep

\* dkc2_cpu_reset.
CpuReset ==
  /\ cpu' = [e |-> TRUE, m |-> TRUE, x |-> TRUE, c |-> FALSE, i |-> TRUE,
             xh |-> FALSE, yh |-> FALSE]
  /\ sleep' = "run" /\ known' = ResetEntry /\ handlers' = <<>>

CpuInit ==
  /\ cpu = [e |-> TRUE, m |-> TRUE, x |-> TRUE, c |-> FALSE, i |-> TRUE,
            xh |-> FALSE, yh |-> FALSE]
  /\ sleep = "run" /\ known = ResetEntry /\ handlers = <<>>

CpuNext ==
  \/ \E op \in Opcodes : \E mask \in IF op \in {\hC2, \hE2} THEN Operands ELSE {0} : Execute(op, mask)
  \/ Trap \/ Nmi \/ Irq \/ Rti \/ CpuReset

CpuSpec == CpuInit /\ [][CpuNext]_cpuVars

-----------------------------------------------------------------------------
Agrees(k, bit) == k # "?" => (k = "1" <=> bit)
CoversFlags(k, s) == Agrees(k.m, s.m) /\ Agrees(k.x, s.x) /\ Agrees(k.c, s.c)

\* What the analysis knows of a path holds of the processor on it, through
\* every mode switch and over handlers that interrupt the path.
StaticCovers == Agrees(known.e, cpu.e) /\ CoversFlags(known, cpu)

\* Known and real widths with which the decoder and the executor agree on the
\* length of every opcode whose length the decoder finds, and the executor
\* finds an operand for every opcode.
Widths ==
  {[m |-> m, x |-> x, m8 |-> m8, x8 |-> x8] :
     m \in KnownBit, x \in KnownBit, m8 \in BOOLEAN, x8 \in BOOLEAN}
Agreeing ==
  {w \in Widths :
     \A op \in Opcodes :
       LET fetched == FetchedLength(op, [e |-> FALSE, m |-> w.m8, x |-> w.x8]) IN
       fetched > 0 /\ DecodedLength(op, [m |-> w.m, x |-> w.x]) \in {0, fetched}}

\* Wherever the decoder finds a length, the executor takes as many bytes, so
\* that the analysis and the console walk the same instructions.
LengthsAgree ==
  [m |-> known.m, x |-> known.x, m8 |-> Memory8(cpu), x8 |-> Index8(cpu)] \in Agreeing

\* Eight-bit index registers have no high byte when 16-bit addressing uses
\* them, and emulation has 8-bit widths.
WidthsKept == (cpu.e => cpu.m /\ cpu.x) /\ (Index8(cpu) => ~cpu.xh /\ ~cpu.yh)
=============================================================================

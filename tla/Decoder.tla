------------------------------ MODULE Decoder -------------------------------
(***************************************************************************)
(* The 65816 instruction decoder (src/decode.c) and the static width state *)
(* (src/cpu.c) the control-flow analysis carries along a path: what is     *)
(* known of the emulation bit, the two width bits and the carry.           *)
(***************************************************************************)
EXTENDS Integers

Opcodes == 0 .. 255
KnownBit == {"0", "1", "?"}
Static == [e : KnownBit, m : KnownBit, x : KnownBit, c : KnownBit]
Lost == [e |-> "?", m |-> "?", x |-> "?", c |-> "?"]
ResetEntry == [e |-> "1", m |-> "1", x |-> "1", c |-> "?"]
NativeEntry == [e |-> "0", m |-> "?", x |-> "?", c |-> "?"]

-----------------------------------------------------------------------------
(* The decoder.  Operand modes, one line for each row of sixteen opcodes:  *)
(* im8 imM imX immediate, d direct, a absolute, l long, s stack, r branch, *)
(* with x and y for the index, i for indirect and l for long indirect;     *)
(* imp and acc have no operand, bm is a block move.                        *)
AddressingModes == <<
  <<"im8","dxi","im8","s","d","d","d","dli","imp","imM","acc","imp","a","a","a","l">>,
  <<"r8","diy","di","siy","d","dx","dx","dliy","imp","ay","acc","imp","a","ax","ax","lx">>,
  <<"a","dxi","l","s","d","d","d","dli","imp","imM","acc","imp","a","a","a","l">>,
  <<"r8","diy","di","siy","dx","dx","dx","dliy","imp","ay","acc","imp","ax","ax","ax","lx">>,
  <<"imp","dxi","im8","s","bm","d","d","dli","imp","imM","acc","imp","a","a","a","l">>,
  <<"r8","diy","di","siy","bm","dx","dx","dliy","imp","ay","imp","imp","l","ax","ax","lx">>,
  <<"imp","dxi","r16","s","d","d","d","dli","imp","imM","acc","imp","ai","a","a","l">>,
  <<"r8","diy","di","siy","dx","dx","dx","dliy","imp","ay","imp","imp","axi","ax","ax","lx">>,
  <<"r8","dxi","r16","s","d","d","d","dli","imp","imM","imp","imp","a","a","a","l">>,
  <<"r8","diy","di","siy","dx","dx","dy","dliy","imp","ay","imp","imp","a","ax","ax","lx">>,
  <<"imX","dxi","imX","s","d","d","d","dli","imp","imM","imp","imp","a","a","a","l">>,
  <<"r8","diy","di","siy","dx","dx","dy","dliy","imp","ay","imp","imp","ax","ax","ay","lx">>,
  <<"imX","dxi","im8","s","d","d","d","dli","imp","imM","imp","imp","a","a","a","l">>,
  <<"r8","diy","di","siy","di","dx","dx","dliy","imp","ay","imp","imp","ali","ax","ax","lx">>,
  <<"imX","dxi","im8","s","d","d","d","dli","imp","imM","imp","imp","a","a","a","l">>,
  <<"r8","diy","di","siy","a","dx","dx","dliy","imp","ay","imp","imp","axi","ax","ax","lx">> >>

ModeOf(op) == AddressingModes[(op \div 16) + 1][(op % 16) + 1]

\* The opcodes that do not go on to the next instruction, or not only.
FlowOf(op) ==
  CASE op \in {\h10, \h30, \h50, \h70, \h90, \hB0, \hD0, \hF0} -> "conditional"
    [] op \in {\h80, \h82} -> "branch"
    [] op \in {\h20, \h22} -> "call"
    [] op = \hFC -> "indirectCall"
    [] op \in {\h4C, \h5C} -> "jump"
    [] op \in {\h6C, \h7C, \hDC} -> "indirectJump"
    [] op \in {\h40, \h60, \h6B} -> "return"
    [] op \in {\h00, \h02} -> "trap"
    [] op = \hDB -> "stop"
    [] OTHER -> "next"

\* fixed_length; 0 stands for the two modes whose width is a flag's.
FixedLength(mode) ==
  CASE mode \in {"imp", "acc"} -> 1
    [] mode \in {"im8", "d", "dx", "dy", "di", "dxi", "diy", "dli", "dliy", "s", "siy", "r8"} -> 2
    [] mode \in {"a", "ax", "ay", "ai", "axi", "ali", "r16", "bm"} -> 3
    [] mode \in {"l", "lx"} -> 4
    [] OTHER -> 0

ByWidth(bit) == CASE bit = "?" -> 0 [] bit = "1" -> 2 [] bit = "0" -> 3

\* dkc2_decode_instruction: the length it finds, 0 when the width is unknown.
DecodedLength(op, k) ==
  CASE ModeOf(op) = "imM" -> ByWidth(k.m)
    [] ModeOf(op) = "imX" -> ByWidth(k.x)
    [] OTHER -> FixedLength(ModeOf(op))

-----------------------------------------------------------------------------
(* The static width state.                                                 *)
EmulationConstraint(k) ==
  CASE k.e = "1" -> [k EXCEPT !.m = "1", !.x = "1"]
    [] k.e = "?" -> [k EXCEPT !.m = IF @ = "1" THEN "1" ELSE "?",
                              !.x = IF @ = "1" THEN "1" ELSE "?"]
    [] OTHER -> k

ChangesCarry == {
  \h06, \h0A, \h0E, \h16, \h1E, \h26, \h2A, \h2E, \h36, \h3E, \h46, \h4A, \h4E, \h56, \h5E,
  \h61, \h63, \h65, \h67, \h69, \h6D, \h6F, \h71, \h72, \h73, \h75, \h77, \h79, \h7D, \h7F,
  \h66, \h6A, \h6E, \h76, \h7E, \hC0, \hC4, \hCC, \hC1, \hC3, \hC5, \hC7, \hC9, \hCD, \hCF,
  \hD1, \hD2, \hD3, \hD5, \hD7, \hD9, \hDD, \hDF, \hE0, \hE4, \hEC, \hE1, \hE3, \hE5, \hE7,
  \hE9, \hED, \hEF, \hF1, \hF2, \hF3, \hF5, \hF7, \hF9, \hFD, \hFF}

\* What a mask of REP or SEP selects.
HasC(mask) == mask % 2 = 1
HasI(mask) == (mask \div 4) % 2 = 1
HasX(mask) == (mask \div 16) % 2 = 1
HasM(mask) == (mask \div 32) % 2 = 1

\* REP clears a width only where the processor is known to be native.
ClearedWidth(k) == CASE k.e = "0" -> "0" [] k.e = "1" -> "1" [] OTHER -> "?"

RepState(k, mask) ==
  [k EXCEPT !.c = IF HasC(mask) THEN "0" ELSE @,
            !.m = IF HasM(mask) THEN ClearedWidth(k) ELSE @,
            !.x = IF HasX(mask) THEN ClearedWidth(k) ELSE @]

SepState(k, mask) ==
  [k EXCEPT !.c = IF HasC(mask) THEN "1" ELSE @,
            !.m = IF HasM(mask) THEN "1" ELSE @,
            !.x = IF HasX(mask) THEN "1" ELSE @]

\* Mutant: XCE keeps the widths known before it.
XceKeepsWidths(k) == [k EXCEPT !.e = k.c, !.c = k.e]

XceState(k) == EmulationConstraint([k EXCEPT !.e = k.c, !.c = k.e])

\* dkc2_decode_state_apply.
Apply(k, op, mask) ==
  CASE op = \h18 -> [k EXCEPT !.c = "0"]
    [] op = \h38 -> [k EXCEPT !.c = "1"]
    [] op = \h28 -> EmulationConstraint([k EXCEPT !.c = "?", !.m = "?", !.x = "?"])
    [] op = \hC2 -> RepState(k, mask)
    [] op = \hE2 -> SepState(k, mask)
    [] op = \hFB -> XceState(k)
    [] op \in ChangesCarry -> [k EXCEPT !.c = "?"]
    [] OTHER -> k
=============================================================================

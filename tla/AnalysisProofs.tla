--------------------------- MODULE AnalysisProofs ---------------------------
(***************************************************************************)
(* The executor, for every set of REP and SEP operands, every set of       *)
(* opcodes handlers run and every nesting of interrupts: the widths the    *)
(* analysis knows are the processor's, and short index registers stay      *)
(* short.  So the decoder and the executor agree on the length of every    *)
(* instruction on the path: their two tables are compared row by row.      *)
(*                                                                         *)
(* The analyzer, for every program, every size of its bank and every       *)
(* instruction limit: its four arrays never fill up while a path goes on,  *)
(* so that none of the silent drops of queue, record_edge and record_call  *)
(* happens.                                                                *)
(*                                                                         *)
(* The ports, for every size of their memories and every program:          *)
(* PortsKept. What a port does is stated once for each (OamWrites,         *)
(* VramWrites, ...), with all it leaves alone; a transfer is a run of      *)
(* bytes, each of which finds what the bytes before it have left.          *)
(*                                                                         *)
(* Addition, subtraction and comparison, in both widths and for every set  *)
(* of operands: AluMeetsReference, the sums of numbers that the digits of  *)
(* the loops spell.                                                        *)
(***************************************************************************)
EXTENDS Processor, ControlFlow, VideoPorts, Arithmetic, WellFoundedInduction, TLAPS

\* A saved frame: where the analysis kept its state the frame was entered
\* from native mode, and the pushed status carries what was known.
FrameCovered(f) ==
  /\ Agrees(f.known.e, FALSE)
  /\ CoversFlags(f.known, f.status)

CpuInv == CpuTypeOK /\ StaticCovers /\ WidthsKept /\ \A k \in DOMAIN handlers : FrameCovered(handlers[k])

State == [e : BOOLEAN, m : BOOLEAN, x : BOOLEAN, c : BOOLEAN, i : BOOLEAN, xh : BOOLEAN, yh : BOOLEAN]
Short(s) == (s.e => s.m /\ s.x) /\ (Index8(s) => ~s.xh /\ ~s.yh)
Covers(k, s) == Agrees(k.e, s.e) /\ CoversFlags(k, s)

-----------------------------------------------------------------------------
\* normalize_emulation_state yields short registers and is the identity on
\* a state that has them.
LEMMA NormalizeShort ==
  ASSUME NEW s \in State
  PROVE  Normalize(s) \in State /\ (Normalize(s).e = s.e) /\ (s.e => Short(Normalize(s)))
         /\ (~s.e => Normalize(s) = s) /\ (Short(s) => Normalize(s) = s)
BY DEF State, Normalize, TruncateIndexes, Index8, Short

\* replace_status keeps them short.
LEMMA OnlyStatus ==
  ASSUME NEW s \in State, NEW p \in Flags
  PROVE  /\ ReplaceOnly(s, p) \in State /\ ReplaceOnly(s, p).e = s.e
         /\ ReplaceOnly(s, p).m = (p.m \/ s.e) /\ ReplaceOnly(s, p).x = (p.x \/ s.e)
         /\ ReplaceOnly(s, p).c = p.c
         /\ ReplaceOnly(s, p).xh = s.xh /\ ReplaceOnly(s, p).yh = s.yh
<1> DEFINE t == ReplaceOnly(s, p)
<1>1. t \in State
  <2> DEFINE m == p.m \/ s.e  x == p.x \/ s.e
  <2>1. m \in BOOLEAN /\ x \in BOOLEAN
    BY Zenon
  <2>2. p.c \in BOOLEAN /\ p.i \in BOOLEAN
    BY ONLY p \in Flags DEF Flags
  <2>3. t = [s EXCEPT !.m = m, !.x = x, !.c = p.c, !.i = p.i]
    BY Zenon DEF ReplaceOnly
  <2> HIDE DEF m, x, t
  <2> QED BY ONLY <2>1, <2>2, <2>3, s \in State DEF State
<1>2. /\ t.e = s.e /\ t.m = (p.m \/ s.e) /\ t.x = (p.x \/ s.e)
      /\ t.c = p.c /\ t.xh = s.xh /\ t.yh = s.yh
  BY Zenon DEF State, ReplaceOnly
<1> QED BY Zenon, <1>1, <1>2

LEMMA TruncatedShort ==
  ASSUME NEW s \in State, s.e => s.m /\ s.x
  PROVE  /\ TruncateIndexes(s) \in State /\ Short(TruncateIndexes(s))
         /\ TruncateIndexes(s).e = s.e /\ TruncateIndexes(s).m = s.m
         /\ TruncateIndexes(s).x = s.x /\ TruncateIndexes(s).c = s.c
BY DEF State, TruncateIndexes, Index8, Short

LEMMA ReplaceShort ==
  ASSUME NEW s \in State, Short(s), NEW p \in Flags
  PROVE  /\ ReplaceStatus(s, p) \in State /\ Short(ReplaceStatus(s, p))
         /\ ReplaceStatus(s, p).e = s.e /\ ReplaceStatus(s, p).c = p.c
         /\ ReplaceStatus(s, p).m = (p.m \/ s.e) /\ ReplaceStatus(s, p).x = (p.x \/ s.e)
<1> DEFINE new == ReplaceOnly(s, p)
<1>1. /\ new \in State /\ new.e = s.e /\ new.c = p.c
      /\ new.m = (p.m \/ s.e) /\ new.x = (p.x \/ s.e) /\ new.xh = s.xh /\ new.yh = s.yh
  BY OnlyStatus
<1>2. new.e => new.m /\ new.x
  BY <1>1
<1>3. CASE ~Index8(s) /\ Index8(new)
  <2>1. ReplaceStatus(s, p) = TruncateIndexes(new)
    BY <1>3 DEF ReplaceStatus
  <2> QED BY <2>1, <1>1, <1>2, TruncatedShort
<1>4. CASE ~(~Index8(s) /\ Index8(new))
  <2>1. ReplaceStatus(s, p) = new
    BY <1>4 DEF ReplaceStatus
  <2>2. Short(new)
    BY <1>1, <1>2, <1>4 DEF Short
  <2> QED BY <2>1, <2>2, <1>1
<1> QED BY <1>3, <1>4

\* dkc2_decode_state_apply assumes a changed carry wherever the executor
\* writes one.
LEMMA CarryWritersAreKnown == WritesCarry \subseteq ChangesCarry
BY DEF WritesCarry, ChangesCarry, ADC, SBC, CMP, CPX, CPY, Shifts, Group, Shifted
-----------------------------------------------------------------------------
(* Each instruction that changes the status, by opcode.                    *)

\* None of them is in the table of opcodes that leave an unknown carry.
LEMMA StatusApplied ==
  ASSUME NEW k, NEW mask
  PROVE  /\ Apply(k, \h18, mask) = [k EXCEPT !.c = "0"]
         /\ Apply(k, \h38, mask) = [k EXCEPT !.c = "1"]
         /\ Apply(k, \h58, mask) = k /\ Apply(k, \h78, mask) = k
         /\ Apply(k, \h28, mask) = EmulationConstraint([k EXCEPT !.c = "?", !.m = "?", !.x = "?"])
         /\ Apply(k, \hFB, mask) = XceState(k)
BY DEF Apply, ChangesCarry

LEMMA RepApplied == ASSUME NEW k, NEW mask PROVE Apply(k, \hC2, mask) = RepState(k, mask)
BY DEF Apply, ChangesCarry

LEMMA SepApplied == ASSUME NEW k, NEW mask PROVE Apply(k, \hE2, mask) = SepState(k, mask)
BY DEF Apply, ChangesCarry

LEMMA StatusEffects ==
  ASSUME NEW s, NEW mask, NEW t
  PROVE  /\ t \in StatusEffect(s, \h18, mask) => t = [s EXCEPT !.c = FALSE]
         /\ t \in StatusEffect(s, \h38, mask) => t = [s EXCEPT !.c = TRUE]
         /\ t \in StatusEffect(s, \h58, mask) => t = [s EXCEPT !.i = FALSE]
         /\ t \in StatusEffect(s, \h78, mask) => t = [s EXCEPT !.i = TRUE]
         /\ t \in StatusEffect(s, \hC2, mask) => t = Rep(s, mask)
         /\ t \in StatusEffect(s, \hE2, mask) => t = Sep(s, mask)
         /\ t \in StatusEffect(s, \hFB, mask) => t = Xce(s)
         /\ t \in StatusEffect(s, \h28, mask) => \E p \in Flags : t = ReplaceStatus(s, p)
<1>1. /\ StatusEffect(s, \h18, mask) = {[s EXCEPT !.c = FALSE]}
      /\ StatusEffect(s, \h38, mask) = {[s EXCEPT !.c = TRUE]}
      /\ StatusEffect(s, \h58, mask) = {[s EXCEPT !.i = FALSE]}
      /\ StatusEffect(s, \h78, mask) = {[s EXCEPT !.i = TRUE]}
      /\ StatusEffect(s, \hC2, mask) = {Rep(s, mask)}
      /\ StatusEffect(s, \hE2, mask) = {Sep(s, mask)}
      /\ StatusEffect(s, \hFB, mask) = {Xce(s)}
      /\ StatusEffect(s, \h28, mask) = {ReplaceStatus(s, p) : p \in Flags}
  BY DEF StatusEffect
<1> QED BY Zenon, <1>1

\* Fields of a state with one bit replaced.
LEMMA WithCarry ==
  ASSUME NEW s \in State, NEW b \in BOOLEAN
  PROVE  LET t == [s EXCEPT !.c = b] IN
         /\ t \in State /\ t.e = s.e /\ t.m = s.m /\ t.x = s.x /\ t.c = b
         /\ t.xh = s.xh /\ t.yh = s.yh
BY Zenon DEF State

LEMMA WithMask ==
  ASSUME NEW s \in State, NEW b \in BOOLEAN
  PROVE  LET t == [s EXCEPT !.i = b] IN
         /\ t \in State /\ t.e = s.e /\ t.m = s.m /\ t.x = s.x /\ t.c = s.c
         /\ t.xh = s.xh /\ t.yh = s.yh
BY Zenon DEF State

LEMMA KnowsCarry ==
  ASSUME NEW k \in Static, NEW v \in KnownBit
  PROVE  LET j == [k EXCEPT !.c = v] IN j \in Static /\ j.e = k.e /\ j.m = k.m /\ j.x = k.x /\ j.c = v
BY DEF Static, KnownBit

LEMMA ClearCarry ==   \* CLC
  ASSUME NEW s \in State, Short(s), NEW k \in Static, Covers(k, s), NEW mask,
         NEW t \in StatusEffect(s, \h18, mask)
  PROVE  t \in State /\ Short(t) /\ Apply(k, \h18, mask) \in Static /\ Covers(Apply(k, \h18, mask), t)
<1>1. t = [s EXCEPT !.c = FALSE] /\ Apply(k, \h18, mask) = [k EXCEPT !.c = "0"]
  <2>1. StatusEffect(s, \h18, mask) = {[s EXCEPT !.c = FALSE]}
    BY DEF StatusEffect
  <2>2. t = [s EXCEPT !.c = FALSE]
    BY Zenon, <2>1
  <2>3. Apply(k, \h18, mask) = [k EXCEPT !.c = "0"]
    BY Zenon, StatusApplied
  <2> QED BY Zenon, <2>2, <2>3
<1>2. /\ t \in State /\ t.e = s.e /\ t.m = s.m /\ t.x = s.x /\ t.c = FALSE
      /\ t.xh = s.xh /\ t.yh = s.yh
  BY Zenon, <1>1, WithCarry
<1>3. /\ [k EXCEPT !.c = "0"] \in Static /\ [k EXCEPT !.c = "0"].e = k.e
      /\ [k EXCEPT !.c = "0"].m = k.m /\ [k EXCEPT !.c = "0"].x = k.x
      /\ [k EXCEPT !.c = "0"].c = "0"
  BY KnowsCarry DEF KnownBit
<1> DEFINE j == Apply(k, \h18, mask)
<1>4. /\ j \in Static /\ j.e = k.e /\ j.m = k.m /\ j.x = k.x /\ j.c = "0"
  BY Zenon, <1>1, <1>3
<1> HIDE DEF j
<1>5. Short(t) /\ Covers(j, t)
  BY <1>2, <1>4 DEF Short, Index8, Covers, CoversFlags, Agrees
<1> QED BY <1>2, <1>4, <1>5 DEF j

LEMMA SetCarry ==   \* SEC
  ASSUME NEW s \in State, Short(s), NEW k \in Static, Covers(k, s), NEW mask,
         NEW t \in StatusEffect(s, \h38, mask)
  PROVE  t \in State /\ Short(t) /\ Apply(k, \h38, mask) \in Static /\ Covers(Apply(k, \h38, mask), t)
<1>1. t = [s EXCEPT !.c = TRUE] /\ Apply(k, \h38, mask) = [k EXCEPT !.c = "1"]
  <2>1. StatusEffect(s, \h38, mask) = {[s EXCEPT !.c = TRUE]}
    BY DEF StatusEffect
  <2>2. t = [s EXCEPT !.c = TRUE]
    BY Zenon, <2>1
  <2>3. Apply(k, \h38, mask) = [k EXCEPT !.c = "1"]
    BY Zenon, StatusApplied
  <2> QED BY Zenon, <2>2, <2>3
<1>2. /\ t \in State /\ t.e = s.e /\ t.m = s.m /\ t.x = s.x /\ t.c = TRUE
      /\ t.xh = s.xh /\ t.yh = s.yh
  BY Zenon, <1>1, WithCarry
<1>3. /\ [k EXCEPT !.c = "1"] \in Static /\ [k EXCEPT !.c = "1"].e = k.e
      /\ [k EXCEPT !.c = "1"].m = k.m /\ [k EXCEPT !.c = "1"].x = k.x
      /\ [k EXCEPT !.c = "1"].c = "1"
  BY KnowsCarry DEF KnownBit
<1> DEFINE j == Apply(k, \h38, mask)
<1>4. /\ j \in Static /\ j.e = k.e /\ j.m = k.m /\ j.x = k.x /\ j.c = "1"
  BY Zenon, <1>1, <1>3
<1> HIDE DEF j
<1>5. Short(t) /\ Covers(j, t)
  BY <1>2, <1>4 DEF Short, Index8, Covers, CoversFlags, Agrees
<1> QED BY <1>2, <1>4, <1>5 DEF j

LEMMA MaskIrq ==   \* CLI, SEI
  ASSUME NEW s \in State, Short(s), NEW k \in Static, Covers(k, s), NEW mask,
         NEW t, t = [s EXCEPT !.i = FALSE] \/ t = [s EXCEPT !.i = TRUE]
  PROVE  t \in State /\ Short(t) /\ Covers(k, t)
<1>1. /\ t \in State /\ t.e = s.e /\ t.m = s.m /\ t.x = s.x /\ t.c = s.c
      /\ t.xh = s.xh /\ t.yh = s.yh
  BY WithMask
<1> QED BY <1>1 DEF Short, Index8, Covers, CoversFlags, Agrees

LEMMA Constrained ==
  ASSUME NEW k \in Static
  PROVE  LET j == EmulationConstraint(k) IN
         /\ j \in Static /\ j.e = k.e /\ j.c = k.c
         /\ k.e = "1" => j.m = "1" /\ j.x = "1"
         /\ k.e # "1" => (j.m = "?" \/ j.m = k.m) /\ (j.x = "?" \/ j.x = k.x)
         /\ k.e = "?" => (j.m = "?" \/ j.m = "1") /\ (j.x = "?" \/ j.x = "1")
BY DEF EmulationConstraint, Static, KnownBit

LEMMA PullStatus ==   \* PLP
  ASSUME NEW s \in State, Short(s), NEW k \in Static, Covers(k, s), NEW mask,
         NEW t \in StatusEffect(s, \h28, mask)
  PROVE  t \in State /\ Short(t) /\ Apply(k, \h28, mask) \in Static /\ Covers(Apply(k, \h28, mask), t)
<1> DEFINE u == [k EXCEPT !.c = "?", !.m = "?", !.x = "?"]
           j == Apply(k, \h28, mask)
<1>1. PICK p \in Flags : t = ReplaceStatus(s, p)
  BY StatusEffects
<1>2. t \in State /\ Short(t) /\ t.e = s.e
  BY <1>1, ReplaceShort
<1>3. u \in Static /\ u.e = k.e /\ u.c = "?" /\ u.m = "?" /\ u.x = "?"
  BY DEF Static, KnownBit
<1>4. j = EmulationConstraint(u)
  BY Zenon, StatusApplied
<1> HIDE DEF u, j
<1>5. /\ j \in Static /\ j.e = k.e /\ j.c = "?"
      /\ k.e = "1" => j.m = "1" /\ j.x = "1"
      /\ k.e # "1" => j.m = "?" /\ j.x = "?"
  BY <1>3, <1>4, Constrained
<1>6. Covers(j, t)
  BY <1>2, <1>5 DEF Short, Covers, CoversFlags, Agrees
<1> QED BY <1>2, <1>5, <1>6 DEF j

LEMMA RepKnown ==
  ASSUME NEW k \in Static, NEW mask
  PROVE  LET j == RepState(k, mask) IN
         /\ j \in Static /\ j.e = k.e
         /\ j.c = IF HasC(mask) THEN "0" ELSE k.c
         /\ j.m = IF HasM(mask) THEN k.e ELSE k.m
         /\ j.x = IF HasX(mask) THEN k.e ELSE k.x
BY DEF RepState, ClearedWidth, Static, KnownBit

LEMMA SepKnown ==
  ASSUME NEW k \in Static, NEW mask
  PROVE  LET j == SepState(k, mask) IN
         /\ j \in Static /\ j.e = k.e
         /\ j.c = IF HasC(mask) THEN "1" ELSE k.c
         /\ j.m = IF HasM(mask) THEN "1" ELSE k.m
         /\ j.x = IF HasX(mask) THEN "1" ELSE k.x
BY DEF SepState, Static, KnownBit

LEMMA FlagsAre ==
  ASSUME NEW m \in BOOLEAN, NEW x \in BOOLEAN, NEW c \in BOOLEAN, NEW i \in BOOLEAN
  PROVE  [m |-> m, x |-> x, c |-> c, i |-> i] \in Flags
BY DEF Flags

LEMMA ClearBits ==   \* REP
  ASSUME NEW s \in State, Short(s), NEW k \in Static, Covers(k, s), NEW mask,
         NEW t \in StatusEffect(s, \hC2, mask)
  PROVE  t \in State /\ Short(t) /\ Apply(k, \hC2, mask) \in Static /\ Covers(Apply(k, \hC2, mask), t)
<1> DEFINE p == [m |-> s.m /\ ~HasM(mask), x |-> s.x /\ ~HasX(mask),
                 c |-> s.c /\ ~HasC(mask), i |-> s.i /\ ~HasI(mask)]
           j == Apply(k, \hC2, mask)
<1>1. t = ReplaceStatus(s, p)
  <2>1. t = Rep(s, mask)
    BY StatusEffects
  <2> QED BY Zenon, <2>1 DEF Rep
<1>2. /\ p \in Flags /\ p.m = (s.m /\ ~HasM(mask)) /\ p.x = (s.x /\ ~HasX(mask))
      /\ p.c = (s.c /\ ~HasC(mask))
  <2>1. /\ (s.m /\ ~HasM(mask)) \in BOOLEAN /\ (s.x /\ ~HasX(mask)) \in BOOLEAN
        /\ (s.c /\ ~HasC(mask)) \in BOOLEAN /\ (s.i /\ ~HasI(mask)) \in BOOLEAN
    BY Zenon
  <2>2. p \in Flags
    BY ONLY <2>1, FlagsAre
  <2> QED BY Zenon, <2>2
<1> HIDE DEF p
<1>3. j = RepState(k, mask)
  BY ONLY Zenon, RepApplied
<1> HIDE DEF j
<1>4. t \in State /\ Short(t) /\ t.e = s.e /\ t.c = p.c /\ t.m = (p.m \/ s.e) /\ t.x = (p.x \/ s.e)
  BY Zenon, <1>1, <1>2, ReplaceShort
<1>5. /\ t.e <=> s.e
      /\ t.c <=> s.c /\ ~HasC(mask)
      /\ t.m <=> (s.m /\ ~HasM(mask)) \/ s.e
      /\ t.x <=> (s.x /\ ~HasX(mask)) \/ s.e
  BY Zenon, <1>2, <1>4
<1>6. /\ j \in Static /\ j.e = k.e
      /\ j.c = IF HasC(mask) THEN "0" ELSE k.c
      /\ j.m = IF HasM(mask) THEN k.e ELSE k.m
      /\ j.x = IF HasX(mask) THEN k.e ELSE k.x
  BY Zenon, <1>3, RepKnown
<1>7. Covers(j, t)
  BY <1>5, <1>6 DEF Short, Covers, CoversFlags, Agrees, Static, KnownBit
<1> QED BY <1>4, <1>6, <1>7 DEF j

LEMMA SetBits ==   \* SEP
  ASSUME NEW s \in State, Short(s), NEW k \in Static, Covers(k, s), NEW mask,
         NEW t \in StatusEffect(s, \hE2, mask)
  PROVE  t \in State /\ Short(t) /\ Apply(k, \hE2, mask) \in Static /\ Covers(Apply(k, \hE2, mask), t)
<1> DEFINE p == [m |-> s.m \/ HasM(mask), x |-> s.x \/ HasX(mask),
                 c |-> s.c \/ HasC(mask), i |-> s.i \/ HasI(mask)]
           j == Apply(k, \hE2, mask)
<1>1. t = ReplaceStatus(s, p)
  <2>1. t = Sep(s, mask)
    BY StatusEffects
  <2> QED BY Zenon, <2>1 DEF Sep
<1>2. /\ p \in Flags /\ p.m = (s.m \/ HasM(mask)) /\ p.x = (s.x \/ HasX(mask))
      /\ p.c = (s.c \/ HasC(mask))
  <2>1. /\ (s.m \/ HasM(mask)) \in BOOLEAN /\ (s.x \/ HasX(mask)) \in BOOLEAN
        /\ (s.c \/ HasC(mask)) \in BOOLEAN /\ (s.i \/ HasI(mask)) \in BOOLEAN
    BY Zenon
  <2>2. p \in Flags
    BY ONLY <2>1, FlagsAre
  <2> QED BY Zenon, <2>2
<1> HIDE DEF p
<1>3. j = SepState(k, mask)
  BY ONLY Zenon, SepApplied
<1> HIDE DEF j
<1>4. t \in State /\ Short(t) /\ t.e = s.e /\ t.c = p.c /\ t.m = (p.m \/ s.e) /\ t.x = (p.x \/ s.e)
  BY Zenon, <1>1, <1>2, ReplaceShort
<1>5. /\ t.e <=> s.e
      /\ t.c <=> s.c \/ HasC(mask)
      /\ t.m <=> s.m \/ HasM(mask) \/ s.e
      /\ t.x <=> s.x \/ HasX(mask) \/ s.e
  BY Zenon, <1>2, <1>4
<1>6. /\ j \in Static /\ j.e = k.e
      /\ j.c = IF HasC(mask) THEN "1" ELSE k.c
      /\ j.m = IF HasM(mask) THEN "1" ELSE k.m
      /\ j.x = IF HasX(mask) THEN "1" ELSE k.x
  BY Zenon, <1>3, SepKnown
<1>7. Covers(j, t)
  BY <1>5, <1>6 DEF Short, Covers, CoversFlags, Agrees, Static, KnownBit
<1> QED BY <1>4, <1>6, <1>7 DEF j

LEMMA Normalized ==
  ASSUME NEW u \in State
  PROVE  LET t == Normalize(u) IN
         /\ t \in State /\ t.e = u.e /\ t.c = u.c
         /\ t.m = (u.m \/ u.e) /\ t.x = (u.x \/ u.e)
<1> DEFINE w == [u EXCEPT !.m = TRUE, !.x = TRUE]
<1>1. /\ w \in State /\ w.e = u.e /\ w.c = u.c /\ w.m = TRUE /\ w.x = TRUE
  BY Zenon DEF State
<1>2. CASE u.e
  <2>1. Normalize(u) = TruncateIndexes(w)
    BY Zenon, <1>2 DEF Normalize
  <2> QED BY Zenon, <2>1, <1>1, <1>2, TruncatedShort
<1>3. CASE ~u.e
  <2>1. Normalize(u) = u
    BY Zenon, <1>3 DEF Normalize
  <2>2. u.m \in BOOLEAN /\ u.x \in BOOLEAN /\ u.e \in BOOLEAN
    BY DEF State
  <2>3. u.m = (u.m \/ u.e) /\ u.x = (u.x \/ u.e)
    BY Zenon, <2>2, <1>3
  <2> QED BY Zenon, <2>1, <2>3
<1> QED BY <1>2, <1>3

LEMMA SwitchMode ==   \* XCE
  ASSUME NEW s \in State, Short(s), NEW k \in Static, Covers(k, s), NEW mask,
         NEW t \in StatusEffect(s, \hFB, mask)
  PROVE  t \in State /\ Short(t) /\ Apply(k, \hFB, mask) \in Static /\ Covers(Apply(k, \hFB, mask), t)
<1> DEFINE u == [s EXCEPT !.e = s.c, !.c = s.e]
           l == [k EXCEPT !.e = k.c, !.c = k.e]
           j == Apply(k, \hFB, mask)
<1>1. t = Normalize(u)
  <2>1. t = Xce(s)
    BY StatusEffects
  <2> QED BY Zenon, <2>1 DEF Xce
<1>2. j = EmulationConstraint(l)
  BY Zenon, StatusApplied DEF XceState
<1>3. /\ u \in State /\ u.e = s.c /\ u.c = s.e /\ u.m = s.m /\ u.x = s.x
      /\ u.xh = s.xh /\ u.yh = s.yh
  BY Zenon DEF State
<1>4. l \in Static /\ l.e = k.c /\ l.c = k.e /\ l.m = k.m /\ l.x = k.x
  BY DEF Static
<1> HIDE DEF u, l, j
<1>5. t \in State /\ t.e = s.c /\ t.c = s.e /\ t.m = (s.m \/ s.c) /\ t.x = (s.x \/ s.c)
  BY Zenon, <1>1, <1>3, Normalized
<1>6. Short(t)
  <2>1. ~u.e => Short(u) /\ t = u
    BY <1>1, <1>3, NormalizeShort DEF Short, Index8
  <2>2. u.e => Short(t)
    BY <1>1, <1>3, NormalizeShort
  <2> QED BY <2>1, <2>2
<1>7. j \in Static /\ Covers(j, t)
  <2>1. (t.e <=> s.c) /\ (t.c <=> s.e) /\ (t.m <=> s.m \/ s.c) /\ (t.x <=> s.x \/ s.c)
    BY Zenon, <1>5
  <2>2. /\ j \in Static /\ j.e = k.c /\ j.c = k.e
        /\ k.c = "1" => j.m = "1" /\ j.x = "1"
        /\ k.c # "1" => (j.m = "?" \/ j.m = k.m) /\ (j.x = "?" \/ j.x = k.x)
        /\ k.c = "?" => (j.m = "?" \/ j.m = "1") /\ (j.x = "?" \/ j.x = "1")
    BY <1>2, <1>4, Constrained
  <2> QED BY <2>1, <2>2 DEF Covers, CoversFlags, Agrees, Static, KnownBit
<1> QED BY <1>5, <1>6, <1>7 DEF j

LEMMA StatusCovered ==
  ASSUME NEW s \in State, Short(s), NEW k \in Static, Covers(k, s),
         NEW op \in StatusOps, NEW mask, NEW t \in StatusEffect(s, op, mask)
  PROVE  t \in State /\ Short(t) /\ Apply(k, op, mask) \in Static /\ Covers(Apply(k, op, mask), t)
<1>1. CASE op = \h58 \/ op = \h78
  <2>1. Apply(k, op, mask) = k
    BY <1>1 DEF Apply, ChangesCarry
  <2>2. StatusEffect(s, op, mask) = {[s EXCEPT !.i = FALSE]} \/ StatusEffect(s, op, mask) = {[s EXCEPT !.i = TRUE]}
    BY <1>1 DEF StatusEffect
  <2>3. t = [s EXCEPT !.i = FALSE] \/ t = [s EXCEPT !.i = TRUE]
    BY Zenon, <2>2
  <2>4. t \in State /\ Short(t) /\ Covers(k, t)
    BY <2>3, MaskIrq
  <2> QED BY Zenon, <2>1, <2>4
<1>2. CASE op = \h18
  <2>1. t \in StatusEffect(s, \h18, mask) /\ Apply(k, op, mask) = Apply(k, \h18, mask)
    BY Zenon, <1>2
  <2> QED BY Zenon, <2>1, ClearCarry
<1>3. CASE op = \h38
  <2>1. t \in StatusEffect(s, \h38, mask) /\ Apply(k, op, mask) = Apply(k, \h38, mask)
    BY Zenon, <1>3
  <2> QED BY Zenon, <2>1, SetCarry
<1>4. CASE op = \h28
  <2>1. t \in StatusEffect(s, \h28, mask) /\ Apply(k, op, mask) = Apply(k, \h28, mask)
    BY Zenon, <1>4
  <2>2. t \in State /\ Short(t) /\ Apply(k, \h28, mask) \in Static /\ Covers(Apply(k, \h28, mask), t)
    BY <2>1, PullStatus
  <2> QED BY Zenon, <2>1, <2>2
<1>5. CASE op = \hC2
  <2>1. t \in StatusEffect(s, \hC2, mask) /\ Apply(k, op, mask) = Apply(k, \hC2, mask)
    BY Zenon, <1>5
  <2>2. t \in State /\ Short(t) /\ Apply(k, \hC2, mask) \in Static /\ Covers(Apply(k, \hC2, mask), t)
    BY <2>1, ClearBits
  <2> QED BY Zenon, <2>1, <2>2
<1>6. CASE op = \hE2
  <2>1. t \in StatusEffect(s, \hE2, mask) /\ Apply(k, op, mask) = Apply(k, \hE2, mask)
    BY Zenon, <1>6
  <2>2. t \in State /\ Short(t) /\ Apply(k, \hE2, mask) \in Static /\ Covers(Apply(k, \hE2, mask), t)
    BY <2>1, SetBits
  <2> QED BY Zenon, <2>1, <2>2
<1>7. CASE op = \hFB
  <2>1. t \in StatusEffect(s, \hFB, mask) /\ Apply(k, op, mask) = Apply(k, \hFB, mask)
    BY Zenon, <1>7
  <2>2. t \in State /\ Short(t) /\ Apply(k, \hFB, mask) \in Static /\ Covers(Apply(k, \hFB, mask), t)
    BY <2>1, SwitchMode
  <2> QED BY Zenon, <2>1, <2>2
<1> QED BY <1>1, <1>2, <1>3, <1>4, <1>5, <1>6, <1>7 DEF StatusOps

LEMMA ComputedCovered ==
  ASSUME NEW s \in State, Short(s), NEW k \in Static, Covers(k, s),
         NEW op \in Opcodes \ StatusOps, NEW mask, NEW t \in Computed(s, op)
  PROVE  t \in State /\ Short(t) /\ Apply(k, op, mask) \in Static /\ Covers(Apply(k, op, mask), t)
<1> DEFINE j == Apply(k, op, mask)
<1>1. /\ t.e = s.e /\ t.m = s.m /\ t.x = s.x
      /\ op \notin WritesCarry => t.c = s.c
      /\ Index8(s) => (t.xh = FALSE \/ t.xh = s.xh) /\ (t.yh = FALSE \/ t.yh = s.yh)
  BY DEF Computed
<1>4. t \in State
  BY DEF Computed, State
<1>5. Short(t)
  BY <1>1 DEF Short, Index8
<1>6. j = IF op \in ChangesCarry THEN [k EXCEPT !.c = "?"] ELSE k
  BY DEF Apply, StatusOps
<1> HIDE DEF j
<1>7. /\ j \in Static /\ j.e = k.e /\ j.m = k.m /\ j.x = k.x
      /\ j.c = "?" \/ (j.c = k.c /\ t.c = s.c)
  <2>1. CASE op \in ChangesCarry
    BY <1>6, <2>1, KnowsCarry DEF KnownBit
  <2>2. CASE op \notin ChangesCarry
    BY Zenon, <1>1, <1>6, <2>2, CarryWritersAreKnown
  <2> QED BY <2>1, <2>2
<1>8. Covers(j, t)
  BY <1>1, <1>7 DEF Covers, CoversFlags, Agrees
<1> QED BY <1>4, <1>5, <1>7, <1>8 DEF j
-----------------------------------------------------------------------------
LEMMA EnteredCovered ==
  ASSUME CpuInv, NEW break \in BOOLEAN, Enter(break)
  PROVE  CpuInv'
<1> DEFINE f == [status |-> StatusForPush(cpu, break), known |-> IF cpu.e THEN Lost ELSE known]
           u == [cpu EXCEPT !.i = TRUE]
<1>1. cpu \in State /\ Short(cpu) /\ Covers(known, cpu) /\ known \in Static
  BY DEF CpuInv, CpuTypeOK, State, Short, WidthsKept, Covers, StaticCovers
<1>2. Normalize(cpu) = cpu
  BY <1>1, NormalizeShort
<1>3. /\ u \in State /\ u.e = cpu.e /\ u.m = cpu.m /\ u.x = cpu.x /\ u.c = cpu.c
      /\ u.xh = cpu.xh /\ u.yh = cpu.yh
  BY <1>1, WithMask
<1>4. Short(u)
  BY <1>1, <1>3 DEF Short, Index8
<1>5. cpu' = Normalize(u) /\ sleep' = "run" /\ handlers' = Append(handlers, f)
      /\ known' = IF cpu.e \/ break THEN Lost ELSE NativeEntry
  BY <1>2 DEF Enter
<1> HIDE DEF u
<1>6. cpu' = u
  BY <1>3, <1>4, <1>5, NormalizeShort
<1>7. f \in [status : Flags, known : Static] /\ FrameCovered(f)
  <2>1. StatusForPush(cpu, break) \in Flags
    BY Zenon, <1>1 DEF StatusForPush, Flags, State
  <2>2. Lost \in Static /\ f.known \in Static
    BY <1>1 DEF Lost, Static, KnownBit
  <2>3. CASE cpu.e
    BY <2>1, <2>2, <2>3 DEF FrameCovered, CoversFlags, Agrees, Lost
  <2>4. CASE ~cpu.e
    <3>1. f.known = known /\ f.status = StatusForPush(cpu, break)
      BY <2>4
    <3>2. /\ f.status.m <=> cpu.m
          /\ f.status.x <=> cpu.x
          /\ f.status.c <=> cpu.c
      BY Zenon, <2>4, <1>1 DEF StatusForPush, State
    <3>3. FrameCovered(f)
      BY <1>1, <2>4, <3>1, <3>2 DEF FrameCovered, Covers, CoversFlags, Agrees
    <3> QED BY <2>1, <2>2, <3>3
  <2> QED BY <2>3, <2>4
<1> HIDE DEF f
<1>8. /\ handlers' \in Seq([status : Flags, known : Static])
      /\ \A k \in DOMAIN handlers' : FrameCovered(handlers'[k])
  <2>1. handlers \in Seq([status : Flags, known : Static])
    BY DEF CpuInv, CpuTypeOK
  <2>2. \A k \in DOMAIN handlers : FrameCovered(handlers[k])
    BY DEF CpuInv
  <2>3. \A k \in DOMAIN handlers' : handlers'[k] = f \/ (k \in DOMAIN handlers /\ handlers'[k] = handlers[k])
    BY <1>5, <2>1
  <2>4. handlers' \in Seq([status : Flags, known : Static])
    BY <1>5, <1>7, <2>1
  <2> QED BY <1>7, <2>2, <2>3, <2>4
<1>9. known' \in Static /\ Covers(known', u)
  BY <1>3, <1>5 DEF Lost, NativeEntry, Static, KnownBit, Covers, CoversFlags, Agrees
<1> QED BY <1>3, <1>4, <1>5, <1>6, <1>8, <1>9
        DEF CpuInv, CpuTypeOK, State, Short, WidthsKept, Covers, StaticCovers

LEMMA StepKeepsInv ==
  ASSUME CpuInv, [CpuNext]_cpuVars
  PROVE  CpuInv'
<1>1. cpu \in State /\ Short(cpu) /\ Covers(known, cpu) /\ known \in Static
  BY DEF CpuInv, CpuTypeOK, State, Short, WidthsKept, Covers, StaticCovers
<1>2. Normalize(cpu) = cpu
  BY <1>1, NormalizeShort
<1>3. ASSUME NEW op \in Opcodes, NEW mask, Execute(op, mask) PROVE CpuInv'
  <2>1. PICK t \in IF op \in StatusOps THEN StatusEffect(cpu, op, mask) ELSE Computed(cpu, op) :
          cpu' = Normalize(t)
    BY <1>2, <1>3 DEF Execute
  <2>2. t \in State /\ Short(t) /\ Apply(known, op, mask) \in Static /\ Covers(Apply(known, op, mask), t)
    <3>1. CASE op \in StatusOps
      BY Zenon, <1>1, <2>1, <3>1, StatusCovered
    <3>2. CASE op \notin StatusOps
      BY Zenon, <1>1, <2>1, <3>2, ComputedCovered
    <3> QED BY <3>1, <3>2
  <2>3. cpu' = t
    BY <2>1, <2>2, NormalizeShort
  <2>4. known' = Apply(known, op, mask) /\ handlers' = handlers /\ sleep' \in {"run", "wait", "stop"}
    BY <1>3 DEF Execute
  <2> QED BY <2>2, <2>3, <2>4 DEF CpuInv, CpuTypeOK, State, Short, WidthsKept, Covers, StaticCovers
<1>4. ASSUME Trap \/ Nmi \/ Irq PROVE CpuInv'
  BY <1>4, EnteredCovered DEF Trap, Nmi, Irq
<1>5. ASSUME Rti PROVE CpuInv'
  <2>1. sleep' = sleep
    BY <1>5 DEF Rti
  <2>2. CASE handlers # <<>>
    <3> DEFINE f == handlers[Len(handlers)]
    <3>1. /\ handlers \in Seq([status : Flags, known : Static])
          /\ Len(handlers) \in DOMAIN handlers /\ Len(handlers) \in Nat \ {0}
      BY <2>2 DEF CpuInv, CpuTypeOK
    <3>2. f \in [status : Flags, known : Static] /\ FrameCovered(f)
      <4> DEFINE Frame == [status : Flags, known : Static]
      <4>1. \A k \in DOMAIN handlers : handlers[k] \in Frame
        <5>1. handlers \in Seq(Frame)
          BY <3>1
        <5> HIDE DEF Frame
        <5> QED BY <5>1
      <4>2. \A k \in DOMAIN handlers : FrameCovered(handlers[k])
        BY DEF CpuInv
      <4> QED BY Zenon, <3>1, <4>1, <4>2
    <3>3. /\ cpu' = Normalize(ReplaceStatus(cpu, f.status))
          /\ known' = IF cpu.e THEN Lost ELSE f.known
          /\ handlers' = SubSeq(handlers, 1, Len(handlers) - 1)
      BY <1>2, <1>5, <2>2 DEF Rti
    <3>4. /\ handlers' \in Seq([status : Flags, known : Static])
          /\ \A k \in DOMAIN handlers' : k \in DOMAIN handlers /\ handlers'[k] = handlers[k]
      <4> DEFINE Frame == [status : Flags, known : Static]
      <4>1. handlers \in Seq(Frame)
        BY <3>1
      <4> HIDE DEF Frame
      <4>2. /\ SubSeq(handlers, 1, Len(handlers) - 1) \in Seq(Frame)
            /\ DOMAIN SubSeq(handlers, 1, Len(handlers) - 1) = 1 .. Len(handlers) - 1
            /\ \A k \in 1 .. Len(handlers) - 1 : SubSeq(handlers, 1, Len(handlers) - 1)[k] = handlers[k]
        BY <3>1, <4>1
      <4>3. 1 .. Len(handlers) - 1 \subseteq DOMAIN handlers
        BY <3>1, <4>1
      <4> QED BY <3>3, <4>2, <4>3 DEF Frame
    <3>5. \A k \in DOMAIN handlers' : FrameCovered(handlers'[k])
      BY <3>4 DEF CpuInv
    <3> DEFINE r == ReplaceStatus(cpu, f.status)
    <3>6. f.status \in Flags /\ f.known \in Static
      BY <3>2
    <3> HIDE DEF f
    <3>7. /\ r \in State /\ Short(r) /\ r.e = cpu.e /\ r.c = f.status.c
          /\ r.m = (f.status.m \/ cpu.e) /\ r.x = (f.status.x \/ cpu.e)
      BY Zenon, <1>1, <3>6, ReplaceShort
    <3> HIDE DEF r
    <3>8. cpu' = r
      BY <3>3, <3>7, NormalizeShort DEF r
    <3>9. known' \in Static /\ Covers(known', r)
      <4>1. CASE cpu.e
        BY <3>3, <4>1 DEF Lost, Static, KnownBit, Covers, CoversFlags, Agrees
      <4>2. CASE ~cpu.e
        <5>1. (r.m <=> f.status.m) /\ (r.x <=> f.status.x) /\ (r.c <=> f.status.c) /\ ~r.e
          BY Zenon, <3>7, <4>2
        <5> QED BY <3>2, <3>3, <3>6, <4>2, <5>1 DEF f, FrameCovered, Covers, CoversFlags, Agrees
      <4> QED BY <4>1, <4>2
    <3> QED BY <2>1, <3>4, <3>5, <3>7, <3>8, <3>9
            DEF CpuInv, CpuTypeOK, State, Short, WidthsKept, Covers, StaticCovers
  <2>3. CASE handlers = <<>>
    <3>1. PICK p \in Flags : cpu' = Normalize(ReplaceStatus(cpu, p)) /\ known' = Lost /\ handlers' = handlers
      BY <1>2, <1>5, <2>3 DEF Rti
    <3>2. ReplaceStatus(cpu, p) \in State /\ Short(ReplaceStatus(cpu, p))
      BY <1>1, ReplaceShort
    <3>3. cpu' \in State /\ Short(cpu')
      BY <3>1, <3>2, NormalizeShort
    <3>4. Lost \in Static /\ Covers(Lost, cpu')
      BY DEF Lost, Static, KnownBit, Covers, CoversFlags, Agrees
    <3> QED BY <2>1, <3>1, <3>3, <3>4 DEF CpuInv, CpuTypeOK, State, Short, WidthsKept, Covers, StaticCovers
  <2> QED BY <2>2, <2>3
<1>6. ASSUME CpuReset PROVE CpuInv'
  BY <1>6 DEF CpuReset, ResetEntry, CpuInv, CpuTypeOK, WidthsKept, StaticCovers, CoversFlags, Agrees,
              Static, KnownBit, Index8
<1>7. ASSUME UNCHANGED cpuVars PROVE CpuInv'
  BY <1>7 DEF cpuVars, CpuInv, CpuTypeOK, WidthsKept, StaticCovers
<1> QED BY <1>3, <1>4, <1>5, <1>6, <1>7 DEF CpuNext

\* The invariant of the two width states, over every instruction, interrupt
\* and reset.
THEOREM CpuInvariant == CpuSpec => []CpuInv
<1>1. CpuInit => CpuInv
  BY DEF CpuInit, ResetEntry, CpuInv, CpuTypeOK, WidthsKept, StaticCovers, CoversFlags, Agrees,
         Static, KnownBit, Index8
<1>2. CpuInv /\ [CpuNext]_cpuVars => CpuInv'
  BY StepKeepsInv
<1> QED BY <1>1, <1>2, PTL DEF CpuSpec

\* Type correctness of the processor, the static state and the frames.
THEOREM CpuTypeCorrect == CpuSpec => []CpuTypeOK
BY CpuInvariant, PTL DEF CpuInv

\* dkc2_decode_state_apply never claims a width or a carry the executor does
\* not have, whichever opcodes run in whichever order.
THEOREM KnownWidthsAreReal == CpuSpec => []StaticCovers
BY CpuInvariant, PTL DEF CpuInv

\* normalize_emulation_state and replace_status leave no high byte in a
\* short index register.
THEOREM ShortIndexesStayShort == CpuSpec => []WidthsKept
BY CpuInvariant, PTL DEF CpuInv

-----------------------------------------------------------------------------
(* The two tables of lengths.                                              *)

\* The places of a group's addressing modes after its first opcode.
Places == {0, 2, 4, 6, 8, 12, 14, 16, 17, 18, 20, 22, 24, 28, 30}

LEMMA GroupIs ==
  ASSUME NEW op \in Int, NEW first \in Int
  PROVE  op \in Group(first) <=> op - first \in Places
BY DEF Group, Places

\* The modes of decode.c whose operand is an address.
AddressModes == {"d", "dx", "dy", "di", "dxi", "diy", "dli", "dliy", "s", "siy",
                 "a", "ax", "ay", "l", "lx"}

InGroup(op, first) == op - first \in Places

\* Generic without the sets it is built of, for the provers.
GenericIs(op) ==
  \/ \E b \in {\h01, \h21, \h41, \h61, \hA1, \hC1, \hE1} : InGroup(op, b)
  \/ InGroup(op, \h81) /\ op # \h89
  \/ op \in Shifts \cup IndexWide \cup Others

LEMMA GenericMembers ==
  ASSUME NEW op \in Int
  PROVE  op \in Generic <=> GenericIs(op)
BY GroupIs DEF Generic, GenericIs, InGroup, ADC, SBC, CMP, STA, LogicAndLoad

\* The decoder's mode of an opcode and the way the executor fetches its
\* operand ask for the same number of bytes.
ModeFits(op, mode) ==
  /\ op \in Fetches0 => mode \in {"imp", "acc"}
  /\ op \in Fetches1 => mode \in {"im8", "r8", "di"}
  /\ op \in Fetches2 => mode \in {"a", "ai", "axi", "ali", "r16", "bm"}
  /\ op \in Fetches3 => mode = "l"
  /\ op \notin Fetches0 \cup Fetches1 \cup Fetches2 \cup Fetches3 =>
       /\ GenericIs(op)
       /\ \/ mode = "imM" /\ op \notin IndexWide
          \/ mode = "imX" /\ op \in IndexWide
          \/ mode \in AddressModes \cup {"acc"}

\* The decoder's table, a row of sixteen opcodes at a time.
LEMMA Row0 == \A k \in 0 .. 15 : ModeFits(0 + k, AddressingModes[1][k + 1])
<1> SUFFICES ASSUME NEW k \in 0 .. 15 PROVE ModeFits(0 + k, AddressingModes[1][k + 1])
  OBVIOUS
<1> DEFINE row == <<"im8","dxi","im8","s","d","d","d","dli","imp","imM","acc","imp","a","a","a","l">>
<1>1. AddressingModes[1] = row
  BY DEF AddressingModes
<1>2. ModeFits(0 + k, row[k + 1])
  BY DEF ModeFits, AddressModes, GenericIs, InGroup, Places, Shifts, Shifted, IndexWide, LDX, LDY,
         CPX, CPY, StoreIndex, Others, Fetches0, Fetches1, Fetches2, Fetches3
<1> QED BY <1>1, <1>2

LEMMA Row1 == \A k \in 0 .. 15 : ModeFits(16 + k, AddressingModes[2][k + 1])
<1> SUFFICES ASSUME NEW k \in 0 .. 15 PROVE ModeFits(16 + k, AddressingModes[2][k + 1])
  OBVIOUS
<1> DEFINE row == <<"r8","diy","di","siy","d","dx","dx","dliy","imp","ay","acc","imp","a","ax","ax","lx">>
<1>1. AddressingModes[2] = row
  BY DEF AddressingModes
<1>2. ModeFits(16 + k, row[k + 1])
  BY DEF ModeFits, AddressModes, GenericIs, InGroup, Places, Shifts, Shifted, IndexWide, LDX, LDY,
         CPX, CPY, StoreIndex, Others, Fetches0, Fetches1, Fetches2, Fetches3
<1> QED BY <1>1, <1>2

LEMMA Row2 == \A k \in 0 .. 15 : ModeFits(32 + k, AddressingModes[3][k + 1])
<1> SUFFICES ASSUME NEW k \in 0 .. 15 PROVE ModeFits(32 + k, AddressingModes[3][k + 1])
  OBVIOUS
<1> DEFINE row == <<"a","dxi","l","s","d","d","d","dli","imp","imM","acc","imp","a","a","a","l">>
<1>1. AddressingModes[3] = row
  BY DEF AddressingModes
<1>2. ModeFits(32 + k, row[k + 1])
  BY DEF ModeFits, AddressModes, GenericIs, InGroup, Places, Shifts, Shifted, IndexWide, LDX, LDY,
         CPX, CPY, StoreIndex, Others, Fetches0, Fetches1, Fetches2, Fetches3
<1> QED BY <1>1, <1>2

LEMMA Row3 == \A k \in 0 .. 15 : ModeFits(48 + k, AddressingModes[4][k + 1])
<1> SUFFICES ASSUME NEW k \in 0 .. 15 PROVE ModeFits(48 + k, AddressingModes[4][k + 1])
  OBVIOUS
<1> DEFINE row == <<"r8","diy","di","siy","dx","dx","dx","dliy","imp","ay","acc","imp","ax","ax","ax","lx">>
<1>1. AddressingModes[4] = row
  BY DEF AddressingModes
<1>2. ModeFits(48 + k, row[k + 1])
  BY DEF ModeFits, AddressModes, GenericIs, InGroup, Places, Shifts, Shifted, IndexWide, LDX, LDY,
         CPX, CPY, StoreIndex, Others, Fetches0, Fetches1, Fetches2, Fetches3
<1> QED BY <1>1, <1>2

LEMMA Row4 == \A k \in 0 .. 15 : ModeFits(64 + k, AddressingModes[5][k + 1])
<1> SUFFICES ASSUME NEW k \in 0 .. 15 PROVE ModeFits(64 + k, AddressingModes[5][k + 1])
  OBVIOUS
<1> DEFINE row == <<"imp","dxi","im8","s","bm","d","d","dli","imp","imM","acc","imp","a","a","a","l">>
<1>1. AddressingModes[5] = row
  BY DEF AddressingModes
<1>2. ModeFits(64 + k, row[k + 1])
  BY DEF ModeFits, AddressModes, GenericIs, InGroup, Places, Shifts, Shifted, IndexWide, LDX, LDY,
         CPX, CPY, StoreIndex, Others, Fetches0, Fetches1, Fetches2, Fetches3
<1> QED BY <1>1, <1>2

LEMMA Row5 == \A k \in 0 .. 15 : ModeFits(80 + k, AddressingModes[6][k + 1])
<1> SUFFICES ASSUME NEW k \in 0 .. 15 PROVE ModeFits(80 + k, AddressingModes[6][k + 1])
  OBVIOUS
<1> DEFINE row == <<"r8","diy","di","siy","bm","dx","dx","dliy","imp","ay","imp","imp","l","ax","ax","lx">>
<1>1. AddressingModes[6] = row
  BY DEF AddressingModes
<1>2. ModeFits(80 + k, row[k + 1])
  BY DEF ModeFits, AddressModes, GenericIs, InGroup, Places, Shifts, Shifted, IndexWide, LDX, LDY,
         CPX, CPY, StoreIndex, Others, Fetches0, Fetches1, Fetches2, Fetches3
<1> QED BY <1>1, <1>2

LEMMA Row6 == \A k \in 0 .. 15 : ModeFits(96 + k, AddressingModes[7][k + 1])
<1> SUFFICES ASSUME NEW k \in 0 .. 15 PROVE ModeFits(96 + k, AddressingModes[7][k + 1])
  OBVIOUS
<1> DEFINE row == <<"imp","dxi","r16","s","d","d","d","dli","imp","imM","acc","imp","ai","a","a","l">>
<1>1. AddressingModes[7] = row
  BY DEF AddressingModes
<1>2. ModeFits(96 + k, row[k + 1])
  BY DEF ModeFits, AddressModes, GenericIs, InGroup, Places, Shifts, Shifted, IndexWide, LDX, LDY,
         CPX, CPY, StoreIndex, Others, Fetches0, Fetches1, Fetches2, Fetches3
<1> QED BY <1>1, <1>2

LEMMA Row7 == \A k \in 0 .. 15 : ModeFits(112 + k, AddressingModes[8][k + 1])
<1> SUFFICES ASSUME NEW k \in 0 .. 15 PROVE ModeFits(112 + k, AddressingModes[8][k + 1])
  OBVIOUS
<1> DEFINE row == <<"r8","diy","di","siy","dx","dx","dx","dliy","imp","ay","imp","imp","axi","ax","ax","lx">>
<1>1. AddressingModes[8] = row
  BY DEF AddressingModes
<1>2. ModeFits(112 + k, row[k + 1])
  BY DEF ModeFits, AddressModes, GenericIs, InGroup, Places, Shifts, Shifted, IndexWide, LDX, LDY,
         CPX, CPY, StoreIndex, Others, Fetches0, Fetches1, Fetches2, Fetches3
<1> QED BY <1>1, <1>2

LEMMA Row8 == \A k \in 0 .. 15 : ModeFits(128 + k, AddressingModes[9][k + 1])
<1> SUFFICES ASSUME NEW k \in 0 .. 15 PROVE ModeFits(128 + k, AddressingModes[9][k + 1])
  OBVIOUS
<1> DEFINE row == <<"r8","dxi","r16","s","d","d","d","dli","imp","imM","imp","imp","a","a","a","l">>
<1>1. AddressingModes[9] = row
  BY DEF AddressingModes
<1>2. ModeFits(128 + k, row[k + 1])
  BY DEF ModeFits, AddressModes, GenericIs, InGroup, Places, Shifts, Shifted, IndexWide, LDX, LDY,
         CPX, CPY, StoreIndex, Others, Fetches0, Fetches1, Fetches2, Fetches3
<1> QED BY <1>1, <1>2

LEMMA Row9 == \A k \in 0 .. 15 : ModeFits(144 + k, AddressingModes[10][k + 1])
<1> SUFFICES ASSUME NEW k \in 0 .. 15 PROVE ModeFits(144 + k, AddressingModes[10][k + 1])
  OBVIOUS
<1> DEFINE row == <<"r8","diy","di","siy","dx","dx","dy","dliy","imp","ay","imp","imp","a","ax","ax","lx">>
<1>1. AddressingModes[10] = row
  BY DEF AddressingModes
<1>2. ModeFits(144 + k, row[k + 1])
  BY DEF ModeFits, AddressModes, GenericIs, InGroup, Places, Shifts, Shifted, IndexWide, LDX, LDY,
         CPX, CPY, StoreIndex, Others, Fetches0, Fetches1, Fetches2, Fetches3
<1> QED BY <1>1, <1>2

LEMMA Row10 == \A k \in 0 .. 15 : ModeFits(160 + k, AddressingModes[11][k + 1])
<1> SUFFICES ASSUME NEW k \in 0 .. 15 PROVE ModeFits(160 + k, AddressingModes[11][k + 1])
  OBVIOUS
<1> DEFINE row == <<"imX","dxi","imX","s","d","d","d","dli","imp","imM","imp","imp","a","a","a","l">>
<1>1. AddressingModes[11] = row
  BY DEF AddressingModes
<1>2. ModeFits(160 + k, row[k + 1])
  BY DEF ModeFits, AddressModes, GenericIs, InGroup, Places, Shifts, Shifted, IndexWide, LDX, LDY,
         CPX, CPY, StoreIndex, Others, Fetches0, Fetches1, Fetches2, Fetches3
<1> QED BY <1>1, <1>2

LEMMA Row11 == \A k \in 0 .. 15 : ModeFits(176 + k, AddressingModes[12][k + 1])
<1> SUFFICES ASSUME NEW k \in 0 .. 15 PROVE ModeFits(176 + k, AddressingModes[12][k + 1])
  OBVIOUS
<1> DEFINE row == <<"r8","diy","di","siy","dx","dx","dy","dliy","imp","ay","imp","imp","ax","ax","ay","lx">>
<1>1. AddressingModes[12] = row
  BY DEF AddressingModes
<1>2. ModeFits(176 + k, row[k + 1])
  BY DEF ModeFits, AddressModes, GenericIs, InGroup, Places, Shifts, Shifted, IndexWide, LDX, LDY,
         CPX, CPY, StoreIndex, Others, Fetches0, Fetches1, Fetches2, Fetches3
<1> QED BY <1>1, <1>2

LEMMA Row12 == \A k \in 0 .. 15 : ModeFits(192 + k, AddressingModes[13][k + 1])
<1> SUFFICES ASSUME NEW k \in 0 .. 15 PROVE ModeFits(192 + k, AddressingModes[13][k + 1])
  OBVIOUS
<1> DEFINE row == <<"imX","dxi","im8","s","d","d","d","dli","imp","imM","imp","imp","a","a","a","l">>
<1>1. AddressingModes[13] = row
  BY DEF AddressingModes
<1>2. ModeFits(192 + k, row[k + 1])
  BY DEF ModeFits, AddressModes, GenericIs, InGroup, Places, Shifts, Shifted, IndexWide, LDX, LDY,
         CPX, CPY, StoreIndex, Others, Fetches0, Fetches1, Fetches2, Fetches3
<1> QED BY <1>1, <1>2

LEMMA Row13 == \A k \in 0 .. 15 : ModeFits(208 + k, AddressingModes[14][k + 1])
<1> SUFFICES ASSUME NEW k \in 0 .. 15 PROVE ModeFits(208 + k, AddressingModes[14][k + 1])
  OBVIOUS
<1> DEFINE row == <<"r8","diy","di","siy","di","dx","dx","dliy","imp","ay","imp","imp","ali","ax","ax","lx">>
<1>1. AddressingModes[14] = row
  BY DEF AddressingModes
<1>2. ModeFits(208 + k, row[k + 1])
  BY DEF ModeFits, AddressModes, GenericIs, InGroup, Places, Shifts, Shifted, IndexWide, LDX, LDY,
         CPX, CPY, StoreIndex, Others, Fetches0, Fetches1, Fetches2, Fetches3
<1> QED BY <1>1, <1>2

LEMMA Row14 == \A k \in 0 .. 15 : ModeFits(224 + k, AddressingModes[15][k + 1])
<1> SUFFICES ASSUME NEW k \in 0 .. 15 PROVE ModeFits(224 + k, AddressingModes[15][k + 1])
  OBVIOUS
<1> DEFINE row == <<"imX","dxi","im8","s","d","d","d","dli","imp","imM","imp","imp","a","a","a","l">>
<1>1. AddressingModes[15] = row
  BY DEF AddressingModes
<1>2. ModeFits(224 + k, row[k + 1])
  BY DEF ModeFits, AddressModes, GenericIs, InGroup, Places, Shifts, Shifted, IndexWide, LDX, LDY,
         CPX, CPY, StoreIndex, Others, Fetches0, Fetches1, Fetches2, Fetches3
<1> QED BY <1>1, <1>2

LEMMA Row15 == \A k \in 0 .. 15 : ModeFits(240 + k, AddressingModes[16][k + 1])
<1> SUFFICES ASSUME NEW k \in 0 .. 15 PROVE ModeFits(240 + k, AddressingModes[16][k + 1])
  OBVIOUS
<1> DEFINE row == <<"r8","diy","di","siy","a","dx","dx","dliy","imp","ay","imp","imp","axi","ax","ax","lx">>
<1>1. AddressingModes[16] = row
  BY DEF AddressingModes
<1>2. ModeFits(240 + k, row[k + 1])
  BY DEF ModeFits, AddressModes, GenericIs, InGroup, Places, Shifts, Shifted, IndexWide, LDX, LDY,
         CPX, CPY, StoreIndex, Others, Fetches0, Fetches1, Fetches2, Fetches3
<1> QED BY <1>1, <1>2

LEMMA OpcodesFit ==
  ASSUME NEW op \in Opcodes
  PROVE  ModeFits(op, ModeOf(op))
<1> DEFINE q == op \div 16
           k == op % 16
<1>1. q \in 0 .. 15 /\ k \in 0 .. 15 /\ op = 16 * q + k
  BY DEF Opcodes
<1>2. ModeOf(op) = AddressingModes[q + 1][k + 1]
  BY DEF ModeOf
<1> HIDE DEF q, k
<1> SUFFICES ModeFits(16 * q + k, AddressingModes[q + 1][k + 1])
  BY <1>1, <1>2
<1>3. CASE q \in 0 .. 3
  BY <1>1, <1>3, Row0, Row1, Row2, Row3
<1>4. CASE q \in 4 .. 7
  BY <1>1, <1>4, Row4, Row5, Row6, Row7
<1>5. CASE q \in 8 .. 11
  BY <1>1, <1>5, Row8, Row9, Row10, Row11
<1>6. CASE q \in 12 .. 15
  BY <1>1, <1>6, Row12, Row13, Row14, Row15
<1> QED BY <1>1, <1>3, <1>4, <1>5, <1>6

\* Widths of which those that are known are the real ones agree.
LEMMA LengthsFit ==
  ASSUME NEW w \in Widths, Agrees(w.m, w.m8), Agrees(w.x, w.x8)
  PROVE  w \in Agreeing
<1> SUFFICES ASSUME NEW op \in Opcodes
             PROVE  LET fetched == FetchedLength(op, [e |-> FALSE, m |-> w.m8, x |-> w.x8])
                    IN fetched > 0 /\ DecodedLength(op, [m |-> w.m, x |-> w.x]) \in {0, fetched}
  BY DEF Agreeing
<1> DEFINE s == [e |-> FALSE, m |-> w.m8, x |-> w.x8]
           k == [m |-> w.m, x |-> w.x]
           mode == ModeOf(op)
<1>1. /\ w.m \in KnownBit /\ w.x \in KnownBit /\ w.m8 \in BOOLEAN /\ w.x8 \in BOOLEAN
  BY DEF Widths
<1>2. (Memory8(s) <=> w.m8) /\ (Index8(s) <=> w.x8) /\ k.m = w.m /\ k.x = w.x
  BY <1>1 DEF Memory8, Index8
<1> HIDE DEF s, k
<1>3. ModeFits(op, mode) /\ (op \in Generic <=> GenericIs(op))
  BY OpcodesFit, GenericMembers DEF Opcodes
<1> HIDE DEF mode
<1>4. /\ DecodedLength(op, k) = CASE mode = "imM" -> ByWidth(w.m) [] mode = "imX" -> ByWidth(w.x)
                                  [] OTHER -> FixedLength(mode)
      /\ ByWidth(w.m) \in {0, IF w.m8 THEN 2 ELSE 3}
      /\ ByWidth(w.x) \in {0, IF w.x8 THEN 2 ELSE 3}
  BY <1>1, <1>2 DEF DecodedLength, ByWidth, Agrees, KnownBit, mode
<1>10. /\ op \in Fetches0 => op \notin Fetches1 \cup Fetches2 \cup Fetches3
       /\ op \in Fetches1 => op \notin Fetches2 \cup Fetches3
       /\ op \in Fetches2 => op \notin Fetches3
  BY DEF Fetches0, Fetches1, Fetches2, Fetches3
<1>5. CASE op \in Fetches0
  <2>1. FetchedLength(op, s) = 1
    BY <1>5, <1>10 DEF FetchedLength
  <2> QED BY <1>3, <1>4, <1>5, <2>1 DEF ModeFits, FixedLength, s, k
<1>6. CASE op \in Fetches1 /\ op \notin Fetches0
  <2>1. FetchedLength(op, s) = 2
    BY <1>6, <1>10 DEF FetchedLength
  <2> QED BY <1>3, <1>4, <1>6, <2>1 DEF ModeFits, FixedLength, s, k
<1>7. CASE op \in Fetches2 /\ op \notin Fetches0 \cup Fetches1
  <2>1. FetchedLength(op, s) = 3
    BY <1>7, <1>10 DEF FetchedLength
  <2> QED BY <1>3, <1>4, <1>7, <2>1 DEF ModeFits, FixedLength, s, k
<1>8. CASE op \in Fetches3 /\ op \notin Fetches0 \cup Fetches1 \cup Fetches2
  <2>1. FetchedLength(op, s) = 4
    BY <1>8, <1>10 DEF FetchedLength
  <2> QED BY <1>3, <1>4, <1>8, <2>1 DEF ModeFits, FixedLength, s, k
<1>9. CASE op \notin Fetches0 \cup Fetches1 \cup Fetches2 \cup Fetches3
  <2>1. /\ op \in Generic
        /\ \/ mode = "imM" /\ op \notin IndexWide
           \/ mode = "imX" /\ op \in IndexWide
           \/ mode \in AddressModes \cup {"acc"}
    BY <1>3, <1>9 DEF ModeFits
  <2>2. FetchedLength(op, s) = 1 + GenericFetches(op, s)
    BY <1>9 DEF FetchedLength
  <2>3. CASE mode = "imM" /\ op \notin IndexWide
    <3>1. GenericFetches(op, s) = IF w.m8 THEN 1 ELSE 2
      BY <1>2, <2>1, <2>3 DEF GenericFetches, mode
    <3> QED BY <1>1, <1>4, <2>2, <2>3, <3>1 DEF s, k
  <2>4. CASE mode = "imX" /\ op \in IndexWide
    <3>1. GenericFetches(op, s) = IF w.x8 THEN 1 ELSE 2
      BY <1>2, <2>1, <2>4 DEF GenericFetches, mode
    <3> QED BY <1>1, <1>4, <2>2, <2>4, <3>1 DEF s, k
  <2>5. CASE mode \in AddressModes \cup {"acc"}
    <3>1. GenericFetches(op, s) = IF mode = "acc" THEN 0 ELSE AddressFetches(mode)
      BY <2>1, <2>5 DEF GenericFetches, AddressModes, mode
    <3> QED BY <1>4, <2>2, <2>5, <3>1 DEF AddressModes, AddressFetches, FixedLength, s, k
  <2> QED BY <2>1, <2>3, <2>4, <2>5
<1> QED BY <1>5, <1>6, <1>7, <1>8, <1>9

\* LengthsAgree holds as soon as the known widths are the processor's.
LEMMA LengthsFollow == CpuInv => LengthsAgree
<1> SUFFICES ASSUME CpuInv PROVE LengthsAgree
  OBVIOUS
<1> DEFINE w == [m |-> known.m, x |-> known.x, m8 |-> Memory8(cpu), x8 |-> Index8(cpu)]
<1>1. /\ cpu \in State /\ known \in Static
      /\ (cpu.e => cpu.m /\ cpu.x) /\ Agrees(known.m, cpu.m) /\ Agrees(known.x, cpu.x)
  BY DEF CpuInv, CpuTypeOK, State, WidthsKept, StaticCovers, CoversFlags
<1>2. known.m \in KnownBit /\ known.x \in KnownBit
  BY <1>1 DEF Static
<1>3. Memory8(cpu) \in BOOLEAN /\ Index8(cpu) \in BOOLEAN
  BY DEF Memory8, Index8
<1>4. (Memory8(cpu) <=> cpu.m) /\ (Index8(cpu) <=> cpu.x)
  BY <1>1 DEF Memory8, Index8
<1>5. w \in Widths
  BY <1>2, <1>3 DEF Widths
<1>6. Agrees(w.m, w.m8) /\ Agrees(w.x, w.x8)
  BY <1>1, <1>4 DEF Agrees
<1> HIDE DEF w
<1>7. w \in Agreeing
  BY <1>5, <1>6, LengthsFit
<1> QED BY <1>7 DEF LengthsAgree, w

\* On every path, wherever dkc2_decode_instruction finds a length,
\* execute_instruction takes as many bytes, for each of the 256 opcodes.
THEOREM DecoderMatchesExecutor == CpuSpec => []LengthsAgree
BY CpuInvariant, LengthsFollow, PTL

-----------------------------------------------------------------------------
(* The analyzer.                                                           *)

\* A path that knows its return words knows all of them.
Sound == {p \in Points : p.known = 1 => p.depth = Len(p.words)}

\* What each decoded instruction may add: one path, two edges, one call site.
Counted ==
  /\ Len(visited) <= options.limit
  /\ Len(queue) <= Len(visited) + 1
  /\ edge_count <= 2 * Len(visited)
  /\ Len(calls) <= Len(visited)

Typed ==
  /\ options \in [limit : Limits, follow : BOOLEAN]
  /\ queue \in Seq(Sound) /\ visited \in Seq(Sound) /\ point \in Sound
  /\ calls \in Seq(Addresses \X Addresses)
  /\ queue_head \in 0 .. Len(queue) /\ edge_count \in 0 .. EdgeCapacity /\ blocked \in Nat
  /\ stage \in {"next", "path", "done"}

FlowInv == Typed /\ Counted

-----------------------------------------------------------------------------
(* Points.                                                                 *)

LEMMA WrapsAround == ASSUME NEW n \in Nat PROVE n % Size \in Addresses
BY FlowAssumption DEF Addresses

LEMMA LengthIsNat == ASSUME NEW op, NEW k \in Static PROVE DecodedLength(op, k) \in 0 .. 4
<1> DEFINE mode == ModeOf(op)
<1> HIDE DEF mode
<1>1. FixedLength(mode) \in 0 .. 4
  BY DEF FixedLength
<1>2. ByWidth(k.m) \in 0 .. 4 /\ ByWidth(k.x) \in 0 .. 4
  BY DEF ByWidth, Static, KnownBit
<1>3. DecodedLength(op, k) = CASE mode = "imM" -> ByWidth(k.m)
                               [] mode = "imX" -> ByWidth(k.x)
                               [] OTHER -> FixedLength(mode)
  BY DEF DecodedLength, mode
<1> QED BY <1>1, <1>2, <1>3

LEMMA StaysStatic == ASSUME NEW k \in Static, NEW op, NEW mask PROVE Apply(k, op, mask) \in Static
<1>1. /\ [k EXCEPT !.c = "0"] \in Static /\ [k EXCEPT !.c = "1"] \in Static
      /\ [k EXCEPT !.c = "?"] \in Static /\ [k EXCEPT !.c = "?", !.m = "?", !.x = "?"] \in Static
      /\ [k EXCEPT !.e = k.c, !.c = k.e] \in Static
  BY DEF Static, KnownBit
<1>2. RepState(k, mask) \in Static /\ SepState(k, mask) \in Static
  BY DEF RepState, SepState, ClearedWidth, Static, KnownBit
<1>3. XceState(k) \in Static /\ EmulationConstraint([k EXCEPT !.c = "?", !.m = "?", !.x = "?"]) \in Static
  BY <1>1, Constrained DEF XceState
<1> QED BY <1>1, <1>2, <1>3 DEF Apply

LEMMA Fields ==
  ASSUME NEW p \in Sound
  PROVE  /\ p \in Points /\ p.address \in Addresses /\ p.state \in Static /\ p.depth \in Nat
         /\ p.words \in Seq(Addresses) /\ (p.known = 1 => p.depth = Len(p.words))
BY DEF Sound, Points

LEMMA SoundPoint == ASSUME NEW q \in Points, q.known = 1 => q.depth = Len(q.words) PROVE q \in Sound
BY Zenon DEF Sound

LEMMA NoneIsEmpty == NoWords \in Seq(Addresses) /\ Len(NoWords) = 0
BY DEF NoWords

LEMMA StackSound ==
  ASSUME NEW p \in Sound, NEW k \in 0 .. 1, NEW w \in Seq(Addresses), NEW d \in Nat, k = 1 => d = Len(w)
  PROVE  WithStack(p, k, w, d) \in Sound
<1> DEFINE q == [p EXCEPT !.known = k, !.words = w, !.depth = d]
<1>1. q \in Points /\ q.known = k /\ q.words = w /\ q.depth = d
  BY Fields DEF Points
<1> HIDE DEF q
<1> QED BY <1>1, SoundPoint DEF q, WithStack

LEMMA AtSound == ASSUME NEW p \in Sound, NEW n \in Nat PROVE At(p, n) \in Sound
<1>1. n % Size \in Addresses
  BY WrapsAround
<1>2. ASSUME NEW a \in Addresses PROVE [p EXCEPT !.address = a] \in Sound
  BY DEF Sound, Points
<1> QED BY <1>1, <1>2 DEF At

LEMMA Bits == 0 \in 0 .. 1 /\ 1 \in 0 .. 1 /\ 0 \in Nat /\ 0 # 1
OBVIOUS

LEMMA PushedSound == ASSUME NEW p \in Sound, NEW w \in Addresses PROVE Pushed(p, w) \in Sound
<1>1. WithStack(p, 0, NoWords, p.depth) \in Sound
  BY StackSound, NoneIsEmpty, Fields, Bits, Zenon
<1>2. Append(p.words, w) \in Seq(Addresses) /\ Len(Append(p.words, w)) = Len(p.words) + 1 /\ p.depth + 1 \in Nat
  BY Fields
<1>3. ASSUME p.known = 1 PROVE WithStack(p, 1, Append(p.words, w), p.depth + 1) \in Sound
  <2>1. p.depth + 1 = Len(Append(p.words, w))
    BY <1>2, <1>3, Fields
  <2> QED BY <1>2, <2>1, StackSound, Bits, Zenon
<1> QED BY <1>1, <1>3 DEF Pushed

LEMMA TrackedSound == ASSUME NEW p \in Sound, NEW i, i.target \in Addresses PROVE Tracked(p, i) \in Sound
<1>1. Pushed(p, i.target) \in Sound
  BY PushedSound
<1>2. WithStack(p, 1, NoWords, 0) \in Sound
  BY StackSound, NoneIsEmpty, Bits, Zenon
<1>3. WithStack(p, 0, NoWords, p.depth) \in Sound
  BY StackSound, NoneIsEmpty, Fields, Bits, Zenon
<1> QED BY <1>1, <1>2, <1>3 DEF Tracked

LEMMA Targets == ASSUME NEW i \in Readable PROVE i.target \in Addresses
BY DEF Readable, Instructions

LEMMA AddressIsNat == Addresses \subseteq Nat
BY FlowAssumption DEF Addresses

LEMMA AfterSound ==
  ASSUME NEW p \in Sound, NEW i \in Readable
  PROVE  After(p, i) \in Sound /\ Onward(p, i) \in Sound /\ Taken(p, i) \in Sound /\ Callee(p, i) \in Sound
<1>1. Apply(p.state, i.op, i.mask) \in Static /\ DecodedLength(i.op, p.state) \in Nat
  BY StaysStatic, LengthIsNat, Fields
<1>2. ASSUME NEW s \in Static PROVE [p EXCEPT !.state = s] \in Sound
  BY DEF Sound, Points
<1>3. After(p, i) \in Sound
  BY <1>1, <1>2, TrackedSound, Targets DEF After
<1>4. p.address + DecodedLength(i.op, p.state) \in Nat /\ i.target \in Nat
  <2>1. p.address \in Nat
    BY AddressIsNat, Fields
  <2>2. i.target \in Nat
    BY AddressIsNat, Targets
  <2> QED BY <1>1, <2>1, <2>2
<1>5. Onward(p, i) \in Sound /\ Taken(p, i) \in Sound
  BY <1>3, <1>4, AtSound DEF Onward, Taken
<1>6. Callee(p, i) \in Sound
  BY <1>5, StackSound, NoneIsEmpty, Bits, Zenon DEF Callee
<1> QED BY <1>3, <1>5, <1>6

LEMMA ReturnedSound == ASSUME NEW p \in Sound, p.known = 1, p.depth > 0 PROVE Returned(p) \in Sound
<1>1. p.words \in Seq(Addresses) /\ Len(p.words) \in Nat \ {0} /\ p.words[Len(p.words)] \in Addresses
  BY Fields
<1> DEFINE u == SubSeq(p.words, 1, Len(p.words) - 1)  d == p.depth - 1
<1>2. u \in Seq(Addresses) /\ Len(u) = d /\ d \in Nat
  BY <1>1, Fields
<1> HIDE DEF u, d
<1>3. WithStack(p, 1, u, d) \in Sound
  BY <1>2, StackSound, Bits, Zenon
<1>4. ASSUME NEW n \in Addresses PROVE n + 1 \in Nat
  BY AddressIsNat
<1>5. p.words[Len(p.words)] + 1 \in Nat
  BY <1>1, <1>4
<1> DEFINE q == WithStack(p, 1, u, d)  n == p.words[Len(p.words)] + 1
<1>6. Returned(p) = At(q, n)
  BY DEF Returned, u, d
<1>7. q \in Sound /\ n \in Nat
  BY <1>3, <1>5
<1> HIDE DEF q, n
<1> QED BY <1>6, <1>7, AtSound

-----------------------------------------------------------------------------
(* The counts.                                                             *)

LEMMA LimitIsNat == ASSUME options \in [limit : Limits, follow : BOOLEAN] PROVE options.limit \in Nat
<1>1. options.limit \in Limits
  OBVIOUS
<1> QED BY <1>1, FlowAssumption

LEMMA Decoded ==
  ASSUME FlowInv, NEW i \in Readable, Decode(i)
  PROVE  /\ point \in Sound /\ visited' \in Seq(Sound) /\ Len(visited') = Len(visited) + 1
         /\ options' = options /\ queue_head' = queue_head /\ stage = "path"
         /\ Len(visited') <= options.limit /\ options.limit \in Nat
         /\ Len(queue) <= Len(visited) + 1 /\ Len(visited) \in Nat /\ Len(queue) \in Nat
         /\ edge_count <= 2 * Len(visited) /\ Len(calls) <= Len(visited)
         /\ edge_count \in Nat /\ Len(calls) \in Nat
<1>1. Typed /\ Counted /\ visited' = Append(visited, point) /\ Len(visited) < options.limit
  BY DEF FlowInv, Decode
<1>2. visited \in Seq(Sound) /\ point \in Sound /\ queue \in Seq(Sound) /\ calls \in Seq(Addresses \X Addresses)
      /\ options.limit \in Nat /\ edge_count \in Nat
  <2>1. options.limit \in Nat
    BY <1>1, LimitIsNat DEF Typed
  <2> QED BY <1>1, <2>1 DEF Typed, EdgeCapacity
<1>3. visited' \in Seq(Sound) /\ Len(visited') = Len(visited) + 1
  BY <1>1, <1>2
<1> QED BY <1>1, <1>2, <1>3 DEF Counted, Decode

LEMMA Continued ==
  ASSUME FlowInv, NEW i \in Readable, Decode(i), NEW p \in Sound, NEW n \in 0 .. 2, Continue(p, n)
  PROVE  /\ point' \in Sound /\ edge_count' \in 0 .. EdgeCapacity /\ edge_count' <= 2 * Len(visited')
         /\ blocked' \in Nat /\ stage' = "path"
<1> DEFINE l == options.limit  v == Len(visited)
<1>1. /\ edge_count <= 2 * v /\ edge_count \in Nat /\ v \in Nat /\ l \in Nat
      /\ Len(visited') = v + 1 /\ v + 1 <= l /\ options' = options /\ stage = "path"
  BY Decoded
<1>2. blocked \in Nat
  BY DEF FlowInv, Typed
<1>3. EdgeCapacity = l * 2 + 16
  BY DEF EdgeCapacity, l
<1> HIDE DEF l, v
<1>4. /\ edge_count + n \in Nat /\ edge_count + n <= 2 * (v + 1)
      /\ EdgeCapacity \in Nat /\ edge_count + n <= EdgeCapacity
  BY ONLY <1>1, <1>3, n \in 0 .. 2
<1>5. point' = p /\ edge_count' = edge_count + n /\ blocked' = blocked /\ stage' = stage
  BY ONLY <1>4, Continue(p, n) DEF Continue
<1> QED BY ONLY <1>1, <1>2, <1>4, <1>5, p \in Sound

LEMMA Queued ==
  ASSUME FlowInv, NEW i \in Readable, Decode(i), NEW p \in Sound, Queue(p) \/ queue' = queue
  PROVE  queue' \in Seq(Sound) /\ Len(queue') <= Len(visited') + 1 /\ Len(queue) <= Len(queue')
<1>1. queue \in Seq(Sound)
  BY DEF FlowInv, Typed
<1>2. Append(queue, p) \in Seq(Sound) /\ Len(Append(queue, p)) = Len(queue) + 1
  BY <1>1
<1>3. queue' = queue \/ queue' = Append(queue, p)
  BY DEF Queue
<1>4. /\ Len(visited') = Len(visited) + 1 /\ Len(queue) <= Len(visited) + 1
      /\ Len(visited) \in Nat /\ Len(queue) \in Nat
  BY Decoded
<1> QED BY ONLY <1>1, <1>2, <1>3, <1>4

\* A decoded instruction whose handler keeps to the counts keeps the invariant.
LEMMA StepTyped ==
  ASSUME FlowInv, NEW i \in Readable, Decode(i),
         point' \in Sound, edge_count' \in 0 .. EdgeCapacity, edge_count' <= 2 * Len(visited'),
         blocked' \in Nat, stage' \in {"next", "path"},
         queue' \in Seq(Sound), Len(queue') <= Len(visited') + 1, Len(queue) <= Len(queue'),
         calls' \in Seq(Addresses \X Addresses), Len(calls') <= Len(visited')
  PROVE  FlowInv'
<1>1. queue_head' \in 0 .. Len(queue') /\ options' \in [limit : Limits, follow : BOOLEAN]
  <2>1. queue_head \in 0 .. Len(queue) /\ Len(queue) \in Nat /\ Len(queue') \in Nat
    <3>1. queue \in Seq(Sound) /\ queue_head \in 0 .. Len(queue)
      BY DEF FlowInv, Typed
    <3> QED BY ONLY <3>1, queue' \in Seq(Sound)
  <2>2. /\ queue_head' = queue_head /\ options' = options
        /\ options \in [limit : Limits, follow : BOOLEAN]
    BY Decoded DEF FlowInv, Typed
  <2> QED BY ONLY <2>1, <2>2, Len(queue) <= Len(queue')
<1>2. EdgeCapacity' = EdgeCapacity
  BY Decoded DEF EdgeCapacity
<1> QED BY <1>1, <1>2, Decoded DEF FlowInv, Typed, Counted

LEMMA CallsKept ==
  ASSUME FlowInv, NEW i \in Readable, Decode(i), calls' = calls
  PROVE  calls' \in Seq(Addresses \X Addresses) /\ Len(calls') <= Len(visited')
BY Decoded DEF FlowInv, Typed

LEMMA InstructionTyped ==
  ASSUME FlowInv, NEW i \in Readable, Instruction(i)
  PROVE  FlowInv'
<1>1. Decode(i)
  BY DEF Instruction, Block, Conditional, Jump, DirectCall, Advance, StackReturn, Leave
<1>2. After(point, i) \in Sound /\ Onward(point, i) \in Sound /\ Taken(point, i) \in Sound /\ Callee(point, i) \in Sound
  BY <1>1, Decoded, AfterSound
<1>3. ASSUME EndPath, blocked' \in Nat, queue' = queue, calls' = calls
      PROVE  FlowInv'
  <2>1. point' \in Sound /\ edge_count' \in 0 .. EdgeCapacity /\ edge_count' <= 2 * Len(visited') /\ stage' \in {"next", "path"}
    BY <1>1, <1>3, Decoded DEF FlowInv, Typed, EndPath
  <2> QED BY <1>1, <1>3, <2>1, Decoded, Queued, CallsKept, StepTyped
<1>4. ASSUME NEW p \in Sound, NEW n \in 0 .. 2, Continue(p, n), NEW q \in Sound, Queue(q) \/ queue' = queue,
             calls' \in Seq(Addresses \X Addresses), Len(calls') <= Len(visited')
      PROVE  FlowInv'
  BY <1>1, <1>4, Continued, Queued, StepTyped
<1>5. CASE Block(i)
  BY <1>3, <1>5 DEF Block, FlowInv, Typed
<1>6. CASE Conditional(i)
  BY <1>1, <1>2, <1>4, <1>6, CallsKept DEF Conditional
<1>7. CASE Jump(i)
  BY <1>1, <1>2, <1>4, <1>7, CallsKept DEF Jump
<1>8. CASE DirectCall(i)
  <2>1. calls' \in Seq(Addresses \X Addresses) /\ Len(calls') <= Len(visited')
    <3> DEFINE site == <<point.address, i.target>>
    <3>1. site \in Addresses \X Addresses
      <4>1. point.address \in Addresses
        BY <1>1, Decoded, Fields
      <4>2. i.target \in Addresses
        BY Targets
      <4> QED BY <4>1, <4>2
    <3>2. calls' = calls \/ calls' = Append(calls, site)
      BY <1>8 DEF DirectCall
    <3> HIDE DEF site
    <3>3. calls \in Seq(Addresses \X Addresses)
      BY DEF FlowInv, Typed
    <3> DEFINE Sites == Addresses \X Addresses
    <3> HIDE DEF Sites
    <3>4. Append(calls, site) \in Seq(Sites) /\ Len(Append(calls, site)) = Len(calls) + 1
      BY <3>1, <3>3 DEF Sites
    <3>5. /\ Len(calls) <= Len(visited) /\ Len(visited') = Len(visited) + 1
          /\ Len(calls) \in Nat /\ Len(visited) \in Nat
      BY <1>1, Decoded
    <3>6. Len(calls') <= Len(visited')
      BY ONLY <3>2, <3>4, <3>5
    <3> QED BY ONLY <3>2, <3>3, <3>4, <3>6 DEF Sites
  <2> QED BY <1>2, <1>4, <1>8, <2>1 DEF DirectCall
<1>9. CASE Advance(i)
  BY <1>1, <1>2, <1>4, <1>9, CallsKept DEF Advance
<1>10. CASE StackReturn(i)
  <2>1. ReturnsToWord(point, i) /\ After(point, i).known = 1 /\ After(point, i).depth > 0
    <3>1. i.op = 96 /\ point.known = 1 /\ point.depth > 0 /\ point \in Points
      BY <1>1, <1>10, Decoded, Fields DEF StackReturn, ReturnsToWord
    <3>2. ASSUME NEW s PROVE [point EXCEPT !.state = s].known = 1 /\ [point EXCEPT !.state = s].depth > 0
      BY <3>1 DEF Points
    <3>3. ASSUME NEW p PROVE Tracked(p, i) = p
      BY <3>1 DEF Tracked
    <3>4. After(point, i).known = 1 /\ After(point, i).depth > 0
      BY <3>2, <3>3 DEF After
    <3> QED BY <1>10, <3>4 DEF StackReturn
  <2> QED BY <1>1, <1>2, <1>4, <1>10, <2>1, CallsKept, ReturnedSound DEF StackReturn
<1>11. CASE Leave(i)
  BY <1>3, <1>11 DEF Leave, FlowInv, Typed
<1> QED BY <1>5, <1>6, <1>7, <1>8, <1>9, <1>10, <1>11 DEF Instruction

LEMMA FlowStep ==
  ASSUME FlowInv, [FlowNext]_flowVars
  PROVE  FlowInv'
<1> USE DEF FlowInv
<1>1. CASE TakePath
  <2>1. queue \in Seq(Sound) /\ queue_head \in 0 .. Len(queue) /\ queue_head < Len(queue) /\ Len(queue) \in Nat
    BY <1>1 DEF TakePath, Typed
  <2>2. point' \in Sound /\ queue_head' \in 0 .. Len(queue)
    BY <1>1, <2>1 DEF TakePath
  <2> QED BY <1>1, <2>2 DEF TakePath, Typed, Counted, EdgeCapacity
<1>2. CASE Finish
  BY <1>2 DEF Finish, Typed, Counted, EdgeCapacity
<1>3. CASE Meet
  BY <1>3 DEF Meet, Typed, Counted, EdgeCapacity
<1>4. ASSUME NEW i \in Readable, Instruction(i) PROVE FlowInv'
  BY <1>4, InstructionTyped
<1>5. CASE UNCHANGED flowVars
  BY <1>5 DEF flowVars, Typed, Counted, EdgeCapacity
<1> QED BY <1>1, <1>2, <1>3, <1>4, <1>5 DEF FlowNext

LEMMA FlowStart == FlowInit => FlowInv
<1> SUFFICES ASSUME FlowInit PROVE FlowInv
  OBVIOUS
<1>1. PICK state \in {ResetEntry, NativeEntry}, depth \in {0, 255} :
        queue = <<[address |-> 0, state |-> state, depth |-> depth, known |-> 0, words |-> NoWords]>>
  BY DEF FlowInit
<1> DEFINE start == [address |-> 0, state |-> state, depth |-> depth, known |-> 0, words |-> NoWords]
<1>2. start \in Points /\ start.known = 0
  <2>1. state \in Static
    BY DEF ResetEntry, NativeEntry, Static, KnownBit
  <2>2. 0 \in Addresses /\ depth \in Nat
    BY FlowAssumption DEF Addresses
  <2> QED BY <2>1, <2>2, NoneIsEmpty DEF Points
<1>3. queue = <<start>>
  BY <1>1
<1> HIDE DEF start
<1>4. start \in Sound
  BY <1>2, SoundPoint
<1>5. queue \in Seq(Sound) /\ Len(queue) = 1 /\ point \in Sound
  BY <1>3, <1>4 DEF FlowInit
<1>6. /\ visited = <<>> /\ calls = <<>> /\ edge_count = 0 /\ queue_head = 0 /\ blocked = 0 /\ stage = "next"
      /\ options \in [limit : Limits, follow : BOOLEAN]
  BY DEF FlowInit
<1>7. options.limit \in Nat
  BY <1>6, LimitIsNat
<1>8. visited \in Seq(Sound) /\ Len(visited) = 0 /\ calls \in Seq(Addresses \X Addresses) /\ Len(calls) = 0
  BY <1>6
<1>9. Typed
  BY <1>5, <1>6, <1>7, <1>8 DEF Typed, EdgeCapacity
<1>10. Counted
  BY <1>5, <1>6, <1>7, <1>8 DEF Counted
<1> QED BY <1>9, <1>10 DEF FlowInv

LEMMA RoomFollows == FlowInv => RoomIsLeft
<1> SUFFICES ASSUME FlowInv, Len(visited) < options.limit
             PROVE  Len(queue) < QueueCapacity /\ edge_count + 2 <= EdgeCapacity /\ Len(calls) < options.limit
  BY Zenon DEF RoomIsLeft
<1>1. /\ options.limit \in Nat /\ Len(visited) \in Nat /\ Len(queue) \in Nat /\ Len(calls) \in Nat
      /\ edge_count \in Nat
  <2>1. options.limit \in Nat
    BY LimitIsNat DEF FlowInv, Typed
  <2> QED BY <2>1 DEF FlowInv, Typed, EdgeCapacity
<1>2. /\ Len(visited) < options.limit /\ Len(queue) <= Len(visited) + 1
      /\ edge_count <= 2 * Len(visited) /\ Len(calls) <= Len(visited)
  BY DEF FlowInv, Counted
<1> DEFINE l == options.limit  v == Len(visited)  q == Len(queue)  c == Len(calls)
<1>3. /\ l \in Nat /\ v \in Nat /\ q \in Nat /\ c \in Nat /\ edge_count \in Nat
      /\ v < l /\ q <= v + 1 /\ edge_count <= 2 * v /\ c <= v
  BY ONLY <1>1, <1>2
<1> HIDE DEF l, v, q, c
<1>4. q < l * 4 + 16 /\ edge_count + 2 <= l * 2 + 16 /\ c < l
  BY ONLY <1>3
<1> QED BY ONLY <1>4 DEF l, v, q, c, QueueCapacity, EdgeCapacity

-----------------------------------------------------------------------------
\* FlowInv is an invariant of the analyzer, whatever program it reads.
THEOREM FlowInvariant == FlowSpec => []FlowInv
BY FlowStart, FlowStep, PTL DEF FlowSpec

\* Type correctness of the analyzer's arrays and counters.
THEOREM FlowTypeCorrect == FlowSpec => []FlowTypeOK
<1>1. FlowInv => FlowTypeOK
  <2>1. Sound \subseteq Points
    BY DEF Sound
  <2> QED BY <2>1 DEF FlowInv, Typed, FlowTypeOK
<1> QED BY <1>1, FlowInvariant, PTL

\* capacity and edge_capacity of analyze_entry suffice: no path, edge or call
\* site is dropped, for any program, limit and entry.
THEOREM NothingIsDropped == FlowSpec => []RoomIsLeft
BY RoomFollows, FlowInvariant, PTL

-----------------------------------------------------------------------------
(* What is decoded is what can be reached.                                 *)

\* Where execution goes from p over the instruction i, and over a program.
Heads(follow, p, i) ==
  IF Undecodable(p, i) THEN {} ELSE
  CASE FlowOf(i.op) = "conditional" -> {Taken(p, i), Onward(p, i)}
    [] FlowOf(i.op) \in {"branch", "jump"} -> {Taken(p, i)}
    [] FlowOf(i.op) = "call" -> {Onward(p, i)} \cup IF follow THEN {Callee(p, i)} ELSE {}
    [] FlowOf(i.op) \in {"next", "indirectCall"} -> {Onward(p, i)}
    [] FlowOf(i.op) \in {"return", "indirectJump"} ->
         IF ReturnsToWord(p, i) THEN {Returned(After(p, i))} ELSE {}
    [] OTHER -> {}

Follows(prog, follow, p) == Heads(follow, p, prog[p.address])

LEMMA SuccessorsAre == \A p : Successors(p) = Follows(program, options.follow, p)
BY DEF Successors, Follows, Heads

\* Decoded, still queued, or where the path is.
Awaited(q) ==
  \/ \E j \in 1 .. Len(visited) : visited[j] = q
  \/ \E j \in queue_head + 1 .. Len(queue) : queue[j] = q
  \/ stage = "path" /\ point = q

Rooted(q, n) == \E j \in 1 .. n : q \in Follows(program, options.follow, visited[j])

ReachInv ==
  /\ program \in [Addresses -> Readable \cup {Unread}]
  /\ \A k \in 1 .. Len(visited) : program[visited[k].address] \in Readable
  /\ Len(visited) < options.limit =>
       \A k \in 1 .. Len(visited) : \A q \in Follows(program, options.follow, visited[k]) : Awaited(q)
  /\ \A k \in 1 .. Len(visited) : k = 1 \/ Rooted(visited[k], k - 1)
  /\ \A k \in 1 .. Len(queue) : k = 1 \/ Rooted(queue[k], Len(visited))
  /\ stage = "path" => queue_head >= 1 /\ (Len(visited) = 0 \/ Rooted(point, Len(visited)))
  /\ queue_head = 0 => Len(visited) = 0
  /\ stage = "done" /\ Len(visited) < options.limit => queue_head >= Len(queue)
  /\ \A k \in 1 .. Len(visited) : \A j \in 1 .. k - 1 : visited[j] # visited[k]

\* Code that has been read is never read differently.
LEMMA CodeStays ==
  ASSUME FlowInv, ReachInv, NEW i \in Readable, Decode(i)
  PROVE  /\ program' \in [Addresses -> Readable \cup {Unread}]
         /\ program'[point.address] = i
         /\ \A k \in 1 .. Len(visited) : program'[visited[k].address] = program[visited[k].address]
<1>1. point.address \in Addresses
  BY Decoded, Fields
<1>2. Unread \notin Readable
  <2>1. ASSUME NEW r \in Readable PROVE r.op \in -1 .. 255
    BY FlowAssumption DEF Readable, Instructions
  <2>2. Unread.op = 256 /\ 256 \notin -1 .. 255
    BY DEF Unread
  <2> QED BY <2>1, <2>2
<1>3. program' = [program EXCEPT ![point.address] = i] /\ program \in [Addresses -> Readable \cup {Unread}]
  BY DEF Decode, Reads, ReachInv
<1>4. program[point.address] # Unread => i = program[point.address]
  BY DEF Decode, Reads
<1>5. \A k \in 1 .. Len(visited) : program[visited[k].address] # Unread
  BY <1>2 DEF ReachInv
<1> HIDE DEF Unread, Readable
<1> QED BY <1>1, <1>3, <1>4, <1>5

\* The step of an instruction whose successors are queued or the path's next.
LEMMA ReachDecode ==
  ASSUME FlowInv, ReachInv, NEW i \in Readable, Decode(i), stage' \in {"next", "path"},
         \A q \in Heads(options.follow, point, i) :
            \/ \E j \in queue_head + 1 .. Len(queue') : queue'[j] = q
            \/ stage' = "path" /\ point' = q,
         stage' = "path" => point' \in Heads(options.follow, point, i),
         queue' = queue
           \/ \E q \in Heads(options.follow, point, i) : queue' = Append(queue, q)
  PROVE  ReachInv'
<1> DEFINE n == Len(visited)
<1>1. /\ visited \in Seq(Sound) /\ queue \in Seq(Sound) /\ point \in Sound /\ n \in Nat
      /\ visited' = Append(visited, point) /\ options' = options /\ queue_head' = queue_head
      /\ stage = "path" /\ n < options.limit /\ queue_head \in Nat /\ queue_head >= 1
      /\ Len(queue) \in Nat
  <2>1. Typed
    BY DEF FlowInv
  <2> QED BY <2>1, Decoded DEF Decode, Typed, ReachInv
<1>2. /\ Len(visited') = n + 1 /\ visited'[n + 1] = point
      /\ \A k \in 1 .. n : visited'[k] = visited[k]
  BY <1>1
<1>3. /\ Len(queue') \in Nat /\ Len(queue') >= Len(queue)
      /\ \A k \in 1 .. Len(queue) : queue'[k] = queue[k]
      /\ \A k \in Len(queue) + 1 .. Len(queue') : queue'[k] \in Heads(options.follow, point, i)
  <2>1. CASE queue' = queue
    BY <1>1, <2>1
  <2>2. ASSUME NEW q \in Heads(options.follow, point, i), queue' = Append(queue, q)
        PROVE  <1>3!:
    <3>1. /\ Len(queue') = Len(queue) + 1 /\ queue'[Len(queue) + 1] = q
          /\ \A k \in 1 .. Len(queue) : queue'[k] = queue[k]
      BY <1>1, <2>2
    <3>2. \A k \in Len(queue) + 1 .. Len(queue') : k = Len(queue) + 1
      BY <1>1, <3>1
    <3> QED BY <1>1, <3>1, <3>2
  <2> QED BY <2>1, <2>2
<1>4. /\ program' \in [Addresses -> Readable \cup {Unread}]
      /\ \A k \in 1 .. n : program'[visited[k].address] = program[visited[k].address]
      /\ program'[point.address] = i
  BY CodeStays
<1> DEFINE G(p) == Follows(program', options'.follow, p)
           R(q, m) == \E j \in 1 .. m : q \in G(visited'[j])
<1>5. /\ G(point) = Heads(options.follow, point, i)
      /\ \A k \in 1 .. n : G(visited[k]) = Follows(program, options.follow, visited[k])
  BY <1>1, <1>4 DEF Follows
<1> HIDE DEF n, G, R
<1>6. \A k \in 1 .. n + 1 : k \in 1 .. n \/ k = n + 1
  BY <1>1
<1>7. \A k \in 1 .. Len(queue') : k \in 1 .. Len(queue) \/ k \in Len(queue) + 1 .. Len(queue')
  BY <1>1, <1>3
<1>10. n = 0 \/ Rooted(point, n)
  BY <1>1 DEF ReachInv, n
\* The parts of ReachInv, in their order.
<1>11. \A k \in 1 .. n + 1 : program'[visited'[k].address] \in Readable
  <2>1. \A k \in 1 .. n : program[visited[k].address] \in Readable
    BY DEF ReachInv, n
  <2> QED BY <1>2, <1>4, <1>6, <2>1
<1>12. ASSUME n + 1 < options.limit, NEW k \in 1 .. n + 1, NEW q \in G(visited'[k])
       PROVE  Awaited(q)'
  <2>1. CASE k = n + 1
    <3>1. q \in Heads(options.follow, point, i)
      BY <1>2, <1>5, <1>12, <2>1
    <3> QED BY <1>1, <3>1 DEF Awaited
  <2>2. CASE k \in 1 .. n
    <3>1. Awaited(q)
      BY <1>1, <1>2, <1>5, <1>12, <2>2 DEF ReachInv, n
    <3>2. CASE \E j \in 1 .. n : visited[j] = q
      <4>1. PICK j \in 1 .. n : visited[j] = q
        BY <3>2
      <4>2. j \in 1 .. n + 1 /\ visited'[j] = q
        BY <1>1, <1>2, <4>1
      <4> QED BY <1>2, <4>2 DEF Awaited
    <3>3. CASE \E j \in queue_head + 1 .. Len(queue) : queue[j] = q
      <4>1. PICK j \in queue_head + 1 .. Len(queue) : queue[j] = q
        BY <3>3
      <4>2. j \in queue_head + 1 .. Len(queue') /\ j \in 1 .. Len(queue)
        BY <1>1, <1>3, <4>1
      <4> QED BY <1>1, <1>3, <4>1, <4>2 DEF Awaited
    <3>4. CASE point = q
      <4>1. n + 1 \in 1 .. n + 1
        BY <1>1
      <4> QED BY <1>2, <3>4, <4>1 DEF Awaited
    <3> QED BY <3>1, <3>2, <3>3, <3>4 DEF Awaited, n
  <2> QED BY <1>6, <2>1, <2>2
<1>13. ASSUME NEW k \in 1 .. n + 1
       PROVE  k = 1 \/ R(visited'[k], k - 1)
  <2>1. CASE k = n + 1
    <3>1. n \in 0 .. n /\ k - 1 = n /\ visited'[k] = point
      BY <1>1, <1>2, <2>1
    <3>2. CASE n = 0
      BY <2>1, <3>2
    <3>3. CASE Rooted(point, n)
      <4>1. PICK j \in 1 .. n : point \in Follows(program, options.follow, visited[j])
        BY <3>3 DEF Rooted
      <4>2. point \in G(visited'[j])
        BY <1>2, <1>5, <4>1
      <4> QED BY <3>1, <4>1, <4>2 DEF R
    <3> QED BY <1>10, <3>2, <3>3
  <2>2. CASE k \in 1 .. n /\ k # 1
    <3>1. k - 1 \in 0 .. n /\ visited'[k] = visited[k] /\ 1 .. k - 1 \subseteq 1 .. n
      BY <1>1, <1>2, <2>2
    <3>2. Rooted(visited[k], k - 1)
      BY <2>2 DEF ReachInv, n
    <3>3. PICK j \in 1 .. k - 1 : visited[k] \in Follows(program, options.follow, visited[j])
      BY <3>2 DEF Rooted
    <3>4. visited'[k] \in G(visited'[j])
      BY <1>2, <1>5, <3>1, <3>3
    <3> QED BY <3>4 DEF R
  <2> QED BY <1>6, <2>1, <2>2
<1>14. ASSUME NEW k \in 1 .. Len(queue')
       PROVE  k = 1 \/ R(queue'[k], n + 1)
  <2>1. CASE k \in 1 .. Len(queue) /\ k # 1
    <3>1. Rooted(queue[k], n) /\ queue'[k] = queue[k]
      BY <1>3, <2>1 DEF ReachInv, n
    <3>2. PICK j \in 1 .. n : queue[k] \in Follows(program, options.follow, visited[j])
      BY <3>1 DEF Rooted
    <3>3. j \in 1 .. n + 1 /\ queue'[k] \in G(visited'[j])
      BY <1>1, <1>2, <1>5, <3>1, <3>2
    <3> QED BY <3>3 DEF R
  <2>2. CASE k \in Len(queue) + 1 .. Len(queue')
    <3>1. queue'[k] \in G(visited'[n + 1]) /\ n + 1 \in 1 .. n + 1
      BY <1>1, <1>2, <1>3, <1>5, <2>2
    <3> QED BY <3>1 DEF R
  <2> QED BY <1>7, <2>1, <2>2
<1>15. stage' = "path" => R(point', n + 1)
  <2>1. ASSUME stage' = "path"
        PROVE  point' \in G(visited'[n + 1]) /\ n + 1 \in 1 .. n + 1
    BY <1>1, <1>2, <1>5, <2>1
  <2> QED BY <2>1 DEF R
<1>16. ASSUME NEW k \in 1 .. n + 1, NEW j \in 1 .. k - 1
       PROVE  visited'[j] # visited'[k]
  <2>1. j \in 1 .. n /\ visited'[j] = visited[j]
    BY <1>1, <1>2
  <2>2. CASE k = n + 1
    BY <1>1, <1>2, <2>1, <2>2 DEF Decode, AlreadyVisited, n
  <2>3. CASE k \in 1 .. n
    BY <1>2, <2>1, <2>3 DEF ReachInv, n
  <2> QED BY <1>6, <2>2, <2>3
<1> QED
  <2>1. Len(visited') < options'.limit =>
          \A k \in 1 .. Len(visited') :
            \A q \in Follows(program', options'.follow, visited'[k]) : Awaited(q)'
    BY <1>1, <1>2, <1>12 DEF G
  <2>2. \A k \in 1 .. Len(visited') : k = 1 \/ R(visited'[k], k - 1)
    BY <1>2, <1>13
  <2>3. \A k \in 1 .. Len(queue') : k = 1 \/ R(queue'[k], Len(visited'))
    BY <1>2, <1>14
  <2>4. stage' = "path" => queue_head' >= 1 /\ R(point', Len(visited'))
    BY <1>1, <1>2, <1>15
  <2>5. queue_head' # 0 /\ stage' # "done"
    BY <1>1
  <2> QED BY <1>1, <1>2, <1>4, <1>11, <1>16, <2>1, <2>2, <2>3, <2>4, <2>5 DEF ReachInv, Rooted, R, G

\* What an opcode's flow makes of the successors.
LEMMA HeadsAre ==
  ASSUME NEW follow, NEW p, NEW i
  PROVE  /\ Undecodable(p, i) => Heads(follow, p, i) = {}
         /\ ~Undecodable(p, i) =>
              /\ FlowOf(i.op) = "conditional" => Heads(follow, p, i) = {Taken(p, i), Onward(p, i)}
              /\ FlowOf(i.op) \in {"branch", "jump"} => Heads(follow, p, i) = {Taken(p, i)}
              /\ FlowOf(i.op) = "call" =>
                   Heads(follow, p, i) = {Onward(p, i)} \cup IF follow THEN {Callee(p, i)} ELSE {}
              /\ FlowOf(i.op) \in {"next", "indirectCall"} => Heads(follow, p, i) = {Onward(p, i)}
              /\ FlowOf(i.op) \in {"return", "indirectJump"} =>
                   Heads(follow, p, i) = IF ReturnsToWord(p, i) THEN {Returned(After(p, i))} ELSE {}
              /\ FlowOf(i.op) \in {"trap", "stop"} => Heads(follow, p, i) = {}
<1> DEFINE f == FlowOf(i.op)
<1>1. Heads(follow, p, i) =
        IF Undecodable(p, i) THEN {} ELSE
        CASE f = "conditional" -> {Taken(p, i), Onward(p, i)}
          [] f \in {"branch", "jump"} -> {Taken(p, i)}
          [] f = "call" -> {Onward(p, i)} \cup IF follow THEN {Callee(p, i)} ELSE {}
          [] f \in {"next", "indirectCall"} -> {Onward(p, i)}
          [] f \in {"return", "indirectJump"} ->
               IF ReturnsToWord(p, i) THEN {Returned(After(p, i))} ELSE {}
          [] OTHER -> {}
  BY DEF Heads
<1> HIDE DEF f
<1> QED BY <1>1 DEF f

LEMMA ReachInstruction ==
  ASSUME FlowInv, ReachInv, NEW i \in Readable, Instruction(i)
  PROVE  ReachInv'
<1> DEFINE H == Heads(options.follow, point, i)
<1>1. Decode(i)
  BY DEF Instruction, Block, Conditional, Jump, DirectCall, Advance, StackReturn, Leave
<1>2. /\ Len(queue) < QueueCapacity /\ queue \in Seq(Sound) /\ Len(queue) \in Nat
      /\ queue_head \in 0 .. Len(queue) /\ stage = "path"
  <2>1. RoomIsLeft
    BY RoomFollows
  <2> QED BY <1>1, <2>1 DEF RoomIsLeft, Decode, FlowInv, Typed
<1>3. ASSUME NEW q, Queue(q)
      PROVE  /\ queue' = Append(queue, q)
             /\ \E j \in queue_head + 1 .. Len(queue') : queue'[j] = q
  <2>1. queue' = Append(queue, q)
    BY <1>2, <1>3 DEF Queue
  <2>2. Len(queue') = Len(queue) + 1 /\ queue'[Len(queue) + 1] = q
    BY <1>2, <2>1
  <2>3. Len(queue) + 1 \in queue_head + 1 .. Len(queue')
    BY <1>2, <2>2
  <2> QED BY <2>1, <2>2, <2>3
<1>4. ASSUME EndPath, queue' = queue, H = {} PROVE ReachInv'
  BY <1>1, <1>4, ReachDecode DEF EndPath
<1>5. ASSUME NEW p, NEW n, Continue(p, n), queue' = queue, H = {p} PROVE ReachInv'
  BY <1>1, <1>2, <1>5, ReachDecode DEF Continue
<1>6. ASSUME NEW p, NEW n, NEW q, Continue(p, n), Queue(q), H = {p, q} PROVE ReachInv'
  <2>1. stage' = "path" /\ point' = p
    BY <1>2, <1>6 DEF Continue
  <2> QED BY <1>1, <1>3, <1>6, <2>1, ReachDecode
<1> HIDE DEF H
<1>7. CASE Block(i)
  BY <1>4, <1>7, HeadsAre DEF Block, H
<1>8. CASE Conditional(i)
  <2>1. H = {Onward(point, i), Taken(point, i)}
    BY <1>8, HeadsAre DEF Conditional, H
  <2> QED BY <1>6, <1>8, <2>1 DEF Conditional
<1>9. CASE Jump(i)
  <2>1. H = {Taken(point, i)}
    BY <1>9, HeadsAre DEF Jump, H
  <2> QED BY <1>5, <1>9, <2>1 DEF Jump
<1>10. CASE DirectCall(i)
  <2>1. H = {Onward(point, i)} \cup IF options.follow THEN {Callee(point, i)} ELSE {}
    BY <1>10, HeadsAre DEF DirectCall, H
  <2>2. CASE options.follow
    <3>1. H = {Onward(point, i), Callee(point, i)}
      BY <2>1, <2>2
    <3> QED BY <1>6, <1>10, <2>2, <3>1 DEF DirectCall
  <2>3. CASE ~options.follow
    <3>1. H = {Onward(point, i)}
      BY <2>1, <2>3
    <3> QED BY <1>5, <1>10, <2>3, <3>1 DEF DirectCall
  <2> QED BY <2>2, <2>3
<1>11. CASE Advance(i)
  <2>1. H = {Onward(point, i)}
    BY <1>11, HeadsAre DEF Advance, H
  <2> QED BY <1>5, <1>11, <2>1 DEF Advance
<1>12. CASE StackReturn(i)
  <2>1. H = {Returned(After(point, i))}
    BY <1>12, HeadsAre DEF StackReturn, H
  <2> QED BY <1>5, <1>12, <2>1 DEF StackReturn
<1>13. CASE Leave(i)
  <2>1. H = {}
    BY <1>13, HeadsAre DEF Leave, H
  <2> QED BY <1>4, <1>13, <2>1 DEF Leave
<1> QED BY <1>7, <1>8, <1>9, <1>10, <1>11, <1>12, <1>13 DEF Instruction

LEMMA ReachStep ==
  ASSUME FlowInv, ReachInv, [FlowNext]_flowVars
  PROVE  ReachInv'
<1>0. /\ Len(visited) \in Nat /\ Len(queue) \in Nat /\ queue_head \in 0 .. Len(queue)
      /\ options.limit \in Nat
  BY LimitIsNat DEF FlowInv, Typed
<1> DEFINE F(q) == Follows(program, options.follow, q)
<1>1. ASSUME UNCHANGED <<program, options, queue, visited>>,
             queue_head' \in queue_head .. Len(queue),
             stage' = "path" => queue_head' >= 1 /\ (Len(visited) = 0 \/ Rooted(point', Len(visited))),
             stage' = "done" /\ Len(visited) < options.limit => queue_head' >= Len(queue),
             Len(visited) < options.limit => \A q : Awaited(q) => Awaited(q)'
      PROVE  ReachInv'
  <2>1. \A k \in 1 .. Len(visited) : k = 1 \/ Rooted(visited[k], k - 1)
    BY DEF ReachInv
  <2>2. \A k \in 1 .. Len(queue) : k = 1 \/ Rooted(queue[k], Len(visited))
    BY DEF ReachInv
  <2>3. queue_head' = 0 => Len(visited) = 0
    BY <1>0, <1>1 DEF ReachInv
  <2> QED BY <1>1, <2>1, <2>2, <2>3 DEF ReachInv, Rooted
<1>2. CASE TakePath
  <2>1. /\ stage = "next" /\ queue_head < Len(queue) /\ point' = queue[queue_head + 1]
        /\ queue_head' = queue_head + 1 /\ stage' = "path"
        /\ UNCHANGED <<program, options, queue, visited>>
    BY <1>2 DEF TakePath
  <2>2. queue_head + 1 \in 1 .. Len(queue)
    BY <1>0, <2>1
  <2>3. Len(visited) = 0 \/ Rooted(point', Len(visited))
    <3>1. CASE queue_head = 0
      BY <3>1 DEF ReachInv
    <3>2. CASE queue_head # 0
      <4>1. queue_head + 1 # 1
        BY <1>0, <3>2
      <4>2. \A k \in 1 .. Len(queue) : k = 1 \/ Rooted(queue[k], Len(visited))
        BY DEF ReachInv
      <4>3. Rooted(queue[queue_head + 1], Len(visited))
        BY <2>2, <4>1, <4>2
      <4> QED BY <2>1, <4>3 DEF Rooted
    <3> QED BY <3>1, <3>2
  <2>4. ASSUME NEW q, Awaited(q) PROVE Awaited(q)'
    <3>1. CASE \E j \in 1 .. Len(visited) : visited[j] = q
      BY <2>1, <3>1 DEF Awaited
    <3>2. CASE \E j \in queue_head + 1 .. Len(queue) : queue[j] = q
      <4>1. PICK j \in queue_head + 1 .. Len(queue) : queue[j] = q
        BY <3>2
      <4>2. j = queue_head + 1 \/ j \in queue_head' + 1 .. Len(queue')
        BY <1>0, <2>1, <4>1
      <4> QED BY <2>1, <4>1, <4>2 DEF Awaited
    <3> QED BY <2>1, <2>4, <3>1, <3>2 DEF Awaited
  <2>5. queue_head' \in queue_head .. Len(queue) /\ queue_head' >= 1
    BY <1>0, <2>1
  <2> QED BY <1>1, <2>1, <2>3, <2>4, <2>5
<1>3. CASE Finish
  <2>1. /\ stage = "next" /\ stage' = "done" /\ queue_head' = queue_head
        /\ ~(queue_head < Len(queue) /\ Len(visited) < options.limit)
        /\ UNCHANGED <<program, options, queue, visited>>
    BY <1>3 DEF Finish
  <2>2. \A q : Awaited(q) => Awaited(q)'
    BY <2>1 DEF Awaited
  <2>3. Len(visited) < options.limit => queue_head' >= Len(queue)
    BY <1>0, <2>1
  <2>4. queue_head' \in queue_head .. Len(queue)
    BY <1>0, <2>1
  <2> QED BY <1>1, <2>1, <2>2, <2>3, <2>4
<1>4. CASE Meet
  <2>1. /\ stage = "path" /\ stage' = "next" /\ queue_head' = queue_head
        /\ Len(visited) >= options.limit \/ AlreadyVisited(point)
        /\ UNCHANGED <<program, options, queue, visited>>
    BY <1>4 DEF Meet
  <2>2. Len(visited) < options.limit => \E j \in 1 .. Len(visited) : visited[j] = point
    <3>1. DOMAIN visited = 1 .. Len(visited)
      BY DEF FlowInv, Typed
    <3> QED BY <1>0, <2>1, <3>1 DEF AlreadyVisited
  <2>3. ASSUME Len(visited) < options.limit, NEW q, Awaited(q) PROVE Awaited(q)'
    BY <2>1, <2>2, <2>3 DEF Awaited
  <2>4. queue_head' \in queue_head .. Len(queue)
    BY <1>0, <2>1
  <2> QED BY <1>1, <2>1, <2>3, <2>4
<1>5. ASSUME NEW i \in Readable, Instruction(i) PROVE ReachInv'
  BY <1>5, ReachInstruction
<1>6. CASE UNCHANGED flowVars
  BY <1>6 DEF flowVars, ReachInv, Rooted, Awaited
<1> QED BY <1>2, <1>3, <1>4, <1>5, <1>6 DEF FlowNext

LEMMA ReachStart == FlowInit => ReachInv
<1> SUFFICES ASSUME FlowInit PROVE ReachInv
  OBVIOUS
<1>1. /\ program = [a \in Addresses |-> Unread] /\ visited = <<>> /\ queue_head = 0
      /\ stage = "next" /\ Len(queue) = 1
  BY DEF FlowInit
<1>2. program \in [Addresses -> Readable \cup {Unread}]
  BY <1>1
<1>3. Len(visited) = 0 /\ 1 .. 0 = {} /\ \A k \in 1 .. 1 : k = 1
  BY <1>1
<1> QED BY <1>1, <1>2, <1>3 DEF ReachInv

LEMMA ReachFollows == FlowInv /\ ReachInv => DecodesTheReachable
<1> SUFFICES ASSUME FlowInv, ReachInv PROVE DecodesTheReachable
  OBVIOUS
<1>1. /\ DOMAIN visited = 1 .. Len(visited) /\ Len(queue) \in Nat
      /\ queue_head \in 0 .. Len(queue)
  BY DEF FlowInv, Typed
<1>2. ASSUME stage = "done", Len(visited) < options.limit, NEW k \in 1 .. Len(visited),
             NEW q \in Successors(visited[k])
      PROVE  q \in {visited[j] : j \in DOMAIN visited}
  <2>1. Awaited(q) /\ queue_head >= Len(queue)
    BY <1>2, SuccessorsAre DEF ReachInv
  <2>2. queue_head + 1 .. Len(queue) = {}
    BY <1>1, <2>1
  <2> QED BY <1>1, <1>2, <2>1, <2>2 DEF Awaited
<1>3. \A k \in 1 .. Len(visited) :
        /\ k = 1 \/ \E j \in 1 .. k - 1 : visited[k] \in Successors(visited[j])
        /\ \A j \in 1 .. k - 1 : visited[j] # visited[k]
  BY SuccessorsAre DEF ReachInv, Rooted
<1> QED BY <1>1, <1>2, <1>3 DEF DecodesTheReachable

\* analyze_entry decodes what can be reached from the vector, nothing else and
\* nothing twice, and all of it when it ends below its limit.
THEOREM AnalysisIsComplete == FlowSpec => []DecodesTheReachable
BY FlowStart, FlowStep, ReachStart, ReachStep, ReachFollows, PTL DEF FlowSpec

-----------------------------------------------------------------------------
(* The ports and general DMA.                                              *)

\* Division leaves a remainder below the divisor, and only one fits.
LEMMA Divided ==
  ASSUME NEW a \in Int, NEW n \in Nat \ {0}
  PROVE  a % n \in 0 .. n - 1 /\ a \div n \in Int /\ a = n * (a \div n) + (a % n)
OBVIOUS

\* Two ways to write a number below a product as quotient and remainder are one.
LEMMA Unique ==
  ASSUME NEW n \in Nat \ {0}, NEW q \in Int, NEW r \in 0 .. n - 1
  PROVE  (n * q + r) % n = r /\ (n * q + r) \div n = q
<1> DEFINE a == n * q + r
           p == a \div n
           s == a % n
<1>1. a \in Int /\ p \in Int /\ s \in 0 .. n - 1 /\ a = n * p + s
  BY Divided
<1>2. n * q + r = n * p + s
  BY <1>1
<1> HIDE DEF a, p, s
<1>3. ~ p >= q + 1
  <2> SUFFICES ASSUME p >= q + 1 PROVE FALSE OBVIOUS
  <2>1. n * (p - q) >= n
    BY <1>1
  <2> QED BY <1>1, <1>2, <2>1
<1>4. ~ q >= p + 1
  <2> SUFFICES ASSUME q >= p + 1 PROVE FALSE OBVIOUS
  <2>1. n * (q - p) >= n
    BY <1>1
  <2> QED BY <1>1, <1>2, <2>1
<1>5. p = q /\ s = r
  BY <1>1, <1>2, <1>3, <1>4
<1> QED BY <1>5 DEF p, s, a

\* A multiple of the divisor can be added before, and a remainder taken before.
LEMMA ModAdds ==
  ASSUME NEW n \in Nat \ {0}, NEW a \in Int, NEW b \in Int
  PROVE  ((a % n) + b) % n = (a + b) % n
<1> DEFINE r == a % n  q == a \div n  t == (r + b) % n  p == (r + b) \div n
<1>1. r \in 0 .. n - 1 /\ q \in Int /\ a = n * q + r
  BY Divided
<1>2. t \in 0 .. n - 1 /\ p \in Int /\ r + b = n * p + t
  BY Divided, <1>1
<1>3. a + b = n * (q + p) + t
  BY <1>1, <1>2
<1> HIDE DEF r, q, t, p
<1>4. (n * (q + p) + t) % n = t
  BY <1>1, <1>2, Unique
<1>5. (a + b) % n = t
  BY <1>3, <1>4
<1> QED BY <1>5 DEF t, r

\* A number below the modulus is its own remainder.
LEMMA ModSame ==
  ASSUME NEW n \in Nat \ {0}, NEW a \in 0 .. n - 1
  PROVE  a % n = a /\ a \div n = 0
BY Unique, n * 0 + a = a

\* A remainder scales with its modulus.
LEMMA ModScales ==
  ASSUME NEW n \in Nat \ {0}, NEW a \in Int, NEW e \in 0 .. 1
  PROVE  2 * (a % n) + e = (2 * a + e) % (2 * n)
<1>1. a % n \in 0 .. n - 1 /\ a \div n \in Int /\ a = n * (a \div n) + (a % n)
  BY Divided
<1> DEFINE r == a % n  q == a \div n
<1> HIDE DEF r, q
<1>1a. r \in 0 .. n - 1 /\ q \in Int /\ a = n * q + r
  BY <1>1 DEF r, q
<1>2. 2 * a + e = (2 * n) * q + (2 * r + e)
  BY <1>1a
<1>3. 2 * r + e \in 0 .. 2 * n - 1
  BY <1>1a
<1>4. q \in Int /\ 2 * n \in Nat \ {0}
  BY <1>1a
<1>5. ((2 * n) * q + (2 * r + e)) % (2 * n) = 2 * r + e
  BY <1>3, <1>4, Unique
<1> QED BY <1>2, <1>5 DEF r

-----------------------------------------------------------------------------
(* The bus.                                                                *)

\* Which cell an address is, and that no two kinds of cell share one.
LEMMA RegionIs ==
  ASSUME NEW a \in Address
  PROVE  /\ (dkc2_bus_region_for(a) = "WRAM") <=> (IsWramBank(a.bank) \/ LowRam(a))
         /\ (dkc2_bus_region_for(a) = "SRAM") <=> SaveRam(a)
         /\ (dkc2_bus_region_for(a) = "ROM") <=> Cartridge(a)
         /\ dkc2_bus_region_for(a) \in {"WRAM", "SRAM", "ROM", "IO", "OPEN"}
         /\ Cartridge(a) => RomOffset(a) = (Fast(a.bank) % 64) * BankLength + a.offset
<1>1. a.bank \in 0 .. 255 /\ a.offset \in Nat /\ Page \in Nat \ {0}
  BY BusAssumption DEF Address, BankLength
<1>2. /\ is_system_bank(a.bank) <=> a.bank % 128 < 64
      /\ a.bank \in 64 .. 125 \cup 192 .. 255 <=> ~ IsWramBank(a.bank) /\ ~ a.bank % 128 < 64
      /\ IsWramBank(a.bank) <=> a.bank \in 126 .. 127
      /\ ~ IsWramBank(a.bank) => Fast(a.bank) = a.bank % 128 /\ Fast(a.bank) % 64 = a.bank % 64
      /\ IsWramBank(a.bank) => Fast(a.bank) = a.bank /\ ~ is_system_bank(a.bank)
  BY <1>1 DEF is_system_bank, IsWramBank, Fast
<1>3. InRom(a) <=> Cartridge(a)
  <2>1. CASE IsWramBank(a.bank)
    BY <2>1 DEF InRom, Cartridge
  <2>2. CASE ~ IsWramBank(a.bank)
    <3>1. RomOffset(a) = (Fast(a.bank) % 64) * BankLength + a.offset
      BY <1>2, <2>2 DEF RomOffset
    <3>2. InRom(a) <=> (Fast(a.bank) >= 64 \/ a.offset >= 4 * Page) /\ RomOffset(a) \in DOMAIN Rom
      BY <1>1, <1>2, <2>2 DEF InRom
    <3>3. Cartridge(a) <=> (Fast(a.bank) < 64 => a.offset >= 4 * Page) /\ RomOffset(a) \in DOMAIN Rom
      BY <2>2, <3>1 DEF Cartridge
    <3>4. Fast(a.bank) \in Nat
      BY <1>1, <1>2, <2>2
    <3> QED BY <3>2, <3>3, <3>4
  <2> QED BY <2>1, <2>2
<1>4. SaveRam(a) <=> is_dkc2_sram_bank(a.bank) /\ is_system_bank(a.bank)
                       /\ a.offset \in 3 * Page .. 4 * Page - 1
  BY <1>1, <1>2 DEF SaveRam, is_dkc2_sram_bank, is_system_bank, IsWramBank, Fast
<1>5. IsWramBank(a.bank) \/ LowRam(a)
        <=> IsWramBank(a.bank) \/ (is_system_bank(a.bank) /\ a.offset < Page)
  BY <1>2 DEF LowRam, IsWramBank
<1>6. Cartridge(a) => ~ IsWramBank(a.bank) /\ (is_system_bank(a.bank) => a.offset >= 4 * Page)
  BY <1>1, <1>2 DEF Cartridge
<1>7. Cartridge(a) => RomOffset(a) = (Fast(a.bank) % 64) * BankLength + a.offset
  BY <1>2, <1>6 DEF RomOffset
<1>8. SaveRam(a) => is_system_bank(a.bank) /\ ~ IsWramBank(a.bank)
  BY <1>2, <1>4
<1>9. 3 * Page >= Page /\ 4 * Page >= 3 * Page /\ 3 * Page \in Nat /\ 4 * Page \in Nat
  BY <1>1
<1> DEFINE region == dkc2_bus_region_for(a)
           O == a.offset
           D == is_system_bank(a.bank)
<1>10. O \in Nat
  BY <1>1
<1>11. CASE IsWramBank(a.bank)
  <2>1. region = "WRAM"
    BY <1>2, <1>3, <1>6, <1>11 DEF dkc2_bus_region_for
  <2> QED BY <1>5, <1>6, <1>7, <1>8, <1>11, <2>1
<1>12. CASE ~ IsWramBank(a.bank) /\ D /\ O < Page
  <2>2. ~ O >= 4 * Page /\ ~ O \in 3 * Page .. 4 * Page - 1 /\ ~ O \in Page .. 3 * Page - 1
    BY <1>1, <1>9, <1>12
  <2>1. region = "WRAM"
    BY <1>3, <1>6, <1>12, <2>2 DEF dkc2_bus_region_for
  <2> QED BY <1>4, <1>5, <1>6, <1>7, <1>12, <2>1, <2>2
<1>13. CASE ~ IsWramBank(a.bank) /\ D /\ O \in Page .. 3 * Page - 1
  <2>1. ~ O < Page /\ ~ O >= 4 * Page /\ ~ O \in 3 * Page .. 4 * Page - 1
    BY <1>1, <1>9, <1>13
  <2>2. region = "IO"
    BY <1>3, <1>6, <1>13, <2>1 DEF dkc2_bus_region_for
  <2> QED BY <1>4, <1>5, <1>6, <1>7, <1>13, <2>1, <2>2
<1>14. CASE ~ IsWramBank(a.bank) /\ SaveRam(a)
  <2>1. ~ O < Page /\ ~ O >= 4 * Page /\ ~ O \in Page .. 3 * Page - 1
    BY <1>1, <1>4, <1>9, <1>14
  <2>2. region = "SRAM"
    BY <1>3, <1>4, <1>6, <1>8, <1>14, <2>1 DEF dkc2_bus_region_for
  <2> QED BY <1>4, <1>5, <1>6, <1>7, <1>8, <1>14, <2>1, <2>2
<1>15. CASE ~ IsWramBank(a.bank) /\ ~ (D /\ O < Page) /\ ~ (D /\ O \in Page .. 3 * Page - 1) /\ ~ SaveRam(a)
  <2>1. region = IF InRom(a) THEN "ROM" ELSE "OPEN"
    BY <1>4, <1>15 DEF dkc2_bus_region_for
  <2> QED BY <1>3, <1>5, <1>7, <1>15, <2>1
<1> QED
  BY <1>11, <1>12, <1>13, <1>14, <1>15

\* The cell a bus address leads to lies in its memory.
LEMMA CellsFit ==
  ASSUME NEW a \in Address
  PROVE  /\ IsWramBank(a.bank) \/ LowRam(a) => wram_offset(a) \in 0 .. WramSize - 1
         /\ sram_offset(a) \in 0 .. SramSize - 1
         /\ Cartridge(a) => RomOffset(a) \in DOMAIN Rom
<1>1. a.bank \in 0 .. 255 /\ a.offset \in 0 .. BankLength - 1 /\ Page \in Nat \ {0}
      /\ BankLength = 8 * Page /\ WramSize = 2 * BankLength /\ SramSize \in Nat \ {0}
  BY BusAssumption DEF Address, BankLength, WramSize
<1>2. IsWramBank(a.bank) => wram_offset(a) \in 0 .. WramSize - 1
  <2>1. CASE a.bank = 126  BY <1>1, <2>1 DEF wram_offset, IsWramBank
  <2>2. CASE a.bank = 127  BY <1>1, <2>2 DEF wram_offset, IsWramBank
  <2> QED BY <1>1, <2>1, <2>2 DEF IsWramBank
<1>3. ~ IsWramBank(a.bank) => wram_offset(a) \in 0 .. WramSize - 1
  <2> DEFINE x == a.offset
  <2>1. x \in Int
    BY <1>1
  <2> HIDE DEF x
  <2>2. x % Page \in 0 .. Page - 1
    BY <1>1, <2>1, Divided
  <2>3. ~ IsWramBank(a.bank) => wram_offset(a) = x % Page
    BY DEF wram_offset, x
  <2> QED BY <1>1, <2>2, <2>3
<1>4. sram_offset(a) \in 0 .. SramSize - 1
  <2> DEFINE x == a.offset - 3 * Page
  <2>1. x \in Int
    BY <1>1
  <2> HIDE DEF x
  <2>2. x % SramSize \in 0 .. SramSize - 1
    BY <1>1, <2>1, Divided
  <2> QED BY <2>2 DEF sram_offset, x
<1>5. Cartridge(a) => RomOffset(a) \in DOMAIN Rom
  BY RegionIs DEF Cartridge
<1> QED BY <1>2, <1>3, <1>4, <1>5

\* Two addresses of work RAM are one cell as the map says.
LEMMA WramCells ==
  ASSUME NEW a \in Address, NEW b \in Address,
         IsWramBank(a.bank) \/ LowRam(a), IsWramBank(b.bank) \/ LowRam(b)
  PROVE  (wram_offset(a) = wram_offset(b)) <=> SameCell(a, b)
<1>1. /\ a.bank \in 0 .. 255 /\ a.offset \in 0 .. BankLength - 1 /\ Page \in Nat \ {0}
      /\ b.bank \in 0 .. 255 /\ b.offset \in 0 .. BankLength - 1 /\ BankLength = 8 * Page
      /\ a = b <=> a.bank = b.bank /\ a.offset = b.offset
  BY BusAssumption DEF Address, BankLength
<1>2. \A x \in Address : IsWramBank(x.bank) \/ LowRam(x) =>
        wram_offset(x) = IF x.bank = 127 THEN BankLength + x.offset ELSE x.offset
  <2> SUFFICES ASSUME NEW x \in Address, IsWramBank(x.bank) \/ LowRam(x)
               PROVE  wram_offset(x) = IF x.bank = 127 THEN BankLength + x.offset ELSE x.offset
    OBVIOUS
  <2>1. x.bank \in 0 .. 255 /\ x.offset \in 0 .. BankLength - 1
    BY DEF Address
  <2>2. CASE x.bank = 126  BY <1>1, <2>1, <2>2 DEF wram_offset, IsWramBank
  <2>3. CASE x.bank = 127  BY <1>1, <2>1, <2>3 DEF wram_offset, IsWramBank
  <2>4. CASE x.bank \notin 126 .. 127
    <3>1. x.offset \in 0 .. Page - 1
      BY <1>1, <2>1, <2>4 DEF LowRam, IsWramBank
    <3> QED BY <1>1, <2>4, <3>1, ModSame DEF wram_offset, IsWramBank
  <2> QED BY <2>1, <2>2, <2>3, <2>4
<1>3. /\ wram_offset(a) = IF a.bank = 127 THEN BankLength + a.offset ELSE a.offset
      /\ wram_offset(b) = IF b.bank = 127 THEN BankLength + b.offset ELSE b.offset
  BY <1>2
<1>4. /\ ~ SaveRam(a) /\ ~ Cartridge(a)
  BY RegionIs
<1>5. /\ a.bank # 127 => a.bank = 126 \/ LowRam(a)
      /\ b.bank # 127 => b.bank = 126 \/ LowRam(b)
  BY <1>1 DEF IsWramBank
<1>6. \A x \in Address : LowRam(x) => x.bank # 127 /\ x.offset < Page
  BY DEF LowRam, is_system_bank
<1>7. \A x \in Address : x.bank = 126 => (LowRam(x) <=> x.offset < Page)
  BY DEF LowRam
<1>8. CASE a.bank = 127 \/ b.bank = 127
  BY <1>1, <1>3, <1>4, <1>6, <1>8 DEF SameCell
<1>9. CASE a.bank # 127 /\ b.bank # 127
  <2>1. a.offset = b.offset => SameCell(a, b)
    BY <1>1, <1>5, <1>6, <1>7, <1>9 DEF SameCell
  <2>2. SameCell(a, b) => a.offset = b.offset
    BY <1>4 DEF SameCell
  <2> QED BY <1>3, <1>9, <2>1, <2>2
<1> QED BY <1>8, <1>9

\* SRAM cells.
LEMMA SramCells ==
  ASSUME NEW a \in Address, NEW b \in Address, SaveRam(a), SaveRam(b)
  PROVE  (sram_offset(a) = sram_offset(b)) <=> SameCell(a, b)
<1>1. a.offset \in Int /\ b.offset \in Int /\ 3 * Page \in Int /\ SramSize \in Nat \ {0}
  BY BusAssumption DEF Address, BankLength
<1>2. SameCell(a, b) <=> a.offset % SramSize = b.offset % SramSize
  BY RegionIs DEF SameCell
<1> DEFINE k == 3 * Page  x == a.offset  y == b.offset
<1>3. x \in Int /\ y \in Int /\ k \in Int /\ - k \in Int /\ x - k \in Int /\ y - k \in Int
  BY <1>1
<1> HIDE DEF k, x, y
<1>4. /\ ((x % SramSize) + (- k)) % SramSize = (x + (- k)) % SramSize
      /\ ((y % SramSize) + (- k)) % SramSize = (y + (- k)) % SramSize
      /\ (((x - k) % SramSize) + k) % SramSize = ((x - k) + k) % SramSize
      /\ (((y - k) % SramSize) + k) % SramSize = ((y - k) + k) % SramSize
  BY <1>1, <1>3, ModAdds
<1>5. x + (- k) = x - k /\ y + (- k) = y - k /\ (x - k) + k = x /\ (y - k) + k = y
  BY <1>3
<1>6. (x - k) % SramSize = (y - k) % SramSize <=> x % SramSize = y % SramSize
  BY <1>4, <1>5
<1> QED BY <1>2, <1>6 DEF sram_offset, k, x, y

\* ROM cells.
LEMMA RomCells ==
  ASSUME NEW a \in Address, NEW b \in Address, Cartridge(a), SameCell(a, b)
  PROVE  Cartridge(b) /\ RomOffset(a) = RomOffset(b)
BY RegionIs DEF SameCell

\* The memories of a console, as the bus needs them.
HasMemory(s) ==
  /\ s.wram \in [0 .. WramSize - 1 -> Byte] /\ s.sram \in [0 .. SramSize - 1 -> Byte]
  /\ s.open \in Byte

\* The bus always yields a byte.
LEMMA ValueIsByte ==
  ASSUME NEW s, HasMemory(s), NEW a \in Address
  PROVE  dkc2_bus_value(s, a) \in Byte
<1>1. 0 \in Byte /\ \A o \in DOMAIN Rom : Rom[o] \in Byte
  BY BusAssumption DEF Byte
<1>2. CASE dkc2_bus_region_for(a) = "WRAM"
  BY <1>2, RegionIs, CellsFit DEF dkc2_bus_value, HasMemory
<1>3. CASE dkc2_bus_region_for(a) = "SRAM"
  BY <1>3, RegionIs, CellsFit DEF dkc2_bus_value, HasMemory
<1>4. CASE dkc2_bus_region_for(a) = "ROM"
  BY <1>1, <1>4, RegionIs, CellsFit DEF dkc2_bus_value
<1>5. CASE dkc2_bus_region_for(a) \in {"IO", "OPEN"}
  BY <1>1, <1>5 DEF dkc2_bus_value, HasMemory
<1> QED BY <1>2, <1>3, <1>4, <1>5, RegionIs

\* Which of two mirrors is asked makes no difference to the answer.
LEMMA SameIsEither ==
  ASSUME NEW a \in Address, NEW b \in Address, SameCell(a, b), a # b
  PROVE  \/ LowRam(a) /\ LowRam(b)
         \/ SaveRam(a) /\ SaveRam(b)
         \/ Cartridge(a) /\ Cartridge(b)
BY DEF SameCell

\* What the bus yields, region by region.
LEMMA ValueOf ==
  ASSUME NEW s, NEW a
  PROVE  /\ dkc2_bus_region_for(a) = "WRAM" => dkc2_bus_value(s, a) = s.wram[wram_offset(a)]
         /\ dkc2_bus_region_for(a) = "SRAM" => dkc2_bus_value(s, a) = s.sram[sram_offset(a)]
         /\ dkc2_bus_region_for(a) = "ROM" => dkc2_bus_value(s, a) = Rom[RomOffset(a)]
         /\ dkc2_bus_region_for(a) = "IO" => dkc2_bus_value(s, a) = 0
         /\ dkc2_bus_region_for(a) = "OPEN" => dkc2_bus_value(s, a) = s.open
BY DEF dkc2_bus_value

\* What one write does to what is read anywhere.
LEMMA WriteIsRead ==
  ASSUME NEW s \in PortState, NEW a \in Address, NEW b \in Address, NEW v, Driven(b)
  PROVE  dkc2_bus_value(dkc2_bus_write8(s, a, v), b)
           = IF SameCell(a, b) /\ Writable(a) THEN v ELSE dkc2_bus_value(s, b)
<1> DEFINE ra == dkc2_bus_region_for(a)
           rb == dkc2_bus_region_for(b)
           t  == dkc2_bus_write8(s, a, v)
<1>0. /\ (ra = "WRAM") <=> (IsWramBank(a.bank) \/ LowRam(a))
      /\ (ra = "SRAM") <=> SaveRam(a)
      /\ (ra = "ROM") <=> Cartridge(a)
      /\ (rb = "WRAM") <=> (IsWramBank(b.bank) \/ LowRam(b))
      /\ (rb = "SRAM") <=> SaveRam(b)
      /\ (rb = "ROM") <=> Cartridge(b)
      /\ ra \in {"WRAM", "SRAM", "ROM", "IO", "OPEN"}
  BY RegionIs
<1>1. /\ Writable(a) <=> ra \in {"WRAM", "SRAM"}
      /\ rb \in {"WRAM", "SRAM", "ROM"}
  BY <1>0 DEF Writable, Driven
<1>2. SameCell(a, b) => ra = rb
  <2> SUFFICES ASSUME SameCell(a, b), a # b PROVE ra = rb
    OBVIOUS
  <2> QED BY <1>0, SameIsEither
<1>3. /\ s.wram \in [0 .. WramSize - 1 -> Byte] /\ s.sram \in [0 .. SramSize - 1 -> Byte]
  BY DEF PortState
<1> DEFINE before == dkc2_bus_value(s, b)
           now    == dkc2_bus_value(t, b)
           same   == SameCell(a, b)
<1>v. /\ rb = "WRAM" => before = s.wram[wram_offset(b)] /\ now = t.wram[wram_offset(b)]
      /\ rb = "SRAM" => before = s.sram[sram_offset(b)] /\ now = t.sram[sram_offset(b)]
      /\ rb = "ROM" => before = Rom[RomOffset(b)] /\ now = Rom[RomOffset(b)]
  BY ValueOf
<1>g. SUFFICES now = IF same /\ ra \in {"WRAM", "SRAM"} THEN v ELSE before
  BY <1>1
<1> HIDE DEF before, now, same, ra, rb
<1>4. CASE ra = "WRAM"
  <2>1. t = [s EXCEPT !.open = v, !.wram[wram_offset(a)] = v]
    BY <1>4 DEF dkc2_bus_write8, PortState, ra, t
  <2>2. wram_offset(a) \in 0 .. WramSize - 1
    BY <1>0, <1>4, CellsFit DEF ra
  <2>3. /\ t.wram = [s.wram EXCEPT ![wram_offset(a)] = v] /\ t.sram = s.sram
    BY <2>1 DEF PortState
  <2> HIDE DEF t
  <2>4. CASE rb = "WRAM"
    <3>1. wram_offset(b) \in 0 .. WramSize - 1 /\ ((wram_offset(a) = wram_offset(b)) <=> same)
      BY <1>0, <1>4, <2>4, CellsFit, WramCells DEF ra, rb, same
    <3> QED BY <1>1, <1>3, <1>4, <2>2, <2>3, <2>4, <3>1, <1>v
  <2>5. CASE rb \in {"SRAM", "ROM"}
    BY <1>2, <1>4, <2>3, <2>5, <1>v DEF same
  <2> QED BY <1>1, <2>4, <2>5 DEF rb
<1>5. CASE ra = "SRAM"
  <2>1. t = [s EXCEPT !.open = v, !.sram[sram_offset(a)] = v]
    BY <1>5 DEF dkc2_bus_write8, PortState, ra, t
  <2>2. sram_offset(a) \in 0 .. SramSize - 1
    BY <1>0, <1>5, CellsFit DEF ra
  <2>3. /\ t.sram = [s.sram EXCEPT ![sram_offset(a)] = v] /\ t.wram = s.wram
    BY <2>1 DEF PortState
  <2> HIDE DEF t
  <2>4. CASE rb = "SRAM"
    <3>1. sram_offset(b) \in 0 .. SramSize - 1 /\ ((sram_offset(a) = sram_offset(b)) <=> same)
      BY <1>0, <1>5, <2>4, CellsFit, SramCells DEF ra, rb, same
    <3> QED BY <1>1, <1>3, <1>5, <2>2, <2>3, <2>4, <3>1, <1>v
  <2>5. CASE rb \in {"WRAM", "ROM"}
    BY <1>2, <1>5, <2>3, <2>5, <1>v DEF same
  <2> QED BY <1>1, <2>4, <2>5 DEF rb
<1>6. CASE ra \in {"ROM", "IO", "OPEN"}
  <2>1. t \in {[s EXCEPT !.open = v], [s EXCEPT !.open = v, !.barrier = 1]}
    BY <1>6 DEF dkc2_bus_write8, PortState, ra, t
  <2>3. /\ t.sram = s.sram /\ t.wram = s.wram
    BY <2>1 DEF PortState
  <2> HIDE DEF t
  <2> QED BY <1>1, <1>6, <2>3, <1>v
<1> QED BY <1>0, <1>4, <1>5, <1>6

\* A ROM address leads into the image.
LEMMA RomIsThere ==
  ASSUME NEW s, NEW o \in DOMAIN Rom
  PROVE  dkc2_bus_value(s, dkc2_hirom_rom_to_snes(o)) = Rom[o]
<1> DEFINE q == o \div BankLength
           r == o % BankLength
           a == dkc2_hirom_rom_to_snes(o)
<1>1. BankLength \in Nat \ {0} /\ o \in 0 .. 64 * BankLength - 1
  <2>1. Page \in Nat \ {0} /\ o \in 0 .. 64 * 8 * Page - 1
    BY BusAssumption
  <2>2. BankLength = 8 * Page
    BY DEF BankLength
  <2>3. 64 * 8 * Page = 64 * (8 * Page) /\ 8 * Page \in Nat \ {0}
    BY <2>1
  <2> QED BY <2>1, <2>2, <2>3
<1>2. q \in Int /\ r \in 0 .. BankLength - 1 /\ o = BankLength * q + r
  <2>1. o \in Int
    BY <1>1
  <2> QED BY ONLY <1>1, <2>1, Divided
<1> HIDE DEF q, r
<1>3. q >= 0
  <2> SUFFICES ASSUME q <= -1 PROVE FALSE
    BY <1>2
  <2>1. BankLength * q <= - BankLength
    BY <1>1, <1>2
  <2> QED BY <1>1, <1>2, <2>1
<1>4. q <= 63
  <2> SUFFICES ASSUME q >= 64 PROVE FALSE
    BY <1>2
  <2>1. BankLength * q >= 64 * BankLength
    BY <1>1, <1>2
  <2> QED BY <1>1, <1>2, <2>1
<1>5. a = [bank |-> 192 + q, offset |-> r]
  BY DEF dkc2_hirom_rom_to_snes, q, r
<1> HIDE DEF a
<1>6. a \in Address /\ a.bank = 192 + q /\ a.offset = r
  BY <1>1, <1>2, <1>3, <1>4, <1>5 DEF Address
<1>7. ~ IsWramBank(a.bank) /\ Fast(a.bank) = 64 + q /\ Fast(a.bank) % 64 = q
  BY <1>2, <1>3, <1>4, <1>6 DEF IsWramBank, Fast
<1>8. (Fast(a.bank) % 64) * BankLength + a.offset = o
  BY <1>1, <1>2, <1>6, <1>7
<1>9. Cartridge(a)
  BY <1>2, <1>3, <1>7, <1>8 DEF Cartridge
<1>10. dkc2_bus_region_for(a) = "ROM" /\ RomOffset(a) = o
  BY <1>6, <1>8, <1>9, RegionIs
<1> QED BY <1>10 DEF dkc2_bus_value, a

\* A byte stored through any address of RAM is read back at each of its mirrors
\* (dkc2_bus_write8, dkc2_bus_read8).
THEOREM MirrorsAlwaysAgree ==
  ASSUME NEW s \in PortState, NEW places \in SUBSET Address, NEW values
  PROVE  MirrorsAgree(s, places, values)
<1>1. \A a, b \in places, v \in values :
        Driven(b) =>
          dkc2_bus_value(dkc2_bus_write8(s, a, v), b)
            = IF SameCell(a, b) /\ Writable(a) THEN v ELSE dkc2_bus_value(s, b)
  BY WriteIsRead
<1>2. \A a, b \in places :
        Cartridge(a) /\ SameCell(a, b) => dkc2_bus_value(s, a) = dkc2_bus_value(s, b)
  BY RomCells, RegionIs DEF dkc2_bus_value
<1>3. \A o \in DOMAIN Rom : dkc2_bus_value(s, dkc2_hirom_rom_to_snes(o)) = Rom[o]
  BY RomIsThere
<1> QED BY <1>1, <1>2, <1>3 DEF MirrorsAgree

-----------------------------------------------------------------------------
(* The types of the ports, and what is derived from their registers.       *)

ProductOf(m7) == Signed(m7[27], WordRange) * Signed(m7[28] \div ByteRange, ByteRange)
Derived(s) ==
  /\ s.product = ProductOf(s.m7)
  /\ s.first = IF s.rotates = 1 THEN (s.oamAt % ByteRange) \div 2 ELSE 0

\* What every port must leave of a state.
Kind(s) == s \in PortState /\ Derived(s)

\* The sizes are whole and not nought.
LEMMA Sizes ==
  /\ ByteRange \in Nat \ {0} /\ ByteRange >= 2 /\ ByteRange \div 2 \in Nat \ {0}
  /\ 2 * (ByteRange \div 2) = ByteRange
  /\ WordRange \in Nat \ {0} /\ WordRange = ByteRange * ByteRange /\ WordRange >= 2 * ByteRange
  /\ WramSize = 2 * WordRange
  /\ TailWords \in Nat \ {0} /\ OamSize = 2 * ByteRange + 2 * TailWords
  /\ Byte = 0 .. ByteRange - 1 /\ Word = 0 .. WordRange - 1
<1>1. ByteRange \in Nat \ {0} /\ ByteRange % 2 = 0 /\ TailWords \in Nat \ {0} /\ BankLength = WordRange
  BY BusAssumption, PortAssumption
<1>2. ByteRange >= 2 /\ ByteRange \div 2 \in Nat \ {0} /\ 2 * (ByteRange \div 2) = ByteRange
  BY <1>1
<1>3. WordRange \in Nat \ {0} /\ WordRange = ByteRange * ByteRange /\ WordRange >= 2 * ByteRange
  <2> DEFINE b == ByteRange
  <2>1. b \in Nat /\ b >= 2
    BY <1>1, <1>2
  <2> HIDE DEF b
  <2>2. b * b \in Nat /\ b * b >= 2 * b
    BY <2>1
  <2> QED BY <2>1, <2>2 DEF WordRange, b
<1> QED BY <1>1, <1>2, <1>3 DEF WramSize, OamSize, Byte, Word

\* A high and a low byte are a word, which gives them back.
LEMMA Joined ==
  ASSUME NEW h \in Byte, NEW l \in Byte
  PROVE  /\ h * ByteRange + l \in Word
         /\ (h * ByteRange + l) \div ByteRange = h
         /\ (h * ByteRange + l) % ByteRange = l
<1> DEFINE b == ByteRange
<1>1. b \in Nat \ {0} /\ h \in 0 .. b - 1 /\ l \in 0 .. b - 1
  BY Sizes
<1> HIDE DEF b
<1>2. h * b = b * h /\ b * h \in Nat /\ b * h <= b * (b - 1)
  BY <1>1
<1>3. b * (b - 1) = b * b - b
  BY <1>1
<1>4. h * b + l \in 0 .. b * b - 1
  BY <1>1, <1>2, <1>3
<1>5. (b * h + l) \div b = h /\ (b * h + l) % b = l
  BY <1>1, Unique
<1> QED BY <1>2, <1>4, <1>5, Sizes DEF b

\* The two halves of a word.
LEMMA Split ==
  ASSUME NEW w \in Word
  PROVE  /\ w \div ByteRange \in Byte /\ w % ByteRange \in Byte
         /\ w = (w \div ByteRange) * ByteRange + (w % ByteRange)
<1> DEFINE b == ByteRange  q == w \div b  r == w % b
<1>1. b \in Nat \ {0} /\ w \in 0 .. b * b - 1
  BY Sizes
<1>2. q \in Int /\ r \in 0 .. b - 1 /\ w = b * q + r
  BY <1>1, Divided
<1> HIDE DEF b, q, r
<1>3. q >= 0
  <2> SUFFICES ASSUME q <= -1 PROVE FALSE
    BY <1>2
  <2>1. b * q <= - b
    BY <1>1, <1>2
  <2> QED BY <1>1, <1>2, <2>1
<1>4. q <= b - 1
  <2> SUFFICES ASSUME q >= b PROVE FALSE
    BY <1>1, <1>2
  <2>1. b * q >= b * b
    BY <1>1, <1>2
  <2> QED BY <1>1, <1>2, <2>1
<1>5. b * q = q * b
  BY <1>1, <1>2
<1> QED BY <1>1, <1>2, <1>3, <1>4, <1>5, Sizes DEF b, q, r

\* A register or a memory set to a value of its type leaves a state.
LEMMA Sets ==
  ASSUME NEW s \in PortState
  PROVE  /\ \A x \in [0 .. WramSize - 1 -> Byte] : [s EXCEPT !.wram = x] \in PortState
         /\ \A x \in [0 .. SramSize - 1 -> Byte] : [s EXCEPT !.sram = x] \in PortState
         /\ \A x \in Byte : [s EXCEPT !.open = x] \in PortState
         /\ \A x \in 0 .. 1 : [s EXCEPT !.barrier = x] \in PortState
         /\ \A x \in 0 .. WramSize - 1 : [s EXCEPT !.wramAt = x] \in PortState
         /\ \A x \in [Word -> Byte] : [s EXCEPT !.vram = x] \in PortState
         /\ \A x \in Word : [s EXCEPT !.vramAt = x] \in PortState
         /\ \A x \in Byte : [s EXCEPT !.vmain = x] \in PortState
         /\ \A x \in [0 .. 2 * ByteRange - 1 -> Byte] : [s EXCEPT !.cgram = x] \in PortState
         /\ \A x \in Byte : [s EXCEPT !.cgramAt = x] \in PortState
         /\ \A x \in 0 .. 1 : [s EXCEPT !.cgramHigh = x] \in PortState
         /\ \A x \in [0 .. OamSize - 1 -> Byte] : [s EXCEPT !.oam = x] \in PortState
         /\ \A x \in 0 .. 2 * ByteRange - 1 : [s EXCEPT !.oamAt = x] \in PortState
         /\ \A x \in 0 .. 1 : [s EXCEPT !.oamHigh = x] \in PortState
         /\ \A x \in Byte : [s EXCEPT !.oamLatch = x] \in PortState
         /\ \A x \in 0 .. 1 : [s EXCEPT !.rotates = x] \in PortState
         /\ \A x \in Nat : [s EXCEPT !.first = x] \in PortState
         /\ \A x \in [0 .. 3 -> Word] : [s EXCEPT !.hofs = x] \in PortState
         /\ \A x \in [0 .. 3 -> Word] : [s EXCEPT !.vofs = x] \in PortState
         /\ \A x \in Byte : [s EXCEPT !.scrollLatch = x] \in PortState
         /\ \A x \in Word : [s EXCEPT !.m7h = x] \in PortState
         /\ \A x \in Word : [s EXCEPT !.m7v = x] \in PortState
         /\ \A x \in [27 .. 32 -> Word] : [s EXCEPT !.m7 = x] \in PortState
         /\ \A x \in Byte : [s EXCEPT !.latch = x] \in PortState
         /\ \A x \in Int : [s EXCEPT !.product = x] \in PortState
         /\ \A x \in [DmaChannels -> DmaSetup] : [s EXCEPT !.dma = x] \in PortState
<1>1. \A x \in [0 .. WramSize - 1 -> Byte] : [s EXCEPT !.wram = x] \in PortState
  BY DEF PortState
<1>2. \A x \in [0 .. SramSize - 1 -> Byte] : [s EXCEPT !.sram = x] \in PortState
  BY DEF PortState
<1>3. \A x \in Byte : [s EXCEPT !.open = x] \in PortState
  BY DEF PortState
<1>4. \A x \in 0 .. 1 : [s EXCEPT !.barrier = x] \in PortState
  BY DEF PortState
<1>5. \A x \in 0 .. WramSize - 1 : [s EXCEPT !.wramAt = x] \in PortState
  BY DEF PortState
<1>6. \A x \in [Word -> Byte] : [s EXCEPT !.vram = x] \in PortState
  BY DEF PortState
<1>7. \A x \in Word : [s EXCEPT !.vramAt = x] \in PortState
  BY DEF PortState
<1>8. \A x \in Byte : [s EXCEPT !.vmain = x] \in PortState
  BY DEF PortState
<1>9. \A x \in [0 .. 2 * ByteRange - 1 -> Byte] : [s EXCEPT !.cgram = x] \in PortState
  BY DEF PortState
<1>10. \A x \in Byte : [s EXCEPT !.cgramAt = x] \in PortState
  BY DEF PortState
<1>11. \A x \in 0 .. 1 : [s EXCEPT !.cgramHigh = x] \in PortState
  BY DEF PortState
<1>12. \A x \in [0 .. OamSize - 1 -> Byte] : [s EXCEPT !.oam = x] \in PortState
  BY DEF PortState
<1>13. \A x \in 0 .. 2 * ByteRange - 1 : [s EXCEPT !.oamAt = x] \in PortState
  BY DEF PortState
<1>14. \A x \in 0 .. 1 : [s EXCEPT !.oamHigh = x] \in PortState
  BY DEF PortState
<1>15. \A x \in Byte : [s EXCEPT !.oamLatch = x] \in PortState
  BY DEF PortState
<1>16. \A x \in 0 .. 1 : [s EXCEPT !.rotates = x] \in PortState
  BY DEF PortState
<1>17. \A x \in Nat : [s EXCEPT !.first = x] \in PortState
  BY DEF PortState
<1>18. \A x \in [0 .. 3 -> Word] : [s EXCEPT !.hofs = x] \in PortState
  BY DEF PortState
<1>19. \A x \in [0 .. 3 -> Word] : [s EXCEPT !.vofs = x] \in PortState
  BY DEF PortState
<1>20. \A x \in Byte : [s EXCEPT !.scrollLatch = x] \in PortState
  BY DEF PortState
<1>21. \A x \in Word : [s EXCEPT !.m7h = x] \in PortState
  BY DEF PortState
<1>22. \A x \in Word : [s EXCEPT !.m7v = x] \in PortState
  BY DEF PortState
<1>23. \A x \in [27 .. 32 -> Word] : [s EXCEPT !.m7 = x] \in PortState
  BY DEF PortState
<1>24. \A x \in Byte : [s EXCEPT !.latch = x] \in PortState
  BY DEF PortState
<1>25. \A x \in Int : [s EXCEPT !.product = x] \in PortState
  BY DEF PortState
<1>26. \A x \in [DmaChannels -> DmaSetup] : [s EXCEPT !.dma = x] \in PortState
  BY DEF PortState
<1> QED BY <1>1, <1>2, <1>3, <1>4, <1>5, <1>6, <1>7, <1>8, <1>9, <1>10, <1>11, <1>12, <1>13, <1>14, <1>15, <1>16, <1>17, <1>18, <1>19, <1>20, <1>21, <1>22, <1>23, <1>24, <1>25, <1>26

\* An address chosen, and a toggle put back.
LEMMA OamAddressed ==
  ASSUME NEW s, Kind(s), NEW at \in 0 .. 2 * ByteRange - 1, NEW r \in 0 .. 1, NEW first,
         first = IF r = 1 THEN (at % ByteRange) \div 2 ELSE 0,
         NEW h \in 0 .. 1
  PROVE  Kind([s EXCEPT !.oamAt = at, !.oamHigh = h, !.rotates = r, !.first = first])
<1> DEFINE t1 == [s EXCEPT !.oamAt = at]
           t2 == [t1 EXCEPT !.oamHigh = h]
           t3 == [t2 EXCEPT !.rotates = r]
           t4 == [t3 EXCEPT !.first = first]
<1>1. s \in PortState /\ Derived(s)
  BY DEF Kind
<1>2. t1 \in PortState
  BY <1>1, Sets
<1>3. t2 \in PortState
  BY <1>2, Sets
<1>4. t3 \in PortState
  BY <1>3, Sets
<1>5. at % ByteRange \in Nat /\ first \in Nat
  BY Sizes
<1>6. t4 \in PortState
  BY <1>4, <1>5, Sets
<1>7. [s EXCEPT !.oamAt = at, !.oamHigh = h, !.rotates = r, !.first = first] = t4
  OBVIOUS
<1>8. t4.product = s.product /\ t4.m7 = s.m7 /\ t4.oamAt = at /\ t4.rotates = r /\ t4.first = first
  BY <1>1 DEF PortState
<1> HIDE DEF t4
<1> QED BY <1>1, <1>6, <1>7, <1>8 DEF Kind, Derived

\* What no port of a memory touches.
BusFields == {"open", "barrier", "dma", "sram"}
Memories == {"wram", "vram", "cgram", "oam"}
Keeps(t, s, names) == \A f \in names : t[f] = s[f]

\* The sprite address: a bit and a byte.
LEMMA TwoPages ==
  /\ \A w \in 0 .. 2 * ByteRange - 1 :
       /\ w \div ByteRange \in 0 .. 1 /\ w % ByteRange \in Byte
       /\ w = (w \div ByteRange) * ByteRange + (w % ByteRange)
  /\ \A q \in 0 .. 1, v \in Byte :
       /\ q * ByteRange + v \in 0 .. 2 * ByteRange - 1
       /\ (q * ByteRange + v) \div ByteRange = q /\ (q * ByteRange + v) % ByteRange = v
<1>1. ASSUME NEW w \in 0 .. 2 * ByteRange - 1
      PROVE  /\ w \div ByteRange \in 0 .. 1 /\ w % ByteRange \in Byte
             /\ w = (w \div ByteRange) * ByteRange + (w % ByteRange)
  <2>1. w \in Word
    BY Sizes
  <2>2. w \div ByteRange \in Byte /\ w % ByteRange \in Byte
        /\ w = (w \div ByteRange) * ByteRange + (w % ByteRange)
    BY <2>1, Split
  <2> DEFINE b == ByteRange  q == w \div b  r == w % b
  <2>3. b \in Nat \ {0} /\ q \in Nat /\ r \in 0 .. b - 1 /\ w = q * b + r /\ w \in 0 .. 2 * b - 1
    BY <2>2, Sizes
  <2> HIDE DEF b, q, r
  <2>4. ~ q >= 2
    <3> SUFFICES ASSUME q >= 2 PROVE FALSE OBVIOUS
    <3>1. q * b >= 2 * b
      BY <2>3
    <3> QED BY <2>3, <3>1
  <2>5. q \in 0 .. 1
    BY <2>3, <2>4
  <2> QED BY <2>2, <2>5 DEF q, b
<1>2. ASSUME NEW q \in 0 .. 1, NEW v \in Byte
      PROVE  /\ q * ByteRange + v \in 0 .. 2 * ByteRange - 1
             /\ (q * ByteRange + v) \div ByteRange = q /\ (q * ByteRange + v) % ByteRange = v
  <2>1. q \in Byte /\ v \in 0 .. ByteRange - 1
    BY Sizes
  <2>2. q * ByteRange = IF q = 1 THEN ByteRange ELSE 0
    BY Sizes
  <2> QED BY <2>1, <2>2, Joined, Sizes
<1> QED BY <1>1, <1>2

\* $2102 sets the low byte of the sprite address and resets the toggle.
LEMMA OamLow ==
  ASSUME NEW s, Kind(s), NEW v \in Byte
  PROVE  /\ Kind(WriteOamLow(s, v)) /\ Keeps(WriteOamLow(s, v), s, BusFields \cup Memories)
         /\ WriteOamLow(s, v).oamAt = (s.oamAt \div ByteRange) * ByteRange + v
         /\ WriteOamLow(s, v).oamHigh = 0
<1> DEFINE at == (s.oamAt \div ByteRange) * ByteRange + v
           first == IF s.rotates = 1 THEN (at % ByteRange) \div 2 ELSE 0
           t == [s EXCEPT !.oamAt = at, !.oamHigh = 0, !.rotates = s.rotates, !.first = first]
<1>1. s \in PortState /\ s.oamAt \in 0 .. 2 * ByteRange - 1 /\ Derived(s) /\ s.rotates \in 0 .. 1
      /\ v \in 0 .. ByteRange - 1
  BY Sizes DEF Kind, PortState
<1>2. at \in 0 .. 2 * ByteRange - 1
  <2>1. s.oamAt \div ByteRange \in 0 .. 1
    BY <1>1, TwoPages
  <2> QED BY <1>1, <2>1, TwoPages
<1> HIDE DEF at
<1>3. Kind(t)
  <2> HIDE DEF first
  <2>1. first = IF s.rotates = 1 THEN (at % ByteRange) \div 2 ELSE 0
    BY DEF first
  <2>2. ASSUME NEW rot, rot = s.rotates
        PROVE  Kind([s EXCEPT !.oamAt = at, !.oamHigh = 0, !.rotates = rot, !.first = first])
    <3>1. rot \in 0 .. 1 /\ 0 \in 0 .. 1 /\ first = IF rot = 1 THEN (at % ByteRange) \div 2 ELSE 0
      BY <1>1, <2>1, <2>2
    <3> QED BY <1>2, <3>1, OamAddressed
  <2> QED BY <2>2
<1>4. s.first = IF s.rotates = 1 THEN (s.oamAt % ByteRange) \div 2 ELSE 0
  BY <1>1 DEF Derived
<1>5. WriteOamLow(s, v) = t
  <2> DEFINE set == [s EXCEPT !.oamAt = at, !.oamHigh = 0]
  <2>1. WriteOamLow(s, v) = IF s.rotates = 1 THEN WithFirst(set) ELSE set
    BY DEF WriteOamLow, at
  <2>2. s.rotates = 1 => WithFirst(set) = [set EXCEPT !.first = first]
    <3>1. s.rotates = 1 => set.oamAt = at
      BY <1>1 DEF PortState
    <3> HIDE DEF set
    <3> QED BY <3>1 DEF WithFirst
  <2>3. s.rotates # 1 => first = s.first
    BY <1>4
  <2>4. [s EXCEPT !.rotates = s.rotates] = s
    BY <1>1 DEF PortState
  <2>5. t = [[[[s EXCEPT !.rotates = s.rotates] EXCEPT !.oamAt = at] EXCEPT !.oamHigh = 0] EXCEPT !.first = first]
    OBVIOUS
  <2>6. set = [[s EXCEPT !.oamAt = at] EXCEPT !.oamHigh = 0]
    OBVIOUS
  <2>7. s.rotates # 1 => [set EXCEPT !.first = first] = set
    BY <1>1, <2>3 DEF PortState
  <2> HIDE DEF t, set, first
  <2> QED BY <2>1, <2>2, <2>4, <2>5, <2>6, <2>7
<1>6. t.oamAt = at /\ t.oamHigh = 0 /\ Keeps(t, s, BusFields \cup Memories)
  BY <1>1 DEF PortState, Keeps, BusFields, Memories
<1> QED BY <1>3, <1>5, <1>6 DEF at

\* $2103 sets its high bit and the rotation, and resets the toggle.
LEMMA OamHigh ==
  ASSUME NEW s, Kind(s), NEW v \in Byte
  PROVE  /\ Kind(WriteOamHigh(s, v)) /\ Keeps(WriteOamHigh(s, v), s, BusFields \cup Memories)
         /\ WriteOamHigh(s, v).oamAt = (v % 2) * ByteRange + (s.oamAt % ByteRange)
         /\ WriteOamHigh(s, v).oamHigh = 0
<1> DEFINE at == (v % 2) * ByteRange + (s.oamAt % ByteRange)
           top == v \div (ByteRange \div 2)
           first == IF top = 1 THEN (at % ByteRange) \div 2 ELSE 0
           t == [s EXCEPT !.oamAt = at, !.oamHigh = 0, !.rotates = top, !.first = first]
<1>1. s \in PortState /\ s.oamAt \in 0 .. 2 * ByteRange - 1 /\ v \in 0 .. ByteRange - 1
  BY Sizes DEF Kind, PortState
<1>2. at \in 0 .. 2 * ByteRange - 1
  <2>1. v % 2 \in 0 .. 1
    BY <1>1
  <2>2. s.oamAt % ByteRange \in Byte
    BY <1>1, TwoPages
  <2> QED BY <2>1, <2>2, TwoPages
<1>3. top \in 0 .. 1
  <2> DEFINE n == ByteRange \div 2
  <2>1. n \in Nat \ {0} /\ v \in 0 .. 2 * n - 1
    BY <1>1, Sizes
  <2> HIDE DEF n
  <2>2. CASE v < n
    BY <2>1, <2>2, ModSame DEF n
  <2>3. CASE v >= n
    <3> DEFINE x == v - n
    <3>1. v = n * 1 + x /\ x \in 0 .. n - 1
      BY <2>1, <2>3
    <3> HIDE DEF x
    <3>2. (n * 1 + x) \div n = 1
      BY <2>1, <3>1, Unique
    <3> QED BY <3>1, <3>2 DEF n
  <2> QED BY <2>1, <2>2, <2>3
<1> HIDE DEF at, top
<1>4. Kind(t)
  <2> HIDE DEF first
  <2>1. first = IF top = 1 THEN (at % ByteRange) \div 2 ELSE 0
    BY DEF first
  <2>2. 0 \in 0 .. 1
    OBVIOUS
  <2> QED BY <1>2, <1>3, <2>1, <2>2, OamAddressed
<1>5. WriteOamHigh(s, v) = t
  <2> DEFINE set == [s EXCEPT !.oamAt = at, !.oamHigh = 0, !.rotates = top, !.first = 0]
  <2>1. WriteOamHigh(s, v) = IF top = 1 THEN WithFirst(set) ELSE set
    BY DEF WriteOamHigh, at, top
  <2>2. set.oamAt = at
    BY <1>1 DEF PortState
  <2>3. set = [[[[s EXCEPT !.oamAt = at] EXCEPT !.oamHigh = 0] EXCEPT !.rotates = top] EXCEPT !.first = 0]
    OBVIOUS
  <2>4. t = [[[[s EXCEPT !.oamAt = at] EXCEPT !.oamHigh = 0] EXCEPT !.rotates = top] EXCEPT !.first = first]
    OBVIOUS
  <2>5. [set EXCEPT !.first = first] = t
    BY <1>1 DEF PortState
  <2> HIDE DEF set, t
  <2>6. top = 1 => WithFirst(set) = [set EXCEPT !.first = first]
    BY <2>2 DEF WithFirst
  <2>7. top # 1 => t = set
    BY DEF t, set
  <2> QED BY <2>1, <2>5, <2>6, <2>7
<1>6. t.oamAt = at /\ t.oamHigh = 0 /\ Keeps(t, s, BusFields \cup Memories)
  BY <1>1 DEF PortState, Keeps, BusFields, Memories
<1> QED BY <1>4, <1>5, <1>6 DEF at

\* Where a byte for the sprites goes.
OamCell(s) == IF s.oamAt >= ByteRange
              THEN 2 * ByteRange + 2 * (s.oamAt % TailWords) + s.oamHigh ELSE 2 * s.oamAt + s.oamHigh
OamAfter(s, v) ==
  IF s.oamAt >= ByteRange THEN [s.oam EXCEPT ![OamCell(s)] = v]
  ELSE IF s.oamHigh = 1 THEN [s.oam EXCEPT ![2 * s.oamAt] = s.oamLatch, ![2 * s.oamAt + 1] = v]
  ELSE s.oam

OamWrites(t, s, v) ==
  /\ Kind(t) /\ Keeps(t, s, BusFields \cup {"wram", "vram", "cgram"})
  /\ t.oamAt = IF s.oamHigh = 0 THEN s.oamAt ELSE (s.oamAt + 1) % (2 * ByteRange)
  /\ t.oamHigh = 1 - s.oamHigh
  /\ t.oamLatch = IF s.oamHigh = 0 THEN v ELSE s.oamLatch
  /\ t.oam = OamAfter(s, v)

\* $2104 stores one byte as OamWrites says.
LEMMA Oam ==
  ASSUME NEW s, Kind(s), NEW v \in Byte
  PROVE  OamWrites(WriteOam(s, v), s, v)
<1> DEFINE latched == IF s.oamHigh = 0 THEN [s EXCEPT !.oamLatch = v] ELSE s
           cell == IF s.oamAt >= ByteRange
                   THEN 2 * ByteRange + 2 * (s.oamAt % TailWords) ELSE 2 * s.oamAt
           stored == IF s.oamAt >= ByteRange THEN [latched EXCEPT !.oam[cell + s.oamHigh] = v]
                     ELSE IF s.oamHigh = 1
                     THEN [latched EXCEPT !.oam[cell] = s.oamLatch, !.oam[cell + 1] = v]
                     ELSE latched
           moved == IF s.oamHigh = 0 THEN stored
                    ELSE [stored EXCEPT !.oamAt = (stored.oamAt + 1) % (2 * ByteRange)]
           turned == IF s.oamHigh = 1 /\ s.rotates = 1 THEN WithFirst(moved) ELSE moved
           t == [turned EXCEPT !.oamHigh = 1 - turned.oamHigh]
<1>0. /\ s \in PortState /\ Derived(s) /\ s.oamAt \in 0 .. 2 * ByteRange - 1 /\ s.oamHigh \in 0 .. 1
      /\ s.oamLatch \in Byte /\ s.rotates \in 0 .. 1 /\ s.oam \in [0 .. OamSize - 1 -> Byte]
  BY DEF Kind, PortState
<1>1. WriteOam(s, v) = t
  BY DEF WriteOam
<1>2. /\ latched \in PortState /\ latched.oamLatch = (IF s.oamHigh = 0 THEN v ELSE s.oamLatch)
      /\ Keeps(latched, s, BusFields \cup Memories \cup {"oamAt", "oamHigh", "rotates", "first", "product", "m7"})
  <2>1. [s EXCEPT !.oamLatch = v] \in PortState
    BY <1>0, Sets
  <2> QED BY <1>0, <2>1 DEF PortState, Keeps, BusFields, Memories
<1> HIDE DEF latched
<1>3. /\ cell + s.oamHigh \in 0 .. OamSize - 1
      /\ s.oamAt < ByteRange => cell \in 0 .. OamSize - 1 /\ cell + 1 \in 0 .. OamSize - 1
      /\ cell + s.oamHigh = OamCell(s)
  <2>1. s.oamAt % TailWords \in 0 .. TailWords - 1
    <3> DEFINE x == s.oamAt
    <3>1. x \in Int
      <4>1. x \in 0 .. 2 * ByteRange - 1
        BY <1>0
      <4> HIDE DEF x
      <4>2. ByteRange \in Nat
        BY BusAssumption
      <4> QED BY <4>1, <4>2
    <3> HIDE DEF x
    <3>2. x % TailWords \in 0 .. TailWords - 1
      BY <3>1, Sizes, Divided
    <3> QED BY <3>2 DEF x
  <2> DEFINE m == s.oamAt % TailWords
  <2>2. m \in 0 .. TailWords - 1
    BY <2>1
  <2>3. /\ cell = IF s.oamAt >= ByteRange THEN 2 * ByteRange + 2 * m ELSE 2 * s.oamAt
        /\ OamCell(s) = IF s.oamAt >= ByteRange THEN 2 * ByteRange + 2 * m + s.oamHigh ELSE 2 * s.oamAt + s.oamHigh
    BY DEF OamCell
  <2> HIDE DEF m, cell
  <2>4. /\ s.oamAt \in 0 .. 2 * ByteRange - 1 /\ s.oamHigh \in 0 .. 1 /\ ByteRange \in Nat
        /\ TailWords \in Nat /\ OamSize = 2 * ByteRange + 2 * TailWords
    BY <1>0, Sizes
  <2>5. CASE s.oamAt >= ByteRange
    BY <2>2, <2>3, <2>4, <2>5
  <2>6. CASE s.oamAt < ByteRange
    BY <2>2, <2>3, <2>4, <2>6
  <2> QED BY <2>4, <2>5, <2>6
<1>4. cell \in Int /\ s.oamAt < ByteRange => cell = 2 * s.oamAt
  BY <1>0, Sizes
<1>5. latched.oam = s.oam
  BY <1>2 DEF Keeps, Memories
<1>6. OamAfter(s, v) \in [0 .. OamSize - 1 -> Byte]
  BY <1>0, <1>3, Sizes DEF OamAfter
<1>7. stored = [latched EXCEPT !.oam = OamAfter(s, v)]
  <2>1. CASE s.oamAt >= ByteRange
    <3>1. stored = [latched EXCEPT !.oam[cell + s.oamHigh] = v]
      BY <2>1
    <3> HIDE DEF stored, cell
    <3>2. OamAfter(s, v) = [latched.oam EXCEPT ![cell + s.oamHigh] = v]
      BY <1>3, <1>5, <2>1 DEF OamAfter
    <3> QED BY <3>1, <3>2
  <2>2. CASE ~ s.oamAt >= ByteRange /\ s.oamHigh = 1
    <3>1. stored = [latched EXCEPT !.oam[cell] = s.oamLatch, !.oam[cell + 1] = v]
      BY <2>2
    <3>2. cell = 2 * s.oamAt
      BY <2>2
    <3> HIDE DEF stored, cell
    <3>3. OamAfter(s, v) = [latched.oam EXCEPT ![cell] = s.oamLatch, ![cell + 1] = v]
      BY <1>5, <2>2, <3>2 DEF OamAfter
    <3>4. latched.oam = s.oam /\ latched \in PortState
      BY <1>2, <1>5
    <3>5. [latched EXCEPT !.oam[cell] = s.oamLatch, !.oam[cell + 1] = v]
            = [latched EXCEPT !.oam = [latched.oam EXCEPT ![cell] = s.oamLatch, ![cell + 1] = v]]
      BY <3>4 DEF PortState
    <3> QED BY <3>1, <3>3, <3>5
  <2>3. CASE ~ s.oamAt >= ByteRange /\ s.oamHigh # 1
    <3>1. stored = latched /\ OamAfter(s, v) = latched.oam
      BY <1>5, <2>3 DEF OamAfter
    <3> HIDE DEF stored, cell
    <3> QED BY <1>2, <3>1 DEF PortState
  <2> QED BY <2>1, <2>2, <2>3
<1>8. /\ stored \in PortState /\ stored.oamLatch = latched.oamLatch /\ stored.oam = OamAfter(s, v)
      /\ Keeps(stored, s, BusFields \cup {"wram", "vram", "cgram"}
                            \cup {"oamAt", "oamHigh", "rotates", "first", "product", "m7"})
  <2>1. stored \in PortState
    BY <1>2, <1>6, <1>7, Sets
  <2>2. Keeps(stored, latched, BusFields \cup {"wram", "vram", "cgram"} \cup {"oamLatch"}
                            \cup {"oamAt", "oamHigh", "rotates", "first", "product", "m7"})
        /\ stored.oam = OamAfter(s, v)
    BY <1>2, <1>7 DEF PortState, Keeps, BusFields
  <2> QED BY <1>2, <2>1, <2>2 DEF Keeps, Memories
<1> HIDE DEF stored, cell
<1> DEFINE at == IF s.oamHigh = 0 THEN s.oamAt ELSE (s.oamAt + 1) % (2 * ByteRange)
<1>9. at \in 0 .. 2 * ByteRange - 1
  <2>1. s.oamAt + 1 \in Int /\ 2 * ByteRange \in Nat \ {0}
    BY <1>0, Sizes
  <2>2. (s.oamAt + 1) % (2 * ByteRange) \in 0 .. 2 * ByteRange - 1
    BY <2>1, Divided
  <2> QED BY <1>0, <2>2
<1> HIDE DEF at
<1>10. /\ moved \in PortState /\ moved.oamAt = at /\ moved.oam = OamAfter(s, v) /\ moved.oamLatch = latched.oamLatch
       /\ Keeps(moved, s, BusFields \cup {"wram", "vram", "cgram"}
                            \cup {"oamHigh", "rotates", "first", "product", "m7"})
  <2>0. stored.oamAt = s.oamAt
    BY <1>8 DEF Keeps
  <2>1. moved = IF s.oamHigh = 0 THEN stored ELSE [stored EXCEPT !.oamAt = at]
    BY <2>0 DEF at
  <2>2. [stored EXCEPT !.oamAt = at] \in PortState
    BY <1>8, <1>9, Sets
  <2>3. s.oamHigh = 0 => at = s.oamAt
    BY DEF at
  <2>4. Keeps(moved, stored, BusFields \cup {"wram", "vram", "cgram"} \cup {"oamLatch", "oam"}
                            \cup {"oamHigh", "rotates", "first", "product", "m7"})
        /\ moved.oamAt = at /\ moved \in PortState
    BY <1>8, <2>0, <2>1, <2>2, <2>3 DEF PortState, Keeps, BusFields
  <2> QED BY <1>8, <2>4 DEF Keeps
<1> HIDE DEF moved
<1> DEFINE first == IF s.rotates = 1 THEN (at % ByteRange) \div 2 ELSE 0
<1>11. /\ turned = [moved EXCEPT !.first = first]
  <2>1. s.first = IF s.rotates = 1 THEN (s.oamAt % ByteRange) \div 2 ELSE 0
    BY <1>0 DEF Derived
  <2>2. moved.first = s.first
    BY <1>10 DEF Keeps
  <2>3. CASE s.oamHigh = 1 /\ s.rotates = 1
    BY <1>10, <2>3 DEF WithFirst
  <2>4. CASE ~ (s.oamHigh = 1 /\ s.rotates = 1)
    <3>1. first = moved.first
      BY <1>0, <2>1, <2>2, <2>4 DEF at
    <3>2. turned = moved
      BY <2>4
    <3> HIDE DEF turned, first
    <3> QED BY <1>10, <3>1, <3>2 DEF PortState
  <2> QED BY <2>3, <2>4
<1>12. first \in Nat
  <2>1. at % ByteRange \in Byte
    BY <1>9, TwoPages
  <2> QED BY <2>1, Sizes
<1> HIDE DEF first
<1>13. /\ turned \in PortState /\ turned.first = first
       /\ Keeps(turned, moved, BusFields \cup Memories \cup {"oamAt", "oamHigh", "oamLatch", "rotates", "product", "m7"})
  <2>1. turned \in PortState
    <3>1. moved \in PortState
      BY <1>10
    <3>2. [moved EXCEPT !.first = first] \in PortState
      BY ONLY <3>1, <1>12, Sets
    <3> QED BY <1>11, <3>2
  <2> DEFINE same == BusFields \cup Memories \cup {"oamAt", "oamHigh", "oamLatch", "rotates", "product", "m7"}
  <2>2. "first" \notin same
    BY DEF BusFields, Memories
  <2>3. "first" \in DOMAIN moved /\ same \subseteq DOMAIN moved
    BY <1>10 DEF PortState, BusFields, Memories
  <2> HIDE DEF same, turned
  <2>4. turned.first = first /\ \A f \in same : turned[f] = moved[f]
    BY ONLY <1>11, <2>2, <2>3
  <2> QED BY <2>1, <2>4 DEF Keeps, same
<1> HIDE DEF turned
<1>14. turned.oamHigh = s.oamHigh
  BY <1>10, <1>13 DEF Keeps
<1>15. /\ t \in PortState /\ t.oamHigh = 1 - s.oamHigh
       /\ Keeps(t, turned, BusFields \cup Memories \cup {"oamAt", "first", "oamLatch", "rotates", "product", "m7"})
  <2>1. 1 - s.oamHigh \in 0 .. 1 /\ t = [turned EXCEPT !.oamHigh = 1 - s.oamHigh]
    BY <1>0, <1>14
  <2>2. t \in PortState
    BY <1>13, <2>1, Sets
  <2> HIDE DEF t
  <2>3. t.oamHigh = 1 - s.oamHigh
    BY <1>13, <2>1 DEF PortState
  <2>4. Keeps(t, turned, BusFields \cup Memories \cup {"oamAt", "first", "oamLatch", "rotates", "product", "m7"})
    BY <1>13, <2>1 DEF PortState, Keeps, BusFields, Memories
  <2> QED BY <2>2, <2>3, <2>4
<1> HIDE DEF t
<1>16. /\ t.rotates = s.rotates /\ t.product = s.product /\ t.m7 = s.m7 /\ t.first = first /\ t.oamAt = at
       /\ t.oam = OamAfter(s, v) /\ t.oamLatch = latched.oamLatch
  BY <1>8, <1>10, <1>13, <1>15 DEF Keeps, Memories
<1>17. Kind(t)
  BY <1>0, <1>15, <1>16 DEF Kind, Derived, first
<1>18. Keeps(t, s, BusFields \cup {"wram", "vram", "cgram"})
  BY <1>10, <1>13, <1>15 DEF Keeps, Memories
<1> QED BY <1>1, <1>2, <1>15, <1>16, <1>17, <1>18 DEF at, OamWrites

\* What the derived values depend on.
Roots == {"product", "m7", "first", "rotates", "oamAt"}

\* A write that leaves the registers of the derived values alone keeps them current.
LEMMA KeepsKind ==
  ASSUME NEW s, Kind(s), NEW t \in PortState, Keeps(t, s, Roots)
  PROVE  Kind(t)
BY DEF Kind, Derived, Keeps, Roots

CgaddWrites(t, s, v) ==
  /\ Kind(t) /\ Keeps(t, s, BusFields \cup Memories) /\ t.cgramAt = v /\ t.cgramHigh = 0

\* $2121 chooses a colour and resets the toggle.
LEMMA Cgadd ==
  ASSUME NEW s, Kind(s), NEW v \in Byte
  PROVE  CgaddWrites(WriteCgadd(s, v), s, v)
<1> DEFINE t1 == [s EXCEPT !.cgramAt = v]
           t2 == [t1 EXCEPT !.cgramHigh = 0]
<1>0. s \in PortState
  BY DEF Kind
<1>1. t1 \in PortState
  BY <1>0, Sets
<1>2. t2 \in PortState
  <2> HIDE DEF t1
  <2>1. 0 \in 0 .. 1
    OBVIOUS
  <2> QED BY <1>1, <2>1, Sets
<1>3. WriteCgadd(s, v) = t2
  BY DEF WriteCgadd
<1>4. Keeps(t2, s, BusFields \cup Memories \cup Roots) /\ t2.cgramAt = v /\ t2.cgramHigh = 0
  <2>1. Keeps(t2, s, BusFields \cup Memories)
    BY <1>0 DEF PortState, Keeps, BusFields, Memories
  <2>2. Keeps(t2, s, Roots) /\ t2.cgramAt = v /\ t2.cgramHigh = 0
    BY <1>0 DEF PortState, Keeps, Roots
  <2> HIDE DEF t2
  <2> QED BY <2>1, <2>2 DEF Keeps
<1> HIDE DEF t2
<1>5. Keeps(t2, s, BusFields \cup Memories) /\ Keeps(t2, s, Roots)
  BY <1>4 DEF Keeps
<1> QED BY <1>2, <1>3, <1>4, <1>5, KeepsKind DEF CgaddWrites

CgramWrites(t, s, v) ==
  /\ Kind(t) /\ Keeps(t, s, BusFields \cup {"wram", "vram", "oam"})
  /\ t.cgram = [s.cgram EXCEPT ![2 * s.cgramAt + s.cgramHigh] =
                  IF s.cgramHigh = 1 THEN v % (ByteRange \div 2) ELSE v]
  /\ t.cgramAt = (IF s.cgramHigh = 1 THEN (s.cgramAt + 1) % ByteRange ELSE s.cgramAt)
  /\ t.cgramHigh = 1 - s.cgramHigh

\* $2122 stores one byte as CgramWrites says.
LEMMA Cgram ==
  ASSUME NEW s, Kind(s), NEW v \in Byte
  PROVE  CgramWrites(WriteCgram(s, v), s, v)
<1> DEFINE cell == 2 * s.cgramAt + s.cgramHigh
           val == IF s.cgramHigh = 1 THEN v % (ByteRange \div 2) ELSE v
           at == IF s.cgramHigh = 1 THEN (s.cgramAt + 1) % ByteRange ELSE s.cgramAt
           mem == [s.cgram EXCEPT ![cell] = val]
           t1 == [s EXCEPT !.cgram = mem]
           t2 == [t1 EXCEPT !.cgramAt = at]
           t3 == [t2 EXCEPT !.cgramHigh = 1 - s.cgramHigh]
<1>0. /\ s \in PortState /\ s.cgramAt \in 0 .. ByteRange - 1 /\ s.cgramHigh \in 0 .. 1
      /\ s.cgram \in [0 .. 2 * ByteRange - 1 -> Byte] /\ v \in 0 .. ByteRange - 1
  BY Sizes DEF Kind, PortState
<1>1. val \in Byte
  <2> DEFINE n == ByteRange \div 2
  <2>1. n \in Nat \ {0} /\ 2 * n = ByteRange /\ v \in Int
    BY <1>0, Sizes
  <2> HIDE DEF n
  <2>2. v % n \in 0 .. n - 1
    BY <2>1, Divided
  <2>3. v % n \in Byte
    BY <2>1, <2>2, Sizes
  <2> QED BY <2>3 DEF n
<1>2. at \in Byte
  <2> DEFINE x == s.cgramAt + 1
  <2>1. x \in Int
    BY <1>0, Sizes
  <2> HIDE DEF x
  <2>2. x % ByteRange \in 0 .. ByteRange - 1
    BY <2>1, Sizes, Divided
  <2> QED BY <1>0, <2>2, Sizes DEF x
<1> HIDE DEF val, at
<1>3. mem \in [0 .. 2 * ByteRange - 1 -> Byte]
  BY <1>0, <1>1
<1> HIDE DEF mem
<1>4. t1 \in PortState
  BY <1>0, <1>3, Sets
<1>5. t2 \in PortState
  BY <1>2, <1>4, Sets
<1>6. 1 - s.cgramHigh \in 0 .. 1
  BY <1>0
<1>7. t3 \in PortState
  BY <1>5, <1>6, Sets
<1>8. WriteCgram(s, v) = t3
  <2>1. WriteCgram(s, v) = [s EXCEPT !.cgram[cell] = val, !.cgramAt = at, !.cgramHigh = 1 - s.cgramHigh]
    BY DEF WriteCgram, val, at
  <2>2. [s EXCEPT !.cgram = mem] = [s EXCEPT !.cgram[cell] = val]
    BY DEF mem
  <2> QED BY <2>1, <2>2
<1>9. /\ Keeps(t3, s, BusFields \cup {"wram", "vram", "oam"} \cup Roots)
      /\ t3.cgram = mem /\ t3.cgramAt = at /\ t3.cgramHigh = 1 - s.cgramHigh
  BY <1>0 DEF PortState, Keeps, BusFields, Roots
<1> HIDE DEF t3
<1>10. Keeps(t3, s, BusFields \cup {"wram", "vram", "oam"}) /\ Keeps(t3, s, Roots)
  BY <1>9 DEF Keeps
<1>11. Kind(t3)
  BY <1>7, <1>10, KeepsKind
<1> QED BY <1>8, <1>9, <1>10, <1>11 DEF mem, val, at, CgramWrites

\* What $2115 asks for is defined for every byte.
LEMMA Control ==
  ASSUME NEW b \in Byte
  PROVE  /\ Controls[b].afterHigh \in 0 .. 1 /\ Controls[b].remap \in 0 .. 3
         /\ vram_increment(Controls[b].step) \in Nat
<1>1. Controls[b] \in [afterHigh : 0 .. 1, remap : 0 .. 3, step : 0 .. 3]
      /\ Column \in Nat /\ Sheet \in Nat
  BY PortAssumption
<1> QED BY <1>1 DEF vram_increment

\* A remapped address is a number.
LEMMA RemapIsInt ==
  ASSUME NEW w \in Int, NEW r \in 0 .. 3
  PROVE  vram_remap(w, r) \in Int
<1> DEFINE field == CASE r = 1 -> Field [] r = 2 -> 2 * Field [] OTHER -> 4 * Field
           group == Turn * field
<1>1. Field \in Nat \ {0} /\ Turn \in Nat \ {0}
  BY PortAssumption
<1>2. field \in Nat \ {0}
  BY <1>1
<1> HIDE DEF field
<1>3. group \in Nat \ {0}
  BY <1>1, <1>2
<1>4. vram_remap(w, r) = IF r = 0 THEN w
        ELSE (w \div group) * group + (w % field) * Turn + (w % group) \div field
  BY DEF vram_remap, field
<1> HIDE DEF group
<1>5. w \div group \in Int /\ w % field \in Int /\ w % group \in Int
  BY <1>2, <1>3, Divided
<1>6. (w % group) \div field \in Int
  BY <1>2, <1>5, Divided
<1> QED BY <1>1, <1>3, <1>4, <1>5, <1>6

VramWrites(t, s, high, v) ==
  /\ Kind(t) /\ Keeps(t, s, BusFields \cup {"wram", "cgram", "oam", "vmain"})
  /\ VramCell(s, high) \in Word
  /\ t.vram = [s.vram EXCEPT ![VramCell(s, high)] = v]
  /\ t.vramAt = IF Controls[s.vmain].afterHigh = high
                THEN (s.vramAt + vram_increment(Controls[s.vmain].step)) % WordRange
                ELSE s.vramAt

\* $2118 and $2119 store one byte as VramWrites says.
LEMMA Vram ==
  ASSUME NEW s, Kind(s), NEW high \in 0 .. 1, NEW v \in Byte
  PROVE  VramWrites(WriteVram(s, high, v), s, high, v)
<1> DEFINE step == vram_increment(Controls[s.vmain].step)
           cell == VramCell(s, high)
           mem == [s.vram EXCEPT ![cell] = v]
           at == IF Controls[s.vmain].afterHigh = high THEN (s.vramAt + step) % WordRange ELSE s.vramAt
           t1 == [s EXCEPT !.vram = mem]
           t2 == [t1 EXCEPT !.vramAt = at]
<1>0. /\ s \in PortState /\ s.vramAt \in Word /\ s.vmain \in Byte /\ s.vram \in [Word -> Byte]
  BY DEF Kind, PortState
<1>1. step \in Nat /\ Controls[s.vmain].remap \in 0 .. 3 /\ s.vramAt \in Int
  <2>1. s.vramAt \in Word /\ Word \subseteq Int
    BY ONLY <1>0, Sizes
  <2>2. s.vramAt \in Int
    BY ONLY <2>1
  <2> QED BY <1>0, <2>2, Control
<1>2. cell \in Word
  <2> DEFINE x == 2 * vram_remap(s.vramAt, Controls[s.vmain].remap) + high
  <2>1. vram_remap(s.vramAt, Controls[s.vmain].remap) \in Int
    BY <1>1, RemapIsInt
  <2>2. x \in Int
    BY <2>1
  <2> HIDE DEF x
  <2>3. x % WordRange \in 0 .. WordRange - 1
    BY <2>2, Sizes, Divided
  <2> QED BY <2>3, Sizes DEF VramCell, x
<1>3. at \in Word
  <2> DEFINE x == s.vramAt + step
  <2>1. x \in Int
    BY <1>1
  <2> HIDE DEF x
  <2>2. x % WordRange \in 0 .. WordRange - 1
    BY <2>1, Sizes, Divided
  <2> QED BY <1>0, <2>2, Sizes DEF x
<1> HIDE DEF cell, step
<1>4. mem \in [Word -> Byte]
  BY <1>0, <1>2
<1>5. WriteVram(s, high, v) = t2
  <2> DEFINE stored == [s EXCEPT !.vram[cell] = v]
  <2>1. stored = t1
    OBVIOUS
  <2>2. t1.vmain = s.vmain /\ t1.vramAt = s.vramAt
    BY <1>0 DEF PortState
  <2>3. increment_vram_address(t1) = [t1 EXCEPT !.vramAt = (s.vramAt + step) % WordRange]
    BY <2>2 DEF increment_vram_address, step
  <2>4. WriteVram(s, high, v) = IF Controls[s.vmain].afterHigh = high
                                THEN increment_vram_address(t1) ELSE t1
    BY <2>1 DEF WriteVram, cell
  <2>5. t1 \in PortState
    BY <1>0, <1>4, Sets
  <2> HIDE DEF t1
  <2>6. [t1 EXCEPT !.vramAt = s.vramAt] = t1
    BY <2>2, <2>5 DEF PortState
  <2> QED BY <2>3, <2>4, <2>6
<1> HIDE DEF at, mem
<1>6. t1 \in PortState
  BY <1>0, <1>4, Sets
<1>7. t2 \in PortState
  BY <1>3, <1>6, Sets
<1>8. /\ Keeps(t2, s, BusFields \cup {"wram", "cgram", "oam", "vmain"} \cup Roots)
      /\ t2.vram = mem /\ t2.vramAt = at
  BY <1>0 DEF PortState, Keeps, BusFields, Roots
<1> HIDE DEF t2
<1>9. Keeps(t2, s, BusFields \cup {"wram", "cgram", "oam", "vmain"}) /\ Keeps(t2, s, Roots)
  BY <1>8 DEF Keeps
<1>10. Kind(t2)
  BY <1>7, <1>9, KeepsKind
<1> QED BY <1>2, <1>5, <1>8, <1>9, <1>10 DEF at, mem, step, cell, VramWrites

\* The part of a scroll that comes from the shared latch, and the part of it
\* that the scroll itself keeps.
LEMMA FineFits ==
  ASSUME NEW l \in Byte, NEW q \in Byte
  PROVE  /\ (l \div Fine) * Fine + (q % Fine) \in Byte
         /\ q = l => (l \div Fine) * Fine + (q % Fine) = l
<1> DEFINE n == Fine  k == ByteRange \div n  a == l \div n  b == q % n
<1>1. n \in Nat \ {0} /\ ByteRange % n = 0 /\ ByteRange \in Nat \ {0} /\ l \in 0 .. ByteRange - 1 /\ q \in Int
  BY PortAssumption, Sizes
<1>2. k \in Int /\ ByteRange = n * k
  <2>1. k \in Int /\ ByteRange = n * k + (ByteRange % n)
    BY <1>1, Divided
  <2> QED BY <1>1, <2>1
<1>3. a \in Int /\ l % n \in 0 .. n - 1 /\ l = n * a + (l % n)
  <2>1. l \in Int
    BY <1>1
  <2> HIDE DEF n
  <2> QED BY <1>1, <2>1, Divided
<1>4. b \in 0 .. n - 1
  <2> HIDE DEF n
  <2> QED BY <1>1, Divided
<1>5. q = l => a * n + b = l
  BY <1>1, <1>3
<1> DEFINE r == l % n
<1>6. r \in 0 .. n - 1 /\ l = n * a + r /\ a \in Int
  BY <1>3
<1> HIDE DEF n, k, a, b, r
<1>l. l \in Int /\ l >= 0 /\ l <= ByteRange - 1 /\ ByteRange \in Nat /\ n \in Nat \ {0}
  BY <1>1
<1>7. a >= 0
  <2> SUFFICES ASSUME a <= -1 PROVE FALSE
    BY <1>3
  <2>1. n * a <= - n
    BY <1>1, <1>3
  <2> QED BY <1>l, <1>6, <2>1
<1>8. a <= k - 1
  <2> SUFFICES ASSUME a >= k PROVE FALSE
    BY <1>2, <1>3
  <2>1. n * a >= n * k
    BY <1>1, <1>2, <1>3
  <2> QED BY <1>l, <1>2, <1>6, <2>1
<1>9. n * a <= n * (k - 1) /\ n * (k - 1) = ByteRange - n
  BY <1>1, <1>2, <1>3, <1>8
<1>10. n * a \in Int /\ n * a >= 0 /\ a * n = n * a
  BY <1>1, <1>3, <1>7
<1>11. a * n + b \in 0 .. ByteRange - 1
  BY <1>1, <1>4, <1>9, <1>10
<1> QED BY <1>5, <1>11, Sizes DEF a, b, n

ScrollWrites(t, s, port, v) ==
  LET background == (port - 13) \div 2
  IN /\ Kind(t) /\ Keeps(t, s, BusFields \cup Memories)
     /\ t.scrollLatch = v
     /\ port % 2 = 1 => t.hofs = [s.hofs EXCEPT ![background] = v * ByteRange
          + ((s.scrollLatch \div Fine) * Fine + ((s.hofs[background] \div ByteRange) % Fine))]
     /\ port % 2 # 1 => t.vofs = [s.vofs EXCEPT ![background] = v * ByteRange + s.scrollLatch]

\* $210D to $2114 set one scroll.
LEMMA Scroll ==
  ASSUME NEW s, Kind(s), NEW port \in 13 .. 20, NEW v \in Byte
  PROVE  ScrollWrites(write_bg_scroll(s, port, v), s, port, v)
<1> DEFINE background == (port - 13) \div 2
           high == v * ByteRange
           fine == (s.scrollLatch \div Fine) * Fine + ((s.hofs[background] \div ByteRange) % Fine)
           across == [s.hofs EXCEPT ![background] = high + fine]
           down == [s.vofs EXCEPT ![background] = high + s.scrollLatch]
           set == IF port % 2 = 1 THEN [s EXCEPT !.hofs = across] ELSE [s EXCEPT !.vofs = down]
           shared == [set EXCEPT !.scrollLatch = v]
<1>0. /\ s \in PortState /\ s.scrollLatch \in Byte /\ s.latch \in Byte /\ s.hofs \in [0 .. 3 -> Word]
      /\ s.vofs \in [0 .. 3 -> Word] /\ background \in 0 .. 3
  BY DEF Kind, PortState
<1>1. fine \in Byte
  <2>1. s.hofs[background] \div ByteRange \in Byte
    BY <1>0, Split
  <2> QED BY <1>0, <2>1, FineFits
<1>2. high + fine \in Word /\ high + s.scrollLatch \in Word /\ high + s.latch \in Word
  BY <1>0, <1>1, Joined
<1>3. across \in [0 .. 3 -> Word] /\ down \in [0 .. 3 -> Word]
  <2> HIDE DEF fine, high, background
  <2> QED BY <1>0, <1>2
<1>4. v * ByteRange + (s.scrollLatch \div Fine) * Fine + ((s.hofs[background] \div ByteRange) % Fine)
        = high + fine
  <2>1. high \in Int /\ (s.scrollLatch \div Fine) * Fine \in Int
        /\ (s.hofs[background] \div ByteRange) % Fine \in Int
    <3>1. Fine \in Nat \ {0} /\ ByteRange \in Nat \ {0}
      BY PortAssumption, Sizes
    <3>2. s.scrollLatch \in Int /\ s.hofs[background] \in Int /\ v \in Int
      <4>1. s.hofs[background] \in Word
        BY <1>0
      <4>2. v \in Int /\ s.scrollLatch \in Int
        BY <1>0, Sizes
      <4> HIDE DEF background
      <4> QED BY <4>1, <4>2, Sizes
    <3>3. s.scrollLatch \div Fine \in Int /\ s.hofs[background] \div ByteRange \in Int
      <4> DEFINE x == s.scrollLatch  y == s.hofs[background]
      <4>1. x \in Int /\ y \in Int
        BY <3>2
      <4> HIDE DEF x, y
      <4> QED BY <3>1, <4>1, Divided DEF x, y
    <3>4. (s.hofs[background] \div ByteRange) % Fine \in Int
      <4> DEFINE y == s.hofs[background] \div ByteRange
      <4>1. y \in Int
        BY <3>3
      <4> HIDE DEF y
      <4> QED BY <3>1, <4>1, Divided DEF y
    <3> QED BY <3>1, <3>2, <3>3, <3>4
  <2> DEFINE p == (s.scrollLatch \div Fine) * Fine
             q == (s.hofs[background] \div ByteRange) % Fine
  <2>2. high \in Int /\ p \in Int /\ q \in Int /\ fine = p + q
    BY <2>1
  <2> HIDE DEF p, q, fine, high
  <2>3. high + p + q = high + fine
    BY <2>2
  <2> QED BY <2>3 DEF p, q, high
<1>5. write_bg_scroll(s, port, v) =
        CASE port = 13 -> [shared EXCEPT !.m7h = high + s.latch, !.latch = v]
          [] port = 14 -> [shared EXCEPT !.m7v = high + s.latch, !.latch = v]
          [] OTHER -> shared
  <2> DEFINE plain == IF port % 2 = 1
                      THEN [s EXCEPT !.hofs[background] =
                              v * ByteRange + (s.scrollLatch \div Fine) * Fine
                                + ((s.hofs[background] \div ByteRange) % Fine)]
                      ELSE [s EXCEPT !.vofs[background] = v * ByteRange + s.scrollLatch]
             other == [plain EXCEPT !.scrollLatch = v]
  <2>1. plain = set
    BY <1>4
  <2>2. other.latch = s.latch
    BY <1>0 DEF PortState
  <2>3. write_bg_scroll(s, port, v) =
          CASE port = 13 -> [other EXCEPT !.m7h = v * ByteRange + other.latch, !.latch = v]
            [] port = 14 -> [other EXCEPT !.m7v = v * ByteRange + other.latch, !.latch = v]
            [] OTHER -> other
    BY DEF write_bg_scroll
  <2> HIDE DEF plain, set
  <2> QED BY <2>1, <2>2, <2>3
<1> HIDE DEF across, down, high, fine, background
<1>6. set \in PortState
  BY <1>0, <1>3, Sets
<1>7. /\ Keeps(set, s, BusFields \cup Memories) /\ Keeps(set, s, Roots)
      /\ port % 2 = 1 => set.hofs = across
      /\ port % 2 # 1 => set.vofs = down
  BY <1>0 DEF PortState, Keeps, BusFields, Memories, Roots
<1> HIDE DEF set
<1>8. shared \in PortState
  BY <1>6, Sets
<1>9. /\ Keeps(shared, set, BusFields \cup Memories) /\ Keeps(shared, set, Roots)
      /\ shared.hofs = set.hofs /\ shared.vofs = set.vofs /\ shared.scrollLatch = v
  BY <1>6 DEF PortState, Keeps, BusFields, Memories, Roots
<1> HIDE DEF shared
<1>10. ASSUME NEW t,
              t \in {shared, [shared EXCEPT !.m7h = high + s.latch, !.latch = v],
                     [shared EXCEPT !.m7v = high + s.latch, !.latch = v]}
       PROVE  /\ t \in PortState /\ Keeps(t, shared, BusFields \cup Memories) /\ Keeps(t, shared, Roots)
              /\ t.hofs = shared.hofs /\ t.vofs = shared.vofs /\ t.scrollLatch = v
  <2>1. CASE t = shared
    BY <1>8, <1>9, <2>1 DEF Keeps
  <2>2. CASE t = [shared EXCEPT !.m7h = high + s.latch, !.latch = v]
    <3> DEFINE t1 == [shared EXCEPT !.m7h = high + s.latch]
    <3>1. t1 \in PortState
      BY <1>2, <1>8, Sets
    <3>2. t = [t1 EXCEPT !.latch = v]
      BY <2>2
    <3>3. t \in PortState
      <4> HIDE DEF t1
      <4> QED BY <3>1, <3>2, Sets
    <3> QED BY <1>8, <1>9, <2>2, <3>3, SMTT(20) DEF PortState, Keeps, BusFields, Memories, Roots
  <2>3. CASE t = [shared EXCEPT !.m7v = high + s.latch, !.latch = v]
    <3> DEFINE t1 == [shared EXCEPT !.m7v = high + s.latch]
    <3>1. t1 \in PortState
      BY <1>2, <1>8, Sets
    <3>2. t = [t1 EXCEPT !.latch = v]
      BY <2>3
    <3>3. t \in PortState
      <4> HIDE DEF t1
      <4> QED BY <3>1, <3>2, Sets
    <3> QED BY <1>8, <1>9, <2>3, <3>3, SMTT(20) DEF PortState, Keeps, BusFields, Memories, Roots
  <2> QED BY <1>10, <2>1, <2>2, <2>3
<1> DEFINE t == write_bg_scroll(s, port, v)
<1>11. t \in {shared, [shared EXCEPT !.m7h = high + s.latch, !.latch = v],
                     [shared EXCEPT !.m7v = high + s.latch, !.latch = v]}
  BY <1>5
<1> HIDE DEF t
<1>12. /\ t \in PortState /\ Keeps(t, shared, BusFields \cup Memories) /\ Keeps(t, shared, Roots)
       /\ t.hofs = shared.hofs /\ t.vofs = shared.vofs /\ t.scrollLatch = v
  BY <1>10, <1>11
<1>13. Keeps(t, s, BusFields \cup Memories) /\ Keeps(t, s, Roots)
  BY <1>7, <1>9, <1>12 DEF Keeps
<1>14. Kind(t)
  BY <1>12, <1>13, KeepsKind
<1> QED BY <1>7, <1>9, <1>12, <1>13, <1>14 DEF t, across, down, high, fine, background, ScrollWrites

MatrixWrites(t, s, port, v) ==
  /\ Kind(t) /\ Keeps(t, s, BusFields \cup Memories) /\ t.latch = v
  /\ t.m7 = [s.m7 EXCEPT ![port] = s.latch + v * ByteRange]

\* $211B to $2120 set one element of the matrix, and the product with it.
LEMMA Matrix ==
  ASSUME NEW s, Kind(s), NEW port \in 27 .. 32, NEW v \in Byte
  PROVE  MatrixWrites(write_mode7_matrix(s, port, v), s, port, v)
<1> DEFINE m7 == [s.m7 EXCEPT ![port] = s.latch + v * ByteRange]
           t1 == [s EXCEPT !.m7 = m7]
           set == [t1 EXCEPT !.latch = v]
<1>0. /\ s \in PortState /\ s.latch \in Byte /\ s.m7 \in [27 .. 32 -> Word] /\ Derived(s)
  BY DEF Kind, PortState
<1>1. s.latch + v * ByteRange \in Word
  <2>1. s.latch \in Int /\ v * ByteRange \in Int
    <3>1. s.latch \in Int /\ v \in Int /\ ByteRange \in Int
      <4>1. ByteRange \in Nat /\ Byte = 0 .. ByteRange - 1
        BY BusAssumption DEF Byte
      <4> QED BY <1>0, <4>1
    <3> QED BY <3>1
  <2>2. s.latch + v * ByteRange = v * ByteRange + s.latch
    BY <2>1
  <2> QED BY <1>0, <2>2, Joined
<1>2. m7 \in [27 .. 32 -> Word]
  BY <1>0, <1>1
<1>3. port \notin 27 .. 28 => m7[27] = s.m7[27] /\ m7[28] = s.m7[28]
  BY <1>0
<1>4. write_mode7_matrix(s, port, v) = IF port \in 27 .. 28 THEN update_mode7_product(set) ELSE set
  BY DEF write_mode7_matrix
<1> HIDE DEF m7
<1>5. t1 \in PortState
  BY <1>0, <1>2, Sets
<1>6. set \in PortState
  <2> HIDE DEF t1
  <2> QED BY <1>5, Sets
<1>7. /\ set.m7 = m7 /\ set.latch = v /\ Keeps(set, s, BusFields \cup Memories)
      /\ Keeps(set, s, {"product", "first", "rotates", "oamAt"})
  BY <1>0 DEF PortState, Keeps, BusFields, Memories
<1> HIDE DEF set
<1>8. ProductOf(m7) \in Int
  <2>1. m7[27] \in Word /\ m7[28] \in Word /\ m7[28] \div ByteRange \in Byte
    BY <1>2, Split
  <2>2. \A x \in Int, n \in Nat \ {0} : Signed(x, n) \in Int
    BY DEF Signed
  <2>3. Signed(m7[27], WordRange) \in Int /\ Signed(m7[28] \div ByteRange, ByteRange) \in Int
    <3>1. m7[27] \in Int /\ m7[28] \div ByteRange \in Int
      BY <2>1, Sizes
    <3>2. WordRange \in Nat \ {0} /\ ByteRange \in Nat \ {0}
      BY Sizes
    <3> QED BY <2>2, <3>1, <3>2
  <2> QED BY <2>3 DEF ProductOf
<1>9. CASE port \in 27 .. 28
  <2> DEFINE t == [set EXCEPT !.product = ProductOf(m7)]
  <2>1. write_mode7_matrix(s, port, v) = t
    BY <1>4, <1>7, <1>9 DEF update_mode7_product, ProductOf
  <2>2. t \in PortState
    BY <1>6, <1>8, Sets
  <2>3. /\ t.m7 = m7 /\ t.latch = v /\ t.product = ProductOf(m7) /\ Keeps(t, set, BusFields \cup Memories)
        /\ Keeps(t, set, {"first", "rotates", "oamAt"})
    BY <1>6, <1>7 DEF PortState, Keeps, BusFields, Memories
  <2> HIDE DEF t
  <2>4. Kind(t)
    BY <1>0, <1>7, <2>2, <2>3 DEF Kind, Derived, Keeps
  <2>5. Keeps(t, s, BusFields \cup Memories)
    BY <1>7, <2>3 DEF Keeps
  <2> QED BY <2>1, <2>3, <2>4, <2>5 DEF m7, MatrixWrites
<1>10. CASE port \notin 27 .. 28
  <2>1. write_mode7_matrix(s, port, v) = set
    BY <1>4, <1>10
  <2>2. ProductOf(m7) = ProductOf(s.m7)
    BY <1>3, <1>10 DEF ProductOf
  <2>3. Kind(set)
    BY <1>0, <1>6, <1>7, <2>2 DEF Kind, Derived, Keeps
  <2> QED BY <1>7, <2>1, <2>3 DEF m7, MatrixWrites
<1> QED BY <1>9, <1>10

\* An address of work RAM is a bank of two, and two bytes within it.
LEMMA WramParts ==
  /\ \A w \in 0 .. WramSize - 1 :
       /\ w \div WordRange \in 0 .. 1 /\ w % WordRange \in Word
       /\ (w % WordRange) \div ByteRange \in Byte /\ w % ByteRange \in Byte
  /\ \A q \in 0 .. 1, m \in Byte, l \in Byte :
       LET w == q * WordRange + m * ByteRange + l
       IN /\ w \in 0 .. WramSize - 1 /\ w \div WordRange = q
          /\ (w % WordRange) \div ByteRange = m /\ w % ByteRange = l
<1>1. ASSUME NEW w \in 0 .. WramSize - 1
      PROVE  /\ w \div WordRange \in 0 .. 1 /\ w % WordRange \in Word
             /\ (w % WordRange) \div ByteRange \in Byte /\ w % ByteRange \in Byte
  <2> DEFINE b == WordRange  q == w \div b  r == w % b
  <2>1. b \in Nat \ {0} /\ w \in 0 .. 2 * b - 1 /\ ByteRange \in Nat \ {0}
    BY Sizes
  <2> HIDE DEF b
  <2>2. q \in Int /\ r \in 0 .. b - 1 /\ w = b * q + r
    BY <2>1, Divided
  <2> HIDE DEF q, r
  <2>3. q >= 0
    <3> SUFFICES ASSUME q <= -1 PROVE FALSE
      BY <2>2
    <3>1. b * q <= - b
      BY <2>1, <2>2
    <3> QED BY <2>1, <2>2, <3>1
  <2>4. q <= 1
    <3> SUFFICES ASSUME q >= 2 PROVE FALSE
      BY <2>2
    <3>1. b * q >= 2 * b
      BY <2>1, <2>2
    <3> QED BY <2>1, <2>2, <3>1
  <2>5. r \in Word
    BY <2>2, Sizes DEF b
  <2>6. r \div ByteRange \in Byte
    BY <2>5, Split
  <2>7. w % ByteRange \in 0 .. ByteRange - 1
    BY <2>1, Divided
  <2> QED BY <2>2, <2>3, <2>4, <2>5, <2>6, <2>7, Sizes DEF q, r, b
<1>2. ASSUME NEW q \in 0 .. 1, NEW m \in Byte, NEW l \in Byte
      PROVE  LET w == q * WordRange + m * ByteRange + l
             IN /\ w \in 0 .. WramSize - 1 /\ w \div WordRange = q
                /\ (w % WordRange) \div ByteRange = m /\ w % ByteRange = l
  <2> DEFINE x == m * ByteRange + l
             w == q * WordRange + m * ByteRange + l
  <2>1. x \in Word /\ x \div ByteRange = m /\ x % ByteRange = l
    BY Joined
  <2>2. x \in Int /\ m * ByteRange \in Int /\ l \in Int /\ WordRange \in Nat \ {0} /\ q * WordRange \in Int
    <3>1. m \in Int /\ ByteRange \in Int /\ l \in Int /\ WordRange \in Nat \ {0}
      BY Sizes
    <3>2. m * ByteRange \in Int /\ q * WordRange \in Int
      BY <3>1
    <3> QED BY <3>1, <3>2
  <2>3. w = WordRange * q + x
    BY <2>2
  <2> HIDE DEF x, w
  <2>4. w \in 0 .. WramSize - 1
    BY <2>1, <2>2, <2>3, Sizes
  <2>5. w \div WordRange = q /\ w % WordRange = x
    BY <2>1, <2>2, <2>3, Sizes, Unique
  <2>6. w % ByteRange = l
    <3> DEFINE k == ByteRange * q + m
    <3>1. k \in Int /\ ByteRange \in Nat \ {0} /\ l \in 0 .. ByteRange - 1
      BY Sizes
    <3>2. w = ByteRange * k + l
      <4>1. WordRange * q = ByteRange * (ByteRange * q)
        BY Sizes
      <4>2. ByteRange * k = ByteRange * (ByteRange * q) + ByteRange * m
        BY Sizes
      <4>3. m * ByteRange = ByteRange * m
        BY Sizes
      <4>4. w = WordRange * q + (ByteRange * m + l)
        BY <2>3, <4>3 DEF x
      <4>5. ByteRange * (ByteRange * q) \in Int /\ ByteRange * m \in Int
        BY Sizes
      <4> HIDE DEF k
      <4> QED BY <3>1, <4>1, <4>2, <4>4, <4>5
    <3> HIDE DEF k
    <3>3. (ByteRange * k + l) % ByteRange = l
      BY <3>1, Unique
    <3> QED BY <3>2, <3>3
  <2> QED BY <2>1, <2>4, <2>5, <2>6 DEF w
<1> QED BY <1>1, <1>2

WramWrites(t, s, port, v) ==
  LET low == s.wramAt % ByteRange
      bank == s.wramAt \div WordRange
      middle == (s.wramAt % WordRange) \div ByteRange
  IN /\ Kind(t) /\ Keeps(t, s, BusFields \cup {"vram", "cgram", "oam"})
     /\ port = 128 => /\ t.wram = [s.wram EXCEPT ![s.wramAt] = v]
                      /\ t.wramAt = (s.wramAt + 1) % WramSize
     /\ port # 128 => t.wram = s.wram
     /\ port = 129 => t.wramAt = bank * WordRange + middle * ByteRange + v
     /\ port = 130 => t.wramAt = bank * WordRange + v * ByteRange + low
     /\ port = 131 => t.wramAt = (v % 2) * WordRange + middle * ByteRange + low

\* $2180 to $2183 as WramWrites says.
LEMMA WramPort ==
  ASSUME NEW s, Kind(s), NEW port \in 128 .. 131, NEW v \in Byte
  PROVE  WramWrites(write_wram_port(s, port, v), s, port, v)
<1> DEFINE t == write_wram_port(s, port, v)
           low == s.wramAt % ByteRange
           bank == s.wramAt \div WordRange
           middle == (s.wramAt % WordRange) \div ByteRange
<1>0. /\ s \in PortState /\ s.wramAt \in 0 .. WramSize - 1 /\ s.wram \in [0 .. WramSize - 1 -> Byte]
      /\ v \in 0 .. ByteRange - 1
  BY Sizes DEF Kind, PortState
<1>1. low \in Byte /\ bank \in 0 .. 1 /\ middle \in Byte /\ v % 2 \in 0 .. 1
  <2>1. v \in Int
    BY BusAssumption DEF Byte
  <2>2. v % 2 \in 0 .. 1
    BY <2>1
  <2> QED BY <1>0, <2>2, WramParts
<1>2. CASE port = 128
  <2> DEFINE mem == [s.wram EXCEPT ![s.wramAt] = v]
             at == (s.wramAt + 1) % WramSize
             t1 == [s EXCEPT !.wram = mem]
             t2 == [t1 EXCEPT !.wramAt = at]
  <2>1. mem \in [0 .. WramSize - 1 -> Byte]
    BY <1>0
  <2>2. at \in 0 .. WramSize - 1
    <3> DEFINE x == s.wramAt + 1
    <3>1. x \in Int /\ WramSize \in Nat \ {0}
      BY <1>0, Sizes
    <3> HIDE DEF x
    <3>2. x % WramSize \in 0 .. WramSize - 1
      BY <3>1, Divided
    <3> QED BY <3>2 DEF x
  <2>3. t = t2
    <3>1. t = StepWram([s EXCEPT !.wram[s.wramAt] = v])
      BY <1>2 DEF write_wram_port
    <3>2. [s EXCEPT !.wram[s.wramAt] = v] = t1
      OBVIOUS
    <3>3. t1.wramAt = s.wramAt
      BY <1>0 DEF PortState
    <3> HIDE DEF t1
    <3> QED BY <3>1, <3>2, <3>3 DEF StepWram
  <2> HIDE DEF mem, at
  <2>4. t1 \in PortState
    BY <1>0, <2>1, Sets
  <2>5. t2 \in PortState
    <3> HIDE DEF t1
    <3> QED BY <2>2, <2>4, Sets
  <2>6. /\ Keeps(t2, s, BusFields \cup {"vram", "cgram", "oam"}) /\ Keeps(t2, s, Roots)
        /\ t2.wram = mem /\ t2.wramAt = at
    BY <1>0 DEF PortState, Keeps, BusFields, Roots
  <2> HIDE DEF t2
  <2>7. Kind(t2)
    BY <2>5, <2>6, KeepsKind
  <2> HIDE DEF t
  <2> QED BY <1>2, <2>3, <2>6, <2>7 DEF t, mem, at, WramWrites
<1>3. CASE port # 128
  <2> DEFINE at == IF port = 129 THEN bank * WordRange + middle * ByteRange + v
                   ELSE IF port = 130 THEN bank * WordRange + v * ByteRange + low
                   ELSE (v % 2) * WordRange + middle * ByteRange + low
             t2 == [s EXCEPT !.wramAt = at]
  <2>1. at \in 0 .. WramSize - 1
    <3> HIDE DEF low, bank, middle
    <3>1. v \in Byte
      OBVIOUS
    <3>2. bank * WordRange + middle * ByteRange + v \in 0 .. WramSize - 1
      BY <1>1, WramParts
    <3>3. bank * WordRange + v * ByteRange + low \in 0 .. WramSize - 1
      BY <1>1, WramParts
    <3>4. (v % 2) * WordRange + middle * ByteRange + low \in 0 .. WramSize - 1
      BY <1>1, WramParts
    <3> QED BY <3>2, <3>3, <3>4
  <2>2. t = t2
    BY <1>3 DEF write_wram_port
  <2>3. port = 129 \/ port = 130 \/ port = 131
    BY <1>3
  <2> HIDE DEF at
  <2>5. t2 \in PortState
    BY <1>0, <2>1, Sets
  <2>6. /\ Keeps(t2, s, BusFields \cup {"vram", "cgram", "oam"}) /\ Keeps(t2, s, Roots)
        /\ t2.wram = s.wram /\ t2.wramAt = at
    BY <1>0 DEF PortState, Keeps, BusFields, Roots
  <2> HIDE DEF t2
  <2>7. Kind(t2)
    BY <2>5, <2>6, KeepsKind
  <2> HIDE DEF t
  <2> QED BY <1>3, <2>2, <2>3, <2>6, <2>7 DEF t, at, WramWrites
<1> QED BY <1>2, <1>3

AddressWrites(t, s, port, v) ==
  /\ Kind(t) /\ Keeps(t, s, BusFields \cup Memories)
  /\ port = 21 => t.vmain = v /\ t.vramAt = s.vramAt
  /\ port = 22 => t.vmain = s.vmain /\ t.vramAt = (s.vramAt \div ByteRange) * ByteRange + v
  /\ port = 23 => t.vmain = s.vmain /\ t.vramAt = v * ByteRange + (s.vramAt % ByteRange)

\* $2115 to $2117 as AddressWrites says.
LEMMA VramAddress ==
  ASSUME NEW s, Kind(s), NEW port \in 21 .. 23, NEW v \in Byte
  PROVE  AddressWrites(ppu_write(s, port, v), s, port, v)
<1> DEFINE t == ppu_write(s, port, v)
<1>0. s \in PortState /\ s.vramAt \in Word
  BY DEF Kind, PortState
<1>1. CASE port = 21
  <2> DEFINE t2 == [s EXCEPT !.vmain = v]
  <2>1. t = t2
    BY <1>1 DEF ppu_write
  <2>2. t2 \in PortState
    BY <1>0, Sets
  <2>3. /\ Keeps(t2, s, BusFields \cup Memories) /\ Keeps(t2, s, Roots) /\ t2.vmain = v /\ t2.vramAt = s.vramAt
    BY <1>0 DEF PortState, Keeps, BusFields, Memories, Roots
  <2> HIDE DEF t2, t
  <2> QED BY <1>1, <2>1, <2>2, <2>3, KeepsKind DEF t, AddressWrites
<1>2. CASE port \in 22 .. 23
  <2> DEFINE at == IF port = 22 THEN (s.vramAt \div ByteRange) * ByteRange + v
                   ELSE v * ByteRange + (s.vramAt % ByteRange)
             t2 == [s EXCEPT !.vramAt = at]
  <2>1. t = t2
    BY <1>2 DEF ppu_write
  <2>2. at \in Word
    <3>1. s.vramAt \div ByteRange \in Byte /\ s.vramAt % ByteRange \in Byte
      BY <1>0, Split
    <3> QED BY <3>1, Joined
  <2> HIDE DEF at
  <2>3. t2 \in PortState
    BY <1>0, <2>2, Sets
  <2>4. /\ Keeps(t2, s, BusFields \cup Memories) /\ Keeps(t2, s, Roots) /\ t2.vmain = s.vmain /\ t2.vramAt = at
    BY <1>0 DEF PortState, Keeps, BusFields, Memories, Roots
  <2> HIDE DEF t2, t
  <2> QED BY <1>2, <2>1, <2>3, <2>4, KeepsKind DEF t, at, AddressWrites
<1> QED BY <1>1, <1>2

\* Whatever is written to whatever port.
LEMMA PortWrite ==
  ASSUME NEW s, Kind(s), NEW port \in Int, NEW v \in Byte
  PROVE  Kind(ppu_write(s, port, v)) /\ Keeps(ppu_write(s, port, v), s, BusFields)
<1>1. CASE port = 2
  <2>1. ppu_write(s, port, v) = WriteOamLow(s, v)
    BY <1>1 DEF ppu_write
  <2> QED BY <2>1, OamLow DEF Keeps
<1>2. CASE port = 3
  <2>1. ppu_write(s, port, v) = WriteOamHigh(s, v)
    BY <1>2 DEF ppu_write
  <2> QED BY <2>1, OamHigh DEF Keeps
<1>3. CASE port = 4
  <2>1. ppu_write(s, port, v) = WriteOam(s, v)
    BY <1>3 DEF ppu_write
  <2>2. Kind(WriteOam(s, v)) /\ Keeps(WriteOam(s, v), s, BusFields \cup {"wram", "vram", "cgram"})
    BY <2>1, Oam DEF OamWrites
  <2> QED BY <2>1, <2>2 DEF Keeps
<1>4. CASE port \in 13 .. 20
  <2>1. ppu_write(s, port, v) = write_bg_scroll(s, port, v)
    BY <1>4 DEF ppu_write
  <2>2. Kind(write_bg_scroll(s, port, v)) /\ Keeps(write_bg_scroll(s, port, v), s, BusFields \cup Memories)
    BY <1>4, <2>1, Scroll DEF ScrollWrites
  <2> QED BY <2>1, <2>2 DEF Keeps
<1>5. CASE port \in 21 .. 23
  BY <1>5, VramAddress, SMTT(20) DEF AddressWrites, Keeps
<1>6. CASE port \in 24 .. 25
  <2>1. ppu_write(s, port, v) = WriteVram(s, port - 24, v) /\ port - 24 \in 0 .. 1
    BY <1>6 DEF ppu_write
  <2>2. Kind(WriteVram(s, port - 24, v)) /\ Keeps(WriteVram(s, port - 24, v), s, BusFields \cup {"wram", "cgram", "oam", "vmain"})
    BY <2>1, Vram DEF VramWrites
  <2> QED BY <2>1, <2>2 DEF Keeps
<1>7. CASE port \in 27 .. 32
  <2>1. ppu_write(s, port, v) = write_mode7_matrix(s, port, v)
    BY <1>7 DEF ppu_write
  <2>2. Kind(write_mode7_matrix(s, port, v)) /\ Keeps(write_mode7_matrix(s, port, v), s, BusFields \cup Memories)
    BY <1>7, <2>1, Matrix DEF MatrixWrites
  <2> QED BY <2>1, <2>2 DEF Keeps
<1>8. CASE port = 33
  <2>1. ppu_write(s, port, v) = WriteCgadd(s, v)
    BY <1>8 DEF ppu_write
  <2>2. Kind(WriteCgadd(s, v)) /\ Keeps(WriteCgadd(s, v), s, BusFields \cup Memories)
    BY <2>1, Cgadd DEF CgaddWrites
  <2> QED BY <2>1, <2>2 DEF Keeps
<1>9. CASE port = 34
  <2>1. ppu_write(s, port, v) = WriteCgram(s, v)
    BY <1>9 DEF ppu_write
  <2>2. Kind(WriteCgram(s, v)) /\ Keeps(WriteCgram(s, v), s, BusFields \cup {"wram", "vram", "oam"})
    BY <2>1, Cgram DEF CgramWrites
  <2> QED BY <2>1, <2>2 DEF Keeps
<1>10. CASE port \in 128 .. 131
  <2>1. ppu_write(s, port, v) = write_wram_port(s, port, v)
    BY <1>10 DEF ppu_write
  <2>2. Kind(write_wram_port(s, port, v)) /\ Keeps(write_wram_port(s, port, v), s, BusFields \cup {"vram", "cgram", "oam"})
    BY <1>10, <2>1, WramPort DEF WramWrites
  <2> QED BY <2>1, <2>2 DEF Keeps
<1>11. CASE port \notin {2, 3, 4, 33, 34} \cup 13 .. 20 \cup 21 .. 23 \cup 24 .. 25 \cup 27 .. 32 \cup 128 .. 131
  <2>1. ppu_write(s, port, v) = s
    BY <1>11 DEF ppu_write
  <2> QED BY <2>1 DEF Keeps
<1> QED BY <1>1, <1>2, <1>3, <1>4, <1>5, <1>6, <1>7, <1>8, <1>9, <1>10, <1>11

-----------------------------------------------------------------------------
(* Induction, as the least number principle, and recursion from it.        *)

\* A set of numbers has a least one.
LEMMA Least ==
  ASSUME NEW T \in SUBSET Nat, T # {}
  PROVE  \E m \in T : \A k \in T : m <= k
<1> DEFINE R == OpToRel(<, Nat)
<1>1. IsWellFoundedOn(R, Nat)
  BY NatLessThanWellFounded
<1>2. \A x, y \in Nat : x < y => <<x, y>> \in R
  BY DEF OpToRel
<1> HIDE DEF R
<1>3. PICK x \in T : \A y \in T : ~ (<<y, x>> \in R)
  BY <1>1, WFMin
<1>4. ASSUME NEW y \in T PROVE x <= y
  <2>1. x \in Nat /\ y \in Nat
    OBVIOUS
  <2>2. ~ (y < x)
    BY <1>2, <1>3, <2>1
  <2> QED BY <2>1, <2>2
<1> QED BY <1>4

\* Induction, for a set of naturals.
LEMMA Induction ==
  ASSUME NEW T, 0 \in T, \A n \in Nat : n \in T => n + 1 \in T
  PROVE  Nat \subseteq T
<1> DEFINE Bad == Nat \ T
<1> SUFFICES ASSUME Bad # {} PROVE FALSE
  OBVIOUS
<1>1. PICK n \in Bad : \A k \in Bad : n <= k
  BY Least
<1>2. n \in Nat /\ n # 0 /\ n - 1 \in Nat /\ n - 1 \notin Bad
  BY <1>1
<1>3. n - 1 \in T /\ (n - 1) + 1 = n
  BY <1>2
<1> QED BY <1>1, <1>2, <1>3

\* The first n steps of a run: step i of a state x leads to G[x][i].
Steps(G, a, g, n) == g[0] = a /\ \A i \in 0 .. n - 1 : g[i + 1] = G[g[i]][i]

\* Two runs agree as far as both go.
LEMMA RunsAgree ==
  ASSUME NEW G, NEW a, NEW g, NEW h, NEW n \in Nat, NEW m \in Nat, n <= m, Steps(G, a, g, n), Steps(G, a, h, m)
  PROVE  g[n] = h[n]
<1> DEFINE T == {i \in Nat : i <= n => g[i] = h[i]}
<1>1. 0 \in T
  BY DEF Steps
<1>2. ASSUME NEW i \in Nat, i \in T PROVE i + 1 \in T
  <2>1. CASE i + 1 <= n
    <3>1. i \in 0 .. n - 1 /\ i \in 0 .. m - 1 /\ g[i] = h[i]
      BY <1>2, <2>1
    <3>2. g[i + 1] = G[g[i]][i] /\ h[i + 1] = G[h[i]][i]
      BY <3>1 DEF Steps
    <3> QED BY <3>1, <3>2
  <2> QED BY <2>1
<1>3. Nat \subseteq T
  <2> HIDE DEF T
  <2> QED BY <1>1, <1>2, Induction
<1> QED BY <1>3

\* There is a run of any length.
LEMMA RunExists ==
  ASSUME NEW K, NEW G \in [K -> [Nat -> K]], NEW a \in K, NEW n \in Nat
  PROVE  \E g \in [0 .. n -> K] : Steps(G, a, g, n)
<1> DEFINE T == {k \in Nat : \E g \in [0 .. k -> K] : Steps(G, a, g, k)}
<1>1. 0 \in T
  <2> DEFINE g == [i \in 0 .. 0 |-> a]
  <2>1. g \in [0 .. 0 -> K] /\ Steps(G, a, g, 0)
    BY DEF Steps
  <2> QED BY <2>1
<1>2. ASSUME NEW k \in Nat, k \in T PROVE k + 1 \in T
  <2>1. PICK g \in [0 .. k -> K] : Steps(G, a, g, k)
    BY <1>2
  <2> DEFINE next == G[g[k]][k]
             h == [i \in 0 .. k + 1 |-> IF i = k + 1 THEN next ELSE g[i]]
  <2>2. next \in K
    <3>1. g[k] \in K
      OBVIOUS
    <3> QED BY <3>1
  <2> HIDE DEF next
  <2>3a. ASSUME NEW i \in 0 .. k + 1 PROVE (IF i = k + 1 THEN next ELSE g[i]) \in K
    <3>1. i = k + 1 \/ i \in 0 .. k
      OBVIOUS
    <3> QED BY <2>2, <3>1
  <2>3b. h \in [0 .. k + 1 -> K]
    BY <2>3a
  <2>3c. h[k + 1] = next
    OBVIOUS
  <2>3d. ASSUME NEW i \in 0 .. k PROVE h[i] = g[i]
    <3>1. i \in 0 .. k + 1 /\ i # k + 1
      OBVIOUS
    <3> QED BY <3>1
  <2>3. h \in [0 .. k + 1 -> K] /\ h[k + 1] = next /\ \A i \in 0 .. k : h[i] = g[i]
    BY <2>3b, <2>3c, <2>3d
  <2> HIDE DEF h
  <2>4. h[0] = a
    BY <2>1, <2>3 DEF Steps
  <2>5. ASSUME NEW i \in 0 .. (k + 1) - 1 PROVE h[i + 1] = G[h[i]][i]
    <3>1. CASE i = k
      BY <2>3, <3>1 DEF next
    <3>2. CASE i \in 0 .. k - 1
      <4>1. h[i + 1] = g[i + 1] /\ h[i] = g[i]
        BY <2>3, <3>2, SMTT(20)
      <4> QED BY <2>1, <3>2, <4>1 DEF Steps
    <3> QED BY <3>1, <3>2
  <2>6. Steps(G, a, h, k + 1)
    BY <2>4, <2>5 DEF Steps
  <2> QED BY <2>3, <2>6
<1>3. Nat \subseteq T
  <2> HIDE DEF T
  <2> QED BY <1>1, <1>2, Induction
<1> QED BY <1>3

\* There is a run without end.
Stepping(G, K) == G \in [K -> [Nat -> K]]
Endless(f, G, a, K) == f \in [Nat -> K] /\ f[0] = a /\ \A n \in Nat : f[n + 1] = G[f[n]][n]

\* A step that is a function on a set can be run from any start for ever, and in one way.
LEMMA Recursion ==
  ASSUME NEW K, NEW G, Stepping(G, K), NEW a \in K
  PROVE  \E f : Endless(f, G, a, K)
<1> DEFINE R(n) == CHOOSE g \in [0 .. n -> K] : Steps(G, a, g, n)
           f == [i \in Nat |-> R(i)[i]]
<1>1. ASSUME NEW n \in Nat PROVE R(n) \in [0 .. n -> K] /\ Steps(G, a, R(n), n)
  <2>1. G \in [K -> [Nat -> K]]
    BY DEF Stepping
  <2> QED BY <2>1, RunExists
<1> HIDE DEF R
<1>2. f \in [Nat -> K]
  <2>1. ASSUME NEW n \in Nat PROVE R(n)[n] \in K
    BY <1>1
  <2> QED BY <2>1
<1>3. f[0] = a
  BY <1>1 DEF Steps
<1>4. ASSUME NEW n \in Nat PROVE f[n + 1] = G[f[n]][n]
  <2>1. R(n)[n] = R(n + 1)[n]
    BY <1>1, RunsAgree
  <2>2. R(n + 1)[n + 1] = G[R(n + 1)[n]][n]
    <3>1. n \in 0 .. (n + 1) - 1 /\ Steps(G, a, R(n + 1), n + 1)
      BY <1>1
    <3> QED BY <3>1 DEF Steps
  <2> QED BY <2>1, <2>2
<1> HIDE DEF f
<1> QED BY <1>2, <1>3, <1>4 DEF Endless

-----------------------------------------------------------------------------
(* General DMA.                                                            *)

\* What a read of the bus leaves alone.
Ports == Memories \cup {"wramAt", "vramAt", "vmain", "cgramAt", "cgramHigh", "oamAt", "oamHigh", "oamLatch"}

\* dma_pattern is one of the first four ports of its channel; modes 0 and 1 in detail.
LEMMA PatternIs ==
  ASSUME NEW mode \in 0 .. 7, NEW i \in Nat
  PROVE  /\ dma_pattern(mode, i) \in 0 .. 3
         /\ mode = 0 => dma_pattern(mode, i) = 0
         /\ mode = 1 => dma_pattern(mode, i) = i % 2
<1>1. i % 1 = 0 /\ i % 2 \in 0 .. 1 /\ i % 4 \in 0 .. 3
  OBVIOUS
<1>2. CASE mode = 0
  <2>1. Patterns[mode + 1] = <<0>>
    BY <1>2 DEF Patterns
  <2>2. dma_pattern(mode, i) = <<0>>[(i % 1) + 1]
    BY <2>1 DEF dma_pattern
  <2> QED BY <1>1, <1>2, <2>2
<1>3. CASE mode = 1
  <2>1. Patterns[mode + 1] = <<0, 1>>
    BY <1>3 DEF Patterns
  <2>2. dma_pattern(mode, i) = <<0, 1>>[(i % 2) + 1]
    BY <2>1 DEF dma_pattern
  <2> QED BY <1>1, <1>3, <2>2
<1>4. CASE mode \in {2, 6}
  <2>1. Patterns[mode + 1] = <<0, 0>>
    BY <1>4 DEF Patterns
  <2>2. dma_pattern(mode, i) = <<0, 0>>[(i % 2) + 1]
    BY <2>1 DEF dma_pattern
  <2> QED BY <1>1, <1>4, <2>2
<1>5. CASE mode \in {3, 7}
  <2>1. Patterns[mode + 1] = <<0, 0, 1, 1>>
    BY <1>5 DEF Patterns
  <2>2. dma_pattern(mode, i) = <<0, 0, 1, 1>>[(i % 4) + 1]
    BY <2>1 DEF dma_pattern
  <2> QED BY <1>1, <1>5, <2>2
<1>6. CASE mode = 4
  <2>1. Patterns[mode + 1] = <<0, 1, 2, 3>>
    BY <1>6 DEF Patterns
  <2>2. dma_pattern(mode, i) = <<0, 1, 2, 3>>[(i % 4) + 1]
    BY <2>1 DEF dma_pattern
  <2> QED BY <1>1, <1>6, <2>2
<1>7. CASE mode = 5
  <2>1. Patterns[mode + 1] = <<0, 1, 0, 1>>
    BY <1>7 DEF Patterns
  <2>2. dma_pattern(mode, i) = <<0, 1, 0, 1>>[(i % 4) + 1]
    BY <2>1 DEF dma_pattern
  <2> QED BY <1>1, <1>7, <2>2
<1> QED BY <1>2, <1>3, <1>4, <1>5, <1>6, <1>7

BusReads(t, s, a) ==
  /\ Kind(t) /\ Keeps(t, s, Ports \cup {"sram", "dma"})
  /\ t.open = dkc2_bus_value(s, a) /\ t.open \in Byte
  /\ t.barrier = IF dkc2_bus_region_for(a) = "IO" THEN 1 ELSE s.barrier

\* A read through the bus changes what it drives and nothing else.
LEMMA ReadBus ==
  ASSUME NEW s, Kind(s), NEW a \in Address
  PROVE  BusReads(dkc2_bus_read8(s, a), s, a)
<1> DEFINE v == dkc2_bus_value(s, a)
           b == IF dkc2_bus_region_for(a) = "IO" THEN 1 ELSE s.barrier
           t1 == [s EXCEPT !.open = v]
           t2 == [t1 EXCEPT !.barrier = b]
<1>0. s \in PortState /\ HasMemory(s) /\ s.barrier \in 0 .. 1
  BY DEF Kind, PortState, HasMemory
<1>1. v \in Byte
  BY <1>0, ValueIsByte
<1>2. b \in 0 .. 1
  BY <1>0
<1>3. dkc2_bus_read8(s, a) = t2
  BY DEF dkc2_bus_read8
<1> HIDE DEF v, b
<1>4. t1 \in PortState
  BY <1>0, <1>1, Sets
<1>5. t2 \in PortState
  <2> HIDE DEF t1
  <2> QED BY <1>2, <1>4, Sets
<1>6. Keeps(t2, s, Ports \cup {"sram", "dma"}) /\ t2.open = v /\ t2.barrier = b
  BY <1>0 DEF PortState, Keeps, Ports, Memories
<1>7. Keeps(t2, s, Roots)
  BY <1>0 DEF PortState, Keeps, Roots
<1> HIDE DEF t2
<1>8. Kind(t2)
  BY <1>5, <1>7, KeepsKind
<1> QED BY <1>1, <1>3, <1>6, <1>8 DEF v, b, BusReads

SourceOf(d) == [bank |-> d.bank, offset |-> d.offset]
StepOf(d) == CASE d.fixed = 1 -> 0 [] d.fixed = 0 /\ d.down = 1 -> -1 [] OTHER -> 1
PortAt(d, i) == (d.to + dma_pattern(d.mode, i)) % 256

Transfers(t, s, c, i) ==
  LET d == s.dma[c]
      r == dkc2_bus_read8(s, SourceOf(d))
      w == ppu_write(r, PortAt(d, i), r.open)
  IN /\ d \in DmaSetup /\ SourceOf(d) \in Address /\ PortAt(d, i) \in Int
     /\ Kind(t) /\ BusReads(r, s, SourceOf(d))
     /\ Keeps(t, w, Ports) /\ t.sram = s.sram /\ t.barrier = r.barrier
     /\ t.dma = [s.dma EXCEPT ![c].offset = (d.offset + StepOf(d)) % BankLength]

\* One byte of a transfer: a read of the bus, a write to a port, the address.
LEMMA Transfer ==
  ASSUME NEW s, Kind(s), NEW c \in DmaChannels, NEW i \in Nat
  PROVE  Transfers(TransferByte(s, c, i), s, c, i)
<1> DEFINE t == TransferByte(s, c, i)
           d == s.dma[c]
           a == SourceOf(d)
           r == dkc2_bus_read8(s, a)
           port == PortAt(d, i)
           w == ppu_write(r, port, r.open)
           at == (d.offset + StepOf(d)) % BankLength
           e == [d EXCEPT !.offset = at]
           dmas == [s.dma EXCEPT ![c] = e]
           t1 == [w EXCEPT !.open = r.open]
           t2 == [t1 EXCEPT !.dma = dmas]
<1>0. s \in PortState /\ s.dma \in [DmaChannels -> DmaSetup]
  BY DEF Kind, PortState
<1>1. d \in DmaSetup
  BY <1>0
<1>2. a \in Address
  BY <1>1 DEF DmaSetup, SourceOf, Address
<1>3. d.offset \in Int /\ StepOf(d) \in Int /\ BankLength \in Nat \ {0} /\ d.to \in Nat /\ d.mode \in 0 .. 7
  <2>1. BankLength \in Nat \ {0}
    BY Sizes, PortAssumption
  <2> QED BY <1>1, <2>1 DEF DmaSetup, StepOf
<1>4. port \in Int
  <2>1. dma_pattern(d.mode, i) \in 0 .. 3
    BY <1>3, PatternIs
  <2> QED BY <1>3, <2>1 DEF PortAt
<1>5. at \in 0 .. BankLength - 1
  <2> DEFINE x == d.offset + StepOf(d)
  <2>1. x \in Int
    BY <1>3
  <2> HIDE DEF x
  <2>2. x % BankLength \in 0 .. BankLength - 1
    BY <1>3, <2>1, Divided
  <2> QED BY <2>2 DEF x
<1> HIDE DEF at, d, a
<1>6. e \in DmaSetup
  BY <1>1, <1>5 DEF DmaSetup
<1>7. dmas \in [DmaChannels -> DmaSetup]
  BY <1>0, <1>6
<1>8a. BusReads(r, s, a)
  BY <1>2, ReadBus
<1>8. Kind(r) /\ r.open \in Byte /\ Keeps(r, s, Ports \cup {"sram", "dma"})
  BY <1>8a DEF BusReads
<1> HIDE DEF r
<1>9. Kind(w) /\ Keeps(w, r, BusFields)
  BY <1>4, <1>8, PortWrite
<1>10. w.dma = s.dma /\ w.sram = s.sram /\ w.barrier = r.barrier /\ w \in PortState
  BY <1>8, <1>9 DEF Keeps, BusFields, Kind
<1>11. t = t2
  <2>1. t = [w EXCEPT !.open = r.open, !.dma[c].offset = (@ + StepOf(d)) % BankLength]
    BY DEF TransferByte, r, a, d, SourceOf, StepOf, PortAt
  <2>2. w.dma[c].offset = d.offset
    BY <1>10 DEF d
  <2> HIDE DEF w
  <2>3. t = [w EXCEPT !.open = r.open, !.dma[c].offset = at]
    BY <2>1, <2>2 DEF at
  <2>4. [w EXCEPT !.open = r.open, !.dma[c].offset = at] = [t1 EXCEPT !.dma[c].offset = at]
    OBVIOUS
  <2>5. t1.dma = s.dma
    BY <1>10 DEF PortState
  <2>6. [t1 EXCEPT !.dma[c].offset = at] = [t1 EXCEPT !.dma = [t1.dma EXCEPT ![c].offset = at]]
    OBVIOUS
  <2>7. [t1.dma EXCEPT ![c].offset = at] = dmas
    BY <2>5 DEF d
  <2> HIDE DEF t1, dmas
  <2> QED BY <2>3, <2>4, <2>6, <2>7
<1> HIDE DEF w, e, dmas, t
<1>12. t1 \in PortState
  BY <1>8, <1>10, Sets
<1>13. t2 \in PortState
  <2> HIDE DEF t1
  <2> QED BY <1>7, <1>12, Sets
<1>14. Keeps(t2, w, Ports) /\ t2.sram = w.sram /\ t2.barrier = w.barrier /\ t2.dma = dmas
  BY <1>10 DEF PortState, Keeps, Ports, Memories
<1>15. Keeps(t2, w, Roots)
  BY <1>10 DEF PortState, Keeps, Roots
<1> HIDE DEF t2
<1>16. Kind(t2)
  BY <1>9, <1>13, <1>15, KeepsKind
<1>17. dmas = [s.dma EXCEPT ![c].offset = at]
  BY DEF dmas, e, d
<1> QED BY <1>1, <1>2, <1>4, <1>8a, <1>10, <1>11, <1>14, <1>16, <1>17 DEF t, d, a, r, w, at, Transfers

Kinds == {s \in PortState : Derived(s)}

\* The bytes of a transfer, one after the other, as run_dma_channel moves them.
Move(at, c, i) == IF at.barrier = 1 THEN at ELSE TransferByte(at, c, i)
Moved(s, c) ==
  LET moved[n \in Nat] ==
        IF n = 0 THEN s
        ELSE LET at == moved[n - 1]
             IN IF at.barrier = 1 THEN at ELSE TransferByte(at, c, n - 1)
  IN moved

\* The bytes of a transfer, one after the other.
LEMMA MovedIs ==
  ASSUME NEW s, Kind(s), NEW c \in DmaChannels
  PROVE  /\ Moved(s, c)[0] = s
         /\ \A n \in Nat : Kind(Moved(s, c)[n]) /\ Moved(s, c)[n + 1] = Move(Moved(s, c)[n], c, n)
<1> DEFINE G == [x \in Kinds |-> [n \in Nat |-> Move(x, c, n)]]
<1>1. G \in [Kinds -> [Nat -> Kinds]]
  <2>1. ASSUME NEW x \in Kinds, NEW n \in Nat PROVE Move(x, c, n) \in Kinds
    <3>1. Kind(x)
      BY DEF Kinds, Kind
    <3>2. Kind(TransferByte(x, c, n))
      BY <3>1, Transfer DEF Transfers
    <3>3. Kind(Move(x, c, n))
      BY <3>1, <3>2 DEF Move
    <3> QED BY <3>3 DEF Kinds, Kind
  <2> QED BY <2>1
<1>2. \A x \in Kinds, n \in Nat : G[x][n] = Move(x, c, n)
  OBVIOUS
<1>3. s \in Kinds
  BY DEF Kinds, Kind
<1> HIDE DEF G
<1>4. PICK f : Endless(f, G, s, Kinds)
  <2>1. Stepping(G, Kinds)
    BY <1>1 DEF Stepping
  <2> QED BY <1>3, <2>1, Recursion
<1>5. ASSUME NEW n \in Nat PROVE f[n + 1] = Move(f[n], c, n) /\ f[n] \in Kinds
  BY <1>2, <1>4 DEF Endless
<1>6. ASSUME NEW n \in Nat PROVE f[n] = IF n = 0 THEN s ELSE Move(f[n - 1], c, n - 1)
  <2>1. n = 0 \/ (n - 1 \in Nat /\ (n - 1) + 1 = n)
    OBVIOUS
  <2> QED BY <1>4, <1>5, <2>1 DEF Endless
<1>7. f = [n \in Nat |-> IF n = 0 THEN s ELSE Move(f[n - 1], c, n - 1)]
  BY <1>4, <1>6 DEF Endless
<1> DEFINE g == Moved(s, c)
<1>8. g = [n \in Nat |-> IF n = 0 THEN s ELSE Move(g[n - 1], c, n - 1)]
  BY <1>7 DEF Moved, Move
<1> HIDE DEF g
<1>9. g[0] = s
  <2>1. 0 \in Nat
    OBVIOUS
  <2> QED BY <1>8, <2>1
<1>10. ASSUME NEW n \in Nat PROVE g[n + 1] = Move(g[n], c, n)
  <2>1. n + 1 \in Nat /\ n + 1 # 0 /\ (n + 1) - 1 = n
    OBVIOUS
  <2>2. g[n + 1] = Move(g[(n + 1) - 1], c, (n + 1) - 1)
    BY <1>8, <2>1
  <2> QED BY <2>1, <2>2
<1>11. \A n \in Nat : g[n] \in Kinds
  <2> DEFINE T == {n \in Nat : g[n] \in Kinds}
  <2>1. 0 \in T
    BY <1>3, <1>9
  <2>2. ASSUME NEW n \in Nat, n \in T PROVE n + 1 \in T
    <3>1. g[n] \in Kinds /\ G[g[n]] \in [Nat -> Kinds]
      BY <1>1, <2>2
    <3>2. G[g[n]][n] \in Kinds /\ G[g[n]][n] = Move(g[n], c, n)
      BY <1>2, <3>1
    <3> QED BY <1>10, <3>2
  <2>3. Nat \subseteq T
    <3> HIDE DEF T
    <3> QED BY <2>1, <2>2, Induction
  <2> QED BY <2>3
<1> QED BY <1>9, <1>10, <1>11 DEF Kinds, Kind, g

\* What a channel leaves behind: its size is nought.
LEMMA ChannelRuns ==
  ASSUME NEW s, Kind(s), NEW c \in DmaChannels
  PROVE  LET ended == IF s.dma[c].reverse = 1 THEN [s EXCEPT !.barrier = 1]
                      ELSE Moved(s, c)[Amount(s.dma[c].size)]
         IN /\ Kind(ended) /\ Kind(run_dma_channel(s, c))
            /\ run_dma_channel(s, c) = [ended EXCEPT !.dma[c].size = 0]
            /\ Keeps(run_dma_channel(s, c), ended, Memories \cup {"sram", "barrier"})
            /\ run_dma_channel(s, c).dma[c].size = 0
<1> DEFINE d == s.dma[c]
           m == Amount(d.size)
           ended == IF d.reverse = 1 THEN [s EXCEPT !.barrier = 1] ELSE Moved(s, c)[m]
           t == run_dma_channel(s, c)
           e == [ended.dma[c] EXCEPT !.size = 0]
           dmas == [ended.dma EXCEPT ![c] = e]
           t2 == [ended EXCEPT !.dma = dmas]
<1>0. s \in PortState /\ d \in DmaSetup
  BY DEF Kind, PortState
<1>1. m \in Nat
  <2>1. d.size \in Word
    BY <1>0 DEF DmaSetup
  <2> QED BY <2>1, Sizes DEF Amount
<1> HIDE DEF m
<1>2. Kind(ended)
  <2>1. CASE d.reverse = 1
    <3> DEFINE t1 == [s EXCEPT !.barrier = 1]
    <3>1. 1 \in 0 .. 1
      OBVIOUS
    <3>2. t1 \in PortState
      BY <1>0, <3>1, Sets
    <3>3. Keeps(t1, s, Roots)
      BY <1>0 DEF PortState, Keeps, Roots
    <3> HIDE DEF t1
    <3>4. Kind(t1)
      BY <3>2, <3>3, KeepsKind
    <3> QED BY <2>1, <3>4 DEF t1
  <2>2. CASE d.reverse # 1
    BY <1>1, <2>2, MovedIs
  <2> QED BY <2>1, <2>2
<1>3. t = [ended EXCEPT !.dma[c].size = 0]
  BY DEF run_dma_channel, Moved, m
<1> HIDE DEF t, ended
<1>4. ended \in PortState /\ ended.dma \in [DmaChannels -> DmaSetup]
  BY <1>2 DEF Kind, PortState
<1>5. e \in DmaSetup
  <2>1. ended.dma[c] \in DmaSetup /\ 0 \in Word
    BY <1>4, Sizes
  <2> QED BY <2>1 DEF DmaSetup
<1>6. dmas \in [DmaChannels -> DmaSetup] /\ dmas[c].size = 0
  <2>1. dmas[c] = e
    BY <1>4
  <2>2. e.size = 0
    <3>1. ended.dma[c] \in DmaSetup
      BY <1>4
    <3> QED BY <3>1 DEF DmaSetup
  <2> HIDE DEF e
  <2> QED BY <1>4, <1>5, <2>1, <2>2
<1>7. t = t2
  BY <1>3
<1> HIDE DEF dmas
<1>8. t2 \in PortState
  BY <1>4, <1>6, Sets
<1>9. Keeps(t2, ended, Memories \cup {"sram", "barrier"}) /\ t2.dma = dmas
  BY <1>4 DEF PortState, Keeps, Memories
<1>10. Keeps(t2, ended, Roots)
  BY <1>4 DEF PortState, Keeps, Roots
<1> HIDE DEF t2
<1>11. Kind(t2)
  BY <1>2, <1>8, <1>10, KeepsKind
<1> QED BY <1>2, <1>3, <1>6, <1>7, <1>9, <1>11 DEF t, ended, m, d

\* The channels, one after the other, as run_dma takes them.
OneTurn(at, channels, k) == IF k \in channels /\ at.barrier = 0 THEN run_dma_channel(at, k) ELSE at
TurnsRun(s, channels) ==
  LET after[n \in Nat] ==
        IF n = 0 THEN s
        ELSE LET at == after[n - 1]
             IN IF n - 1 \in channels /\ at.barrier = 0
                THEN run_dma_channel(at, n - 1) ELSE at
  IN after

\* The channels, one after the other.
LEMMA TurnsAre ==
  ASSUME NEW s, Kind(s), NEW channels \in SUBSET DmaChannels
  PROVE  /\ TurnsRun(s, channels)[0] = s
         /\ \A n \in Nat : /\ Kind(TurnsRun(s, channels)[n])
                           /\ TurnsRun(s, channels)[n + 1] = OneTurn(TurnsRun(s, channels)[n], channels, n)
<1> DEFINE G == [x \in Kinds |-> [n \in Nat |-> OneTurn(x, channels, n)]]
<1>1. G \in [Kinds -> [Nat -> Kinds]]
  <2>1. ASSUME NEW x \in Kinds, NEW n \in Nat PROVE OneTurn(x, channels, n) \in Kinds
    <3>1. Kind(x)
      BY DEF Kinds, Kind
    <3>2. CASE n \in channels
      <4>1. n \in DmaChannels
        BY <3>2
      <4>2. Kind(run_dma_channel(x, n))
        BY <3>1, <4>1, ChannelRuns
      <4> QED BY <3>1, <4>2 DEF OneTurn, Kinds, Kind
    <3>3. CASE n \notin channels
      BY <3>1, <3>3 DEF OneTurn
    <3> QED BY <3>2, <3>3
  <2> QED BY <2>1
<1>2. \A x \in Kinds, n \in Nat : G[x][n] = OneTurn(x, channels, n)
  OBVIOUS
<1>3. s \in Kinds
  BY DEF Kinds, Kind
<1> HIDE DEF G
<1>4. PICK f : Endless(f, G, s, Kinds)
  <2>1. Stepping(G, Kinds)
    BY <1>1 DEF Stepping
  <2> QED BY <1>3, <2>1, Recursion
<1>5. ASSUME NEW n \in Nat PROVE f[n + 1] = OneTurn(f[n], channels, n) /\ f[n] \in Kinds
  BY <1>2, <1>4 DEF Endless
<1>6. ASSUME NEW n \in Nat PROVE f[n] = IF n = 0 THEN s ELSE OneTurn(f[n - 1], channels, n - 1)
  <2>1. n = 0 \/ (n - 1 \in Nat /\ (n - 1) + 1 = n)
    OBVIOUS
  <2> QED BY <1>4, <1>5, <2>1 DEF Endless
<1>7. f = [n \in Nat |-> IF n = 0 THEN s ELSE OneTurn(f[n - 1], channels, n - 1)]
  BY <1>4, <1>6 DEF Endless
<1> DEFINE g == TurnsRun(s, channels)
<1>8. g = [n \in Nat |-> IF n = 0 THEN s ELSE OneTurn(g[n - 1], channels, n - 1)]
  BY <1>7 DEF TurnsRun, OneTurn
<1> HIDE DEF g
<1>9. g[0] = s
  <2>1. 0 \in Nat
    OBVIOUS
  <2> QED BY <1>8, <2>1
<1>10. ASSUME NEW n \in Nat PROVE g[n + 1] = OneTurn(g[n], channels, n)
  <2>1. n + 1 \in Nat /\ n + 1 # 0 /\ (n + 1) - 1 = n
    OBVIOUS
  <2>2. g[n + 1] = OneTurn(g[(n + 1) - 1], channels, (n + 1) - 1)
    BY <1>8, <2>1
  <2> QED BY <2>1, <2>2
<1>11. \A n \in Nat : g[n] \in Kinds
  <2> DEFINE T == {n \in Nat : g[n] \in Kinds}
  <2>1. 0 \in T
    BY <1>3, <1>9
  <2>2. ASSUME NEW n \in Nat, n \in T PROVE n + 1 \in T
    <3>1. g[n] \in Kinds /\ G[g[n]] \in [Nat -> Kinds]
      BY <1>1, <2>2
    <3>2. G[g[n]][n] \in Kinds /\ G[g[n]][n] = OneTurn(g[n], channels, n)
      BY <1>2, <3>1
    <3> QED BY <1>10, <3>2
  <2>3. Nat \subseteq T
    <3> HIDE DEF T
    <3> QED BY <2>1, <2>2, Induction
  <2> QED BY <2>3
<1> QED BY <1>9, <1>10, <1>11 DEF Kinds, Kind, g

\* run_dma keeps the types and the derived values.
LEMMA DmaRuns ==
  ASSUME NEW s, Kind(s), NEW channels \in SUBSET DmaChannels
  PROVE  run_dma(s, channels) = TurnsRun(s, channels)[8] /\ Kind(run_dma(s, channels))
<1>1. run_dma(s, channels) = TurnsRun(s, channels)[8]
  BY DEF run_dma, TurnsRun
<1> QED BY <1>1, TurnsAre

-----------------------------------------------------------------------------
(* What the program does keeps the types.                                  *)

\* Driving the bus disturbs no port.
LEMMA OpenSet ==
  ASSUME NEW s, Kind(s), NEW v \in Byte
  PROVE  LET t == [s EXCEPT !.open = v]
         IN /\ Kind(t) /\ t.open = v
            /\ Keeps(t, s, Ports \cup {"sram", "dma", "barrier"})
<1> DEFINE t == [s EXCEPT !.open = v]
<1>0. s \in PortState
  BY DEF Kind
<1>1. t \in PortState
  BY <1>0, Sets
<1>2. Keeps(t, s, Ports \cup {"sram", "dma", "barrier"}) /\ t.open = v
  BY <1>0 DEF PortState, Keeps, Ports, Memories
<1>3. Keeps(t, s, Roots)
  BY <1>0 DEF PortState, Keeps, Roots
<1> HIDE DEF t
<1>4. Kind(t)
  BY <1>1, <1>3, KeepsKind
<1> QED BY <1>2, <1>4 DEF t

\* Nor does a store to memory.
LEMMA StoredByte ==
  ASSUME NEW s, Kind(s), NEW a \in Address, NEW v \in Byte
  PROVE  Kind(dkc2_bus_write8(s, a, v))
<1> DEFINE d == [s EXCEPT !.open = v]
           w == [d.wram EXCEPT ![wram_offset(a)] = v]
           m == [d.sram EXCEPT ![sram_offset(a)] = v]
           region == dkc2_bus_region_for(a)
<1>1. Kind(d) /\ d \in PortState
  BY OpenSet DEF Kind
<1> HIDE DEF d
<1>2. d.wram \in [0 .. WramSize - 1 -> Byte] /\ d.sram \in [0 .. SramSize - 1 -> Byte]
  BY <1>1 DEF PortState
<1>3. w \in [0 .. WramSize - 1 -> Byte] /\ m \in [0 .. SramSize - 1 -> Byte]
  BY <1>2
<1> HIDE DEF w, m
<1> DEFINE t1 == [d EXCEPT !.wram = w]
           t2 == [d EXCEPT !.sram = m]
           t3 == [d EXCEPT !.barrier = 1]
<1>4. t1 \in PortState /\ t2 \in PortState /\ t3 \in PortState
  <2>1. 1 \in 0 .. 1
    OBVIOUS
  <2>2. t1 \in PortState
    BY <1>1, <1>3, Sets
  <2>3. t2 \in PortState
    BY <1>1, <1>3, Sets
  <2>4. t3 \in PortState
    BY <1>1, <2>1, Sets
  <2> QED BY <2>2, <2>3, <2>4
<1>5. Keeps(t1, d, Roots) /\ Keeps(t2, d, Roots) /\ Keeps(t3, d, Roots)
  BY <1>1 DEF PortState, Keeps, Roots
<1>6. dkc2_bus_write8(s, a, v) \in {t1, t2, t3, d}
  <2>1. region \in {"WRAM", "SRAM", "ROM", "IO", "OPEN"}
    BY RegionIs
  <2>2. CASE region = "WRAM"
    <3>1. dkc2_bus_write8(s, a, v) = [d EXCEPT !.wram[wram_offset(a)] = v]
      BY <2>2 DEF dkc2_bus_write8, d
    <3>2. [d EXCEPT !.wram[wram_offset(a)] = v] = t1
      BY DEF w
    <3> QED BY <3>1, <3>2
  <2>3. CASE region = "SRAM"
    <3>1. dkc2_bus_write8(s, a, v) = [d EXCEPT !.sram[sram_offset(a)] = v]
      BY <2>3 DEF dkc2_bus_write8, d
    <3>2. [d EXCEPT !.sram[sram_offset(a)] = v] = t2
      BY DEF m
    <3> QED BY <3>1, <3>2
  <2>4. CASE region = "IO"
    BY <2>4 DEF dkc2_bus_write8, d
  <2>5. CASE region \in {"ROM", "OPEN"}
    BY <2>5 DEF dkc2_bus_write8, d
  <2> QED BY <2>1, <2>2, <2>3, <2>4, <2>5
<1> HIDE DEF t1, t2, t3
<1>7. Kind(t1) /\ Kind(t2) /\ Kind(t3)
  BY <1>1, <1>4, <1>5, KeepsKind
<1> QED BY <1>1, <1>6, <1>7

\* A load from $2180 moves its address.
LEMMA Loaded ==
  ASSUME NEW s, Kind(s)
  PROVE  Kind(StepWram([s EXCEPT !.open = s.wram[s.wramAt]]))
<1> DEFINE v == s.wram[s.wramAt]
           d == [s EXCEPT !.open = v]
           at == (d.wramAt + 1) % WramSize
           t == [d EXCEPT !.wramAt = at]
<1>0. s \in PortState /\ v \in Byte
  <2>1. s \in PortState /\ s.wram \in [0 .. WramSize - 1 -> Byte] /\ s.wramAt \in 0 .. WramSize - 1
    BY DEF Kind, PortState
  <2> QED BY <2>1
<1> HIDE DEF v
<1>1. Kind(d) /\ d \in PortState
  BY <1>0, OpenSet DEF Kind
<1> HIDE DEF d
<1>2. at \in 0 .. WramSize - 1
  <2> DEFINE x == d.wramAt + 1
  <2>1. x \in Int /\ WramSize \in Nat \ {0}
    <3>1. d.wramAt \in 0 .. WramSize - 1
      BY <1>1 DEF PortState
    <3> QED BY <3>1, Sizes
  <2> HIDE DEF x
  <2>2. x % WramSize \in 0 .. WramSize - 1
    BY <2>1, Divided
  <2> QED BY <2>2 DEF x
<1> HIDE DEF at
<1>3. t \in PortState
  BY <1>1, <1>2, Sets
<1>4. Keeps(t, d, Roots)
  BY <1>1 DEF PortState, Keeps, Roots
<1>5. t = StepWram(d)
  BY DEF StepWram, at
<1> HIDE DEF t
<1>6. Kind(t)
  BY <1>1, <1>3, <1>4, KeepsKind
<1> QED BY <1>5, <1>6 DEF d, v

\* Setting up a channel leaves the rest alone.
LEMMA ChannelSet ==
  ASSUME NEW s, Kind(s), NEW c \in DmaChannels, NEW d \in DmaSetup, NEW v \in Byte
  PROVE  Kind([s EXCEPT !.dma[c] = d, !.open = v])
<1> DEFINE dmas == [s.dma EXCEPT ![c] = d]
           t1 == [s EXCEPT !.dma = dmas]
           t2 == [t1 EXCEPT !.open = v]
<1>0. s \in PortState /\ s.dma \in [DmaChannels -> DmaSetup]
  BY DEF Kind, PortState
<1>1. dmas \in [DmaChannels -> DmaSetup]
  BY <1>0
<1>2. [s EXCEPT !.dma[c] = d, !.open = v] = t2
  OBVIOUS
<1> HIDE DEF dmas
<1>3. t1 \in PortState
  BY <1>0, <1>1, Sets
<1>4. Keeps(t1, s, Roots)
  BY <1>0 DEF PortState, Keeps, Roots
<1> HIDE DEF t1
<1>5. Kind(t1)
  BY <1>3, <1>4, KeepsKind
<1>6. Kind(t2)
  BY <1>5, OpenSet
<1> QED BY <1>2, <1>6

\* Every access of the program.
PortsInv == Kind(con) /\ accesses \in 0 .. MaxAccesses

AnyAccess == PortsNext((0 .. 255) \X Byte, Address \X Byte, Byte)

\* An access is counted and never beyond the bound.
LEMMA AccessCounted ==
  ASSUME PortsInv, NEW next, Access(next), Kind(next)
  PROVE  PortsInv'
<1>1. accesses' = accesses + 1 /\ accesses < MaxAccesses /\ MaxAccesses \in Nat
  BY PortAssumption DEF Access
<1> QED BY <1>1 DEF Access, PortsInv

\* Every access keeps the invariant.
LEMMA PortsStep ==
  ASSUME PortsInv, [AnyAccess]_portVars
  PROVE  PortsInv'
<1>0. Kind(con)
  BY DEF PortsInv
<1>1. ASSUME NEW w \in (0 .. 255) \X Byte, StorePort(w[1], w[2]) PROVE PortsInv'
  <2>1. w[1] \in Int /\ w[2] \in Byte
    OBVIOUS
  <2> DEFINE t == ppu_write(con, w[1], w[2])
  <2>2. Kind(t)
    BY <1>0, <2>1, PortWrite
  <2> HIDE DEF t
  <2>3. Kind([t EXCEPT !.open = w[2]])
    BY <2>1, <2>2, OpenSet
  <2>4. Access([t EXCEPT !.open = w[2]])
    BY <1>1 DEF StorePort, t
  <2> QED BY <2>3, <2>4, AccessCounted
<1>2. ASSUME NEW w \in Address \X Byte, StoreByte(w[1], w[2]) PROVE PortsInv'
  <2>1. w[1] \in Address /\ w[2] \in Byte
    OBVIOUS
  <2>2. Kind(dkc2_bus_write8(con, w[1], w[2]))
    BY <1>0, <2>1, StoredByte
  <2> QED BY <1>2, <2>2, AccessCounted DEF StoreByte
<1>3. ASSUME NEW c \in DmaChannels, NEW d \in DmaSetups, SetUpChannel(c, d) PROVE PortsInv'
  <2>1. d \in DmaSetup /\ d.size \div ByteRange \in Byte
    <3>1. d \in DmaSetup
      BY PortAssumption
    <3>2. d.size \in Word
      BY <3>1 DEF DmaSetup
    <3> QED BY <3>1, <3>2, Split
  <2>2. Kind([con EXCEPT !.dma[c] = d, !.open = d.size \div ByteRange])
    BY <1>0, <2>1, ChannelSet
  <2> QED BY <1>3, <2>2, AccessCounted DEF SetUpChannel
<1>4. ASSUME NEW v \in Byte, StartDma(v) PROVE PortsInv'
  <2>1. Kind([con EXCEPT !.open = v])
    BY <1>0, OpenSet
  <2>2. Selected(v) \in SUBSET DmaChannels
    BY DEF Selected
  <2>3. Kind(run_dma([con EXCEPT !.open = v], Selected(v)))
    BY <2>1, <2>2, DmaRuns
  <2> QED BY <1>4, <2>3, AccessCounted DEF StartDma
<1>5. CASE LoadWmdata
  BY <1>0, <1>5, Loaded, AccessCounted DEF LoadWmdata
<1>6. CASE UNCHANGED portVars
  BY <1>6 DEF portVars, PortsInv, Kind, Derived, ProductOf
<1> QED BY <1>1, <1>2, <1>3, <1>4, <1>5, <1>6 DEF AnyAccess, PortsNext

\* The reset state has it.
LEMMA PortsBegin ==
  ASSUME PortsInit
  PROVE  PortsInv
<1>1. 0 \in Byte /\ 0 \in Word /\ 0 \in 0 .. WramSize - 1 /\ 0 \in 0 .. 2 * ByteRange - 1 /\ 0 \in 0 .. 1
  BY Sizes
<1>2. \A c \in DmaChannels : (CHOOSE d \in DmaSetups : TRUE) \in DmaSetup
  BY PortAssumption
<1>3. con \in PortState
  <2> DEFINE d == CHOOSE d \in DmaSetups : TRUE
  <2>1. d \in DmaSetup
    BY PortAssumption
  <2> HIDE DEF d
  <2> DEFINE wram == [a \in 0 .. WramSize - 1 |-> 0]
             sram == [a \in 0 .. SramSize - 1 |-> 0]
             vram == [a \in 0 .. WordRange - 1 |-> 0]
             cgram == [a \in 0 .. 2 * ByteRange - 1 |-> 0]
             oam == [a \in 0 .. OamSize - 1 |-> 0]
             back == [b \in 0 .. 3 |-> 0]
             m7 == [p \in 27 .. 32 |-> 0]
             dma == [c \in DmaChannels |-> d]
  <2>2. /\ wram \in [0 .. WramSize - 1 -> Byte] /\ sram \in [0 .. SramSize - 1 -> Byte]
        /\ vram \in [Word -> Byte] /\ cgram \in [0 .. 2 * ByteRange - 1 -> Byte]
        /\ oam \in [0 .. OamSize - 1 -> Byte] /\ back \in [0 .. 3 -> Word]
        /\ m7 \in [27 .. 32 -> Word] /\ dma \in [DmaChannels -> DmaSetup]
    BY <1>1, <2>1, Sizes
  <2>3. con = [wram |-> wram, sram |-> sram, open |-> 0, barrier |-> 0, wramAt |-> 0,
              vram |-> vram, vramAt |-> 0, vmain |-> 0,
              cgram |-> cgram, cgramAt |-> 0, cgramHigh |-> 0,
              oam |-> oam, oamAt |-> 0, oamHigh |-> 0, oamLatch |-> 0,
              rotates |-> 0, first |-> 0,
              hofs |-> back, vofs |-> back, scrollLatch |-> 0,
              m7h |-> 0, m7v |-> 0, m7 |-> m7, latch |-> 0, product |-> 0, dma |-> dma]
    BY DEF PortsInit, d
  <2> HIDE DEF wram, sram, vram, cgram, oam, back, m7, dma
  <2> QED BY <1>1, <2>2, <2>3 DEF PortState
<1>4. con.m7[27] = 0 /\ con.m7[28] = 0 /\ con.product = 0 /\ con.rotates = 0 /\ con.first = 0
  BY DEF PortsInit
<1>5. Derived(con)
  <2>1. Signed(0, WordRange) = 0
    BY Sizes DEF Signed
  <2>2. 0 \div ByteRange = 0
    BY Sizes, ModSame
  <2>3. Signed(0, ByteRange) = 0
    BY Sizes DEF Signed
  <2> QED BY <1>4, <2>1, <2>2, <2>3 DEF Derived, ProductOf
<1>6. accesses \in 0 .. MaxAccesses
  BY PortAssumption DEF PortsInit
<1> QED BY <1>3, <1>5, <1>6 DEF PortsInv, Kind

\* The invariant holds throughout.
LEMMA PortsInvariant == PortsSpec => []PortsInv
<1>1. PortsInit => PortsInv
  BY PortsBegin
<1>2. PortsInv /\ [AnyAccess]_portVars => PortsInv'
  BY PortsStep
<1> QED BY <1>1, <1>2, PTL DEF PortsSpec, AnyAccess

\* Whatever a program stores to the ports and to memory, however it sets the channels up and
\* whichever it starts, every register keeps its width and every index stays in its memory
\* (the ports of snes_io.c and its general DMA).
THEOREM PortsTypeCorrect == PortsSpec => []PortsTypeOK
<1>1. PortsInv => PortsTypeOK
  BY DEF PortsInv, PortsTypeOK, Kind
<1> QED BY <1>1, PortsInvariant, PTL

\* The two bytes of a scroll are one word.
LEMMA ScrollPair ==
  ASSUME NEW s, Kind(s), NEW p \in 13 .. 20, NEW low \in Byte, NEW high \in Byte
  PROVE  LET r == write_bg_scroll(write_bg_scroll(s, p, low), p, high)
             word == high * ByteRange + low
         IN /\ p % 2 = 1 => r.hofs[(p - 13) \div 2] = word
            /\ p % 2 # 1 => r.vofs[(p - 13) \div 2] = word
<1> DEFINE b == (p - 13) \div 2
           a == write_bg_scroll(s, p, low)
           r == write_bg_scroll(a, p, high)
           x == (s.scrollLatch \div Fine) * Fine + ((s.hofs[b] \div ByteRange) % Fine)
<1>1. b \in 0 .. 3
  OBVIOUS
<1>2a. ScrollWrites(a, s, p, low)
  BY Scroll
<1> HIDE DEF a
<1>2. Kind(a) /\ a.scrollLatch = low
  BY <1>2a DEF ScrollWrites
<1>3. p % 2 = 1 => a.hofs = [s.hofs EXCEPT ![b] = low * ByteRange + x]
  BY <1>2a DEF ScrollWrites
<1>3a. ScrollWrites(r, a, p, high)
  BY <1>2, Scroll
<1>4. p % 2 = 1 => r.hofs = [a.hofs EXCEPT ![b] = high * ByteRange
                     + ((a.scrollLatch \div Fine) * Fine + ((a.hofs[b] \div ByteRange) % Fine))]
  BY <1>3a DEF ScrollWrites
<1>5. p % 2 # 1 => r.vofs = [a.vofs EXCEPT ![b] = high * ByteRange + a.scrollLatch]
  BY <1>3a DEF ScrollWrites
<1>6. s.hofs \in [0 .. 3 -> Word] /\ s.scrollLatch \in Byte
  BY DEF Kind, PortState
<1>7. a.hofs \in [0 .. 3 -> Word] /\ a.vofs \in [0 .. 3 -> Word]
  BY <1>2 DEF Kind, PortState
<1> HIDE DEF b
<1>8. CASE p % 2 = 1
  <2>1. x \in Byte
    <3>1. s.hofs[b] \div ByteRange \in Byte
      BY <1>1, <1>6, Split
    <3> QED BY <1>6, <3>1, FineFits
  <2> HIDE DEF x
  <2>2. a.hofs[b] = low * ByteRange + x
    BY <1>1, <1>3, <1>6, <1>8
  <2>3. a.hofs[b] \div ByteRange = low
    BY <2>1, <2>2, Joined
  <2>4. (low \div Fine) * Fine + (low % Fine) = low
    BY FineFits
  <2>5. r.hofs[b] = high * ByteRange + low
    BY <1>1, <1>2, <1>4, <1>7, <1>8, <2>3, <2>4
  <2> QED BY <1>8, <2>5 DEF b, r, a
<1>9. CASE p % 2 # 1
  <2>1. r.vofs[b] = high * ByteRange + low
    BY <1>1, <1>2, <1>5, <1>7, <1>9
  <2> QED BY <1>9, <2>1 DEF b, r, a
<1> QED BY <1>8, <1>9

\* So are those of an element of the matrix.
LEMMA MatrixPair ==
  ASSUME NEW s, Kind(s), NEW p \in 27 .. 32, NEW low \in Byte, NEW high \in Byte
  PROVE  write_mode7_matrix(write_mode7_matrix(s, p, low), p, high).m7[p] = high * ByteRange + low
<1> DEFINE a == write_mode7_matrix(s, p, low)
           r == write_mode7_matrix(a, p, high)
<1>1. Kind(a) /\ a.latch = low
  <2>1. MatrixWrites(a, s, p, low)
    BY Matrix
  <2> HIDE DEF a
  <2> QED BY <2>1 DEF MatrixWrites
<1> HIDE DEF a
<1>2. r.m7 = [a.m7 EXCEPT ![p] = a.latch + high * ByteRange]
  <2>1. MatrixWrites(r, a, p, high)
    BY <1>1, Matrix
  <2> HIDE DEF r
  <2> QED BY <2>1 DEF MatrixWrites
<1> HIDE DEF r
<1>3. a.m7 \in [27 .. 32 -> Word]
  BY <1>1 DEF Kind, PortState
<1>4. low + high * ByteRange = high * ByteRange + low
  BY Sizes
<1>5. r.m7[p] = low + high * ByteRange
  BY <1>1, <1>2, <1>3
<1> QED BY <1>4, <1>5 DEF r, a

\* Both bytes of a register are one word, in every state.
LEMMA PairsAlwaysWhole ==
  ASSUME NEW s, Kind(s), NEW ports, ports \subseteq 13 .. 20 \cup 27 .. 32, NEW values, values \subseteq Byte
  PROVE  PairsAreWhole(s, ports, values)
<1> SUFFICES ASSUME NEW p \in ports, NEW low \in values, NEW high \in values
             PROVE  LET r == Write(Write(s, p, low), p, high)
                        word == high * ByteRange + low
                    IN CASE p \in 13 .. 20 /\ p % 2 = 1 -> r.hofs[(p - 13) \div 2] = word
                         [] p \in 13 .. 20 /\ p % 2 = 0 -> r.vofs[(p - 13) \div 2] = word
                         [] OTHER -> r.m7[p] = word
  BY DEF PairsAreWhole
<1>0. low \in Byte /\ high \in Byte /\ (p \in 13 .. 20 \/ p \in 27 .. 32)
  OBVIOUS
<1>1. CASE p \in 13 .. 20
  <2> DEFINE r == write_bg_scroll(write_bg_scroll(s, p, low), p, high)
  <2>1. Write(Write(s, p, low), p, high) = r
    BY <1>1 DEF Write, ppu_write
  <2>2. /\ p % 2 = 1 => r.hofs[(p - 13) \div 2] = high * ByteRange + low
        /\ p % 2 # 1 => r.vofs[(p - 13) \div 2] = high * ByteRange + low
    BY <1>0, <1>1, ScrollPair
  <2>3. p % 2 \in 0 .. 1
    BY <1>1
  <2> HIDE DEF r
  <2> QED BY <1>1, <2>1, <2>2, <2>3
<1>2. CASE p \in 27 .. 32
  <2> DEFINE r == write_mode7_matrix(write_mode7_matrix(s, p, low), p, high)
  <2>1. Write(Write(s, p, low), p, high) = r
    BY <1>2 DEF Write, ppu_write
  <2>2. r.m7[p] = high * ByteRange + low
    BY <1>0, <1>2, MatrixPair
  <2>3. ~ p \in 13 .. 20
    BY <1>2
  <2> HIDE DEF r
  <2> QED BY <2>1, <2>2, <2>3
<1> QED BY <1>0, <1>1, <1>2

-----------------------------------------------------------------------------
(* An upload.  First the address is chosen.                                *)

\* What an upload consists of.
LEMMA UploadParts ==
  ASSUME NEW u \in Uploadable
  PROVE  /\ u.to \in {"oam", "cgram", "vram", "wram"} /\ u.start \in 0 .. WramSize - 1
         /\ u.control \in Byte /\ u.bank \in 0 .. 255 /\ u.from \in 0 .. BankLength - 1
         /\ u.down \in 0 .. 1 /\ u.size \in Word /\ Sourced(u)
         /\ u.to = "oam" => u.start \in 0 .. 2 * ByteRange - 1 /\ Amount(u.size) % 2 = 0
         /\ u.to = "cgram" => u.start \in Byte
         /\ u.to = "vram" => u.start \in Word /\ Controls[u.control].afterHigh = 1
<1>1. /\ u.to \in {"oam", "cgram", "vram", "wram"} /\ u.start \in 0 .. WramSize - 1
      /\ u.control \in Byte /\ u.bank \in 0 .. 255 /\ u.from \in 0 .. BankLength - 1
      /\ u.down \in 0 .. 1 /\ u.size \in Word /\ Sourced(u)
      /\ u.to = "oam" => u.start < 2 * ByteRange /\ Amount(u.size) % 2 = 0
      /\ u.to = "cgram" => u.start < ByteRange
      /\ u.to = "vram" => u.start < WordRange /\ Controls[u.control].afterHigh = 1
  BY DEF Uploadable
<1>2. u.start \in Nat
  BY <1>1
<1>3. ByteRange \in Nat /\ 2 * ByteRange \in Nat /\ WordRange \in Nat
      /\ Byte = 0 .. ByteRange - 1 /\ Word = 0 .. WordRange - 1
  BY Sizes
<1>4. \A r \in Nat : u.start < r => u.start \in 0 .. r - 1
  BY <1>2
<1> QED BY <1>1, <1>3, <1>4

\* What choosing the address of an upload leaves.
Addressed(a, s, u) ==
  /\ Kind(a) /\ Keeps(a, s, BusFields \cup Memories)
  /\ u.to = "oam" => a.oamAt = u.start /\ a.oamHigh = 0
  /\ u.to = "cgram" => a.cgramAt = u.start /\ a.cgramHigh = 0
  /\ u.to = "vram" => a.vramAt = u.start /\ a.vmain = u.control
  /\ u.to = "wram" => a.wramAt = u.start

\* The address of an upload is chosen: sprites.
LEMMA OamChosen ==
  ASSUME NEW s, Kind(s), NEW u \in Uploadable, u.to = "oam"
  PROVE  Addressed(AtAddress(s, u), s, u)
<1> DEFINE low == u.start % ByteRange
           high == u.start \div ByteRange
           a == WriteOamLow(s, low)
           b == WriteOamHigh(a, high)
<1>1. AtAddress(s, u) = b
  <2>1. AtAddress(s, u) = Write(Write(s, 2, low), 3, high)
    BY DEF AtAddress
  <2> HIDE DEF low, high
  <2>2. \A x, w : /\ Write(x, 2, w) = WriteOamLow(x, w)
                 /\ Write(x, 3, w) = WriteOamHigh(x, w)
    BY DEF Write, ppu_write
  <2> QED BY <2>1, <2>2
<1>2. u.start \in 0 .. 2 * ByteRange - 1
  BY UploadParts
<1>3a. low \in Byte /\ high \in 0 .. 1 /\ u.start = high * ByteRange + low
  BY <1>2, TwoPages
<1>3b. 0 .. 1 \subseteq Byte
  BY Sizes
<1>3. low \in Byte /\ high \in 0 .. 1 /\ u.start = high * ByteRange + low /\ high \in Byte
  <2> HIDE DEF low, high
  <2> QED BY <1>3a, <1>3b
<1> HIDE DEF low, high
<1>4. Kind(a) /\ Keeps(a, s, BusFields \cup Memories) /\ a.oamAt = (s.oamAt \div ByteRange) * ByteRange + low
  BY <1>3, OamLow
<1> HIDE DEF a
<1>5. /\ Kind(b) /\ Keeps(b, a, BusFields \cup Memories) /\ b.oamHigh = 0
      /\ b.oamAt = (high % 2) * ByteRange + (a.oamAt % ByteRange)
  BY <1>3, <1>4, OamHigh
<1> HIDE DEF b
<1>6. a.oamAt % ByteRange = low
  <2>1. s.oamAt \in 0 .. 2 * ByteRange - 1
    BY DEF Kind, PortState
  <2>2. s.oamAt \div ByteRange \in 0 .. 1
    BY <2>1, TwoPages
  <2> QED BY <1>3, <1>4, <2>2, TwoPages
<1>7. high % 2 = high
  BY <1>3
<1>8. b.oamAt = u.start
  BY <1>3, <1>5, <1>6, <1>7
<1>9. Keeps(b, s, BusFields \cup Memories)
  BY <1>4, <1>5 DEF Keeps
<1> QED BY <1>1, <1>5, <1>8, <1>9 DEF Addressed

\* Colours.
LEMMA CgramChosen ==
  ASSUME NEW s, Kind(s), NEW u \in Uploadable, u.to = "cgram"
  PROVE  Addressed(AtAddress(s, u), s, u)
<1> DEFINE a == WriteCgadd(s, u.start)
<1>1. AtAddress(s, u) = a
  <2>1. AtAddress(s, u) = Write(s, 33, u.start)
    BY DEF AtAddress
  <2>2. \A w : Write(s, 33, w) = WriteCgadd(s, w)
    BY DEF Write, ppu_write
  <2> QED BY <2>1, <2>2
<1>2. u.start \in Byte
  BY UploadParts
<1>3. CgaddWrites(a, s, u.start)
  BY <1>2, Cgadd
<1> HIDE DEF a
<1> QED BY <1>1, <1>3 DEF Addressed, CgaddWrites

\* VRAM, with its control byte.
LEMMA VramChosen ==
  ASSUME NEW s, Kind(s), NEW u \in Uploadable, u.to = "vram"
  PROVE  Addressed(AtAddress(s, u), s, u)
<1> DEFINE low == u.start % ByteRange
           high == u.start \div ByteRange
           a == ppu_write(s, 21, u.control)
           b == ppu_write(a, 22, low)
           c == ppu_write(b, 23, high)
<1>1. AtAddress(s, u) = c
  BY DEF AtAddress, Write
<1>2. u.start \in Word /\ u.control \in Byte
  BY UploadParts
<1>3. low \in Byte /\ high \in Byte /\ u.start = high * ByteRange + low
  BY <1>2, Split
<1> HIDE DEF low, high
<1>4. AddressWrites(a, s, 21, u.control)
  BY <1>2, VramAddress
<1> HIDE DEF a
<1>5. Kind(a) /\ a.vmain = u.control /\ Keeps(a, s, BusFields \cup Memories)
  BY <1>4 DEF AddressWrites
<1>6. AddressWrites(b, a, 22, low)
  BY <1>3, <1>5, VramAddress
<1> HIDE DEF b
<1>7. /\ Kind(b) /\ b.vmain = u.control /\ Keeps(b, a, BusFields \cup Memories)
      /\ b.vramAt = (a.vramAt \div ByteRange) * ByteRange + low
  BY <1>5, <1>6 DEF AddressWrites
<1>8. AddressWrites(c, b, 23, high)
  BY <1>3, <1>7, VramAddress
<1> HIDE DEF c
<1>9. /\ Kind(c) /\ c.vmain = u.control /\ Keeps(c, b, BusFields \cup Memories)
      /\ c.vramAt = high * ByteRange + (b.vramAt % ByteRange)
  BY <1>7, <1>8 DEF AddressWrites
<1>10. b.vramAt % ByteRange = low
  <2>1. a.vramAt \in Word
    BY <1>5 DEF Kind, PortState
  <2>2. a.vramAt \div ByteRange \in Byte
    BY <2>1, Split
  <2> QED BY <1>3, <1>7, <2>2, Joined
<1>11. c.vramAt = u.start
  BY <1>3, <1>9, <1>10
<1>12. Keeps(c, s, BusFields \cup Memories)
  BY <1>5, <1>7, <1>9 DEF Keeps
<1> QED BY <1>1, <1>9, <1>11, <1>12 DEF Addressed

\* A work RAM address is three bytes.
LEMMA WramSplits ==
  ASSUME NEW w \in 0 .. WramSize - 1
  PROVE  /\ w % ByteRange \in Byte /\ (w \div ByteRange) % ByteRange \in Byte /\ w \div WordRange \in 0 .. 1
         /\ w = (w \div WordRange) * WordRange + ((w \div ByteRange) % ByteRange) * ByteRange + (w % ByteRange)
<1> DEFINE b == ByteRange
           q == w \div WordRange
           r == w % WordRange
           m == r \div b
           l == r % b
<1>1. b \in Nat \ {0} /\ WordRange = b * b /\ WordRange \in Nat \ {0}
  BY Sizes
<1>2. q \in 0 .. 1 /\ r \in Word /\ m \in Byte
  BY WramParts
<1>3. w = WordRange * q + r
  <2>1. w \in Int
    OBVIOUS
  <2> QED BY <1>1, <2>1, Divided
<1>4. l \in Byte /\ r = m * b + l
  BY <1>2, Split
<1>4a. Byte = 0 .. b - 1
  BY Sizes
<1> HIDE DEF b, q, r, m, l
<1> DEFINE k == b * q + m
<1>5. w = b * k + l /\ k \in Int
  <2>1. WordRange * q = b * (b * q)
    BY <1>1, <1>2
  <2>2. b * k = b * (b * q) + b * m
    BY <1>1, <1>2, <1>4a
  <2>3. m * b = b * m /\ b * (b * q) \in Int /\ b * m \in Int /\ m \in Int /\ l \in Int /\ b * q \in Int
    BY <1>1, <1>2, <1>4, <1>4a
  <2>4. k \in Int
    BY <2>3
  <2> HIDE DEF k
  <2> QED BY <1>3, <1>4, <2>1, <2>2, <2>3, <2>4
<1> HIDE DEF k
<1>6. w \div b = k /\ w % b = l
  BY <1>1, <1>4, <1>4a, <1>5, Unique
<1>7. k % b = m
  <2>1. q \in Int /\ m \in 0 .. b - 1
    BY <1>2, <1>4a
  <2>2. (b * q + m) % b = m
    BY <1>1, <2>1, Unique
  <2> QED BY <2>2 DEF k
<1>8. w = q * WordRange + m * b + l
  <2>1. WordRange * q = q * WordRange /\ q * WordRange \in Int /\ m * b \in Int /\ l \in Int
    BY <1>1, <1>2, <1>4, <1>4a
  <2> QED BY <1>3, <1>4, <2>1
<1> QED BY <1>2, <1>4, <1>6, <1>7, <1>8 DEF b, q

\* Work RAM.
LEMMA WramChosen ==
  ASSUME NEW s, Kind(s), NEW u \in Uploadable, u.to = "wram"
  PROVE  Addressed(AtAddress(s, u), s, u)
<1> DEFINE l == u.start % ByteRange
           m == (u.start \div ByteRange) % ByteRange
           q == u.start \div WordRange
           a == write_wram_port(s, 129, l)
           b == write_wram_port(a, 130, m)
           c == write_wram_port(b, 131, q)
           Bank(x) == x.wramAt \div WordRange
           Middle(x) == (x.wramAt % WordRange) \div ByteRange
<1>1. AtAddress(s, u) = c
  <2>1. AtAddress(s, u) = Write(Write(Write(s, 129, l), 130, m), 131, q)
    BY DEF AtAddress
  <2> HIDE DEF l, m, q
  <2>2. \A x, w : /\ Write(x, 129, w) = write_wram_port(x, 129, w)
                 /\ Write(x, 130, w) = write_wram_port(x, 130, w)
                 /\ Write(x, 131, w) = write_wram_port(x, 131, w)
    BY DEF Write, ppu_write
  <2> QED BY <2>1, <2>2
<1>2. u.start \in 0 .. WramSize - 1
  BY UploadParts
<1>3. /\ l \in Byte /\ m \in Byte /\ q \in 0 .. 1
      /\ u.start = q * WordRange + m * ByteRange + l
  BY <1>2, WramSplits
<1> HIDE DEF l, m, q
<1>3a. q \in Byte /\ q % 2 = q
  BY <1>3, Sizes
<1>4. WramWrites(a, s, 129, l)
  BY <1>3, WramPort
<1> HIDE DEF a
<1>5. /\ Kind(a) /\ Keeps(a, s, BusFields \cup {"vram", "cgram", "oam"}) /\ a.wram = s.wram
      /\ a.wramAt = Bank(s) * WordRange + Middle(s) * ByteRange + l
  BY <1>4 DEF WramWrites
<1>6. WramWrites(b, a, 130, m)
  BY <1>3, <1>5, WramPort
<1> HIDE DEF b
<1>7. /\ Kind(b) /\ Keeps(b, a, BusFields \cup {"vram", "cgram", "oam"}) /\ b.wram = a.wram
      /\ b.wramAt = Bank(a) * WordRange + m * ByteRange + (a.wramAt % ByteRange)
  BY <1>6 DEF WramWrites
<1>8. WramWrites(c, b, 131, q)
  BY <1>3a, <1>7, WramPort
<1> HIDE DEF c
<1>9. /\ Kind(c) /\ Keeps(c, b, BusFields \cup {"vram", "cgram", "oam"}) /\ c.wram = b.wram
      /\ c.wramAt = (q % 2) * WordRange + Middle(b) * ByteRange + (b.wramAt % ByteRange)
  BY <1>8 DEF WramWrites
<1>10. /\ s.wramAt \in 0 .. WramSize - 1 /\ a.wramAt \in 0 .. WramSize - 1
  BY <1>5 DEF Kind, PortState
<1>11. Bank(s) \in 0 .. 1 /\ Middle(s) \in Byte /\ Bank(a) \in 0 .. 1
  BY <1>10, WramParts
<1> HIDE DEF Bank, Middle
<1>12. a.wramAt % ByteRange = l
  BY <1>3, <1>5, <1>11, WramParts
<1>13. b.wramAt % ByteRange = l /\ Middle(b) = m
  <2>1. b.wramAt = Bank(a) * WordRange + m * ByteRange + l
    BY <1>7, <1>12
  <2> QED BY <1>3, <1>11, <2>1, WramParts DEF Middle
<1>14. c.wramAt = u.start
  BY <1>3, <1>3a, <1>9, <1>13
<1>15. Keeps(c, s, BusFields \cup Memories)
  BY <1>5, <1>7, <1>9 DEF Keeps, Memories
<1> QED BY <1>1, <1>9, <1>14, <1>15 DEF Addressed

\* Whichever memory it is for.
LEMMA AddressChosen ==
  ASSUME NEW s, Kind(s), NEW u \in Uploadable
  PROVE  Addressed(AtAddress(s, u), s, u)
<1>1. u.to \in {"oam", "cgram", "vram", "wram"}
  BY UploadParts
<1> QED BY <1>1, OamChosen, CgramChosen, VramChosen, WramChosen

-----------------------------------------------------------------------------
(* What a memory should hold, byte by byte.                                *)

Value(s, u, i) == dkc2_bus_value(s, Origin(u, i))

\* Nothing has come yet, or nothing is bound for this memory.
LEMMA ExpectedIsOld ==
  ASSUME NEW s \in PortState, NEW u, NEW m \in Memories, NEW n \in Nat, u.to # m \/ n = 0
  PROVE  Expected(s, u, m, n) = s[m]
<1>1. \A cell : n = 0 => {i \in 0 .. n - 1 : Destination(u, i) = cell} = {}
  OBVIOUS
<1>2. Expected(s, u, m, n) = [cell \in DOMAIN s[m] |-> s[m][cell]]
  BY <1>1 DEF Expected
<1>3. s[m] = [cell \in DOMAIN s[m] |-> s[m][cell]]
  <2>1. CASE m = "wram"  BY <2>1 DEF PortState
  <2>2. CASE m = "vram"  BY <2>2 DEF PortState
  <2>3. CASE m = "cgram"  BY <2>3 DEF PortState
  <2>4. CASE m = "oam"  BY <2>4 DEF PortState
  <2> QED BY <2>1, <2>2, <2>3, <2>4 DEF Memories
<1> QED BY <1>2, <1>3

\* One more byte has come.
LEMMA ExpectedGrows ==
  ASSUME NEW s, NEW u, NEW n \in Nat
  PROVE  Expected(s, u, u.to, n + 1)
           = [Expected(s, u, u.to, n) EXCEPT ![Destination(u, n)] = Kept(u, n, Value(s, u, n))]
<1> DEFINE memory == s[u.to]
           To(i) == Destination(u, i)
           Byte8(i) == Kept(u, i, Value(s, u, i))
           Bound(k, cell) == {i \in 0 .. k - 1 : To(i) = cell}
           Last(k, cell) == CHOOSE i \in Bound(k, cell) : \A j \in Bound(k, cell) : j <= i
           Held(k, cell) == IF Bound(k, cell) = {} THEN memory[cell] ELSE Byte8(Last(k, cell))
<1>1. ASSUME NEW k \in Nat
      PROVE  Expected(s, u, u.to, k) = [cell \in DOMAIN memory |-> Held(k, cell)]
  BY DEF Expected, Value
<1> HIDE DEF memory, To, Byte8
<1>2. ASSUME NEW cell, cell # To(n) PROVE Bound(n + 1, cell) = Bound(n, cell)
  <2>1. 0 .. (n + 1) - 1 = (0 .. n - 1) \cup {n}
    OBVIOUS
  <2> QED BY <1>2, <2>1
<1>3. Held(n + 1, To(n)) = Byte8(n)
  <2>1. n \in Bound(n + 1, To(n)) /\ Bound(n + 1, To(n)) \subseteq 0 .. n
    OBVIOUS
  <2> DEFINE S == Bound(n + 1, To(n))
  <2> HIDE DEF S
  <2>2. \A i \in S : (\A j \in S : j <= i) <=> i = n
    BY <2>1 DEF S
  <2>3. (CHOOSE i \in S : \A j \in S : j <= i) = n
    BY <2>1, <2>2 DEF S
  <2>4. S # {}
    BY <2>1 DEF S
  <2> QED BY <2>3, <2>4 DEF S
<1>4. ASSUME NEW cell, cell # To(n) PROVE Held(n + 1, cell) = Held(n, cell)
  <2> DEFINE A == Bound(n + 1, cell)
             B == Bound(n, cell)
  <2>1. A = B
    BY <1>2, <1>4
  <2>2. Held(n + 1, cell) = IF A = {} THEN memory[cell] ELSE Byte8(CHOOSE i \in A : \A j \in A : j <= i)
    OBVIOUS
  <2>3. Held(n, cell) = IF B = {} THEN memory[cell] ELSE Byte8(CHOOSE i \in B : \A j \in B : j <= i)
    OBVIOUS
  <2> HIDE DEF A, B, Held
  <2> QED BY <2>1, <2>2, <2>3
<1> HIDE DEF Held
<1> DEFINE f == [cell \in DOMAIN memory |-> Held(n, cell)]
           g == [cell \in DOMAIN memory |-> Held(n + 1, cell)]
<1>5. g = [f EXCEPT ![To(n)] = Byte8(n)]
  BY <1>3, <1>4
<1>6. Expected(s, u, u.to, n) = f /\ Expected(s, u, u.to, n + 1) = g
  BY <1>1
<1> HIDE DEF f, g
<1> QED BY <1>5, <1>6 DEF To, Byte8

\* Bytes come in pairs.
LEMMA Halves ==
  ASSUME NEW n \in Nat
  PROVE  /\ n % 2 \in 0 .. 1 /\ n \div 2 \in Nat /\ n = 2 * (n \div 2) + (n % 2)
         /\ (n + 1) \div 2 = n \div 2 + (n % 2) /\ (n + 1) % 2 = 1 - (n % 2)
         /\ n % 2 = 1 => n - 1 \in Nat /\ (n - 1) \div 2 = n \div 2 /\ (n - 1) % 2 = 0
OBVIOUS

-----------------------------------------------------------------------------
(* Where each port is after n bytes.                                       *)

CgramHolds(x, s, u, n) ==
  /\ x.cgramAt = (u.start + n \div 2) % ByteRange /\ x.cgramHigh = n % 2
  /\ x.cgram = Expected(s, u, "cgram", n)

\* The next byte of an upload is stored in its place: colours.
LEMMA CgramByte ==
  ASSUME NEW x, Kind(x), NEW s, NEW u \in Uploadable, u.to = "cgram", NEW n \in Nat, CgramHolds(x, s, u, n),
         Value(s, u, n) \in Byte
  PROVE  CgramHolds(WriteCgram(x, Value(s, u, n)), s, u, n + 1)
<1> DEFINE v == Value(s, u, n)
           t == WriteCgram(x, v)
           half == n \div 2
           e == n % 2
           a == u.start + half
<1>1. u.start \in Nat /\ half \in Nat /\ e \in 0 .. 1 /\ n = 2 * half + e /\ a \in Int
      /\ (n + 1) \div 2 = half + e /\ (n + 1) % 2 = 1 - e
  BY UploadParts, Halves
<1>2. CgramWrites(t, x, v)
  BY Cgram
<1> HIDE DEF t
<1>3. 2 * x.cgramAt + x.cgramHigh = Destination(u, n)
  <2>1. 2 * (a % ByteRange) + e = (2 * a + e) % (2 * ByteRange)
    BY <1>1, Sizes, ModScales
  <2>2. 2 * a + e = 2 * u.start + n
    <3> HIDE DEF half, e
    <3> QED BY <1>1
  <2>3. Destination(u, n) = (2 * u.start + n) % (2 * ByteRange)
    BY DEF Destination
  <2> QED BY <2>1, <2>2, <2>3 DEF CgramHolds
<1>4. t.cgram = [x.cgram EXCEPT ![Destination(u, n)] = Kept(u, n, v)]
  BY <1>2, <1>3 DEF CgramWrites, CgramHolds, Kept
<1>5. Expected(s, u, "cgram", n + 1) = [Expected(s, u, "cgram", n) EXCEPT ![Destination(u, n)] = Kept(u, n, v)]
  BY ExpectedGrows
<1>6. t.cgram = Expected(s, u, "cgram", n + 1)
  BY <1>4, <1>5 DEF CgramHolds
<1>7. t.cgramHigh = (n + 1) % 2
  BY <1>1, <1>2 DEF CgramWrites, CgramHolds
<1>8. t.cgramAt = (u.start + (n + 1) \div 2) % ByteRange
  <2>1. ((a % ByteRange) + 1) % ByteRange = (a + 1) % ByteRange
    <3>1. 1 \in Int /\ ByteRange \in Nat \ {0}
      BY Sizes
    <3> HIDE DEF a
    <3> QED BY <1>1, <3>1, ModAdds
  <2>2. t.cgramAt = IF e = 1 THEN ((a % ByteRange) + 1) % ByteRange ELSE a % ByteRange
    BY <1>2 DEF CgramWrites, CgramHolds
  <2>3. u.start + (n + 1) \div 2 = a + e
    BY <1>1
  <2>4. e = 1 \/ e = 0
    BY <1>1
  <2>5. a + e = IF e = 1 THEN a + 1 ELSE a
    BY <1>1
  <2> HIDE DEF a, e
  <2> QED BY <2>1, <2>2, <2>3, <2>4, <2>5
<1> QED BY <1>6, <1>7, <1>8 DEF CgramHolds, t

VramHolds(x, s, u, n) ==
  /\ x.vmain = u.control
  /\ x.vramAt = (u.start + (n \div 2) * vram_increment(Controls[u.control].step)) % WordRange
  /\ x.vram = Expected(s, u, "vram", n)

\* VRAM.
LEMMA VramByte ==
  ASSUME NEW x, Kind(x), NEW s, NEW u \in Uploadable, u.to = "vram", NEW n \in Nat, VramHolds(x, s, u, n),
         Value(s, u, n) \in Byte
  PROVE  VramHolds(WriteVram(x, n % 2, Value(s, u, n)), s, u, n + 1)
<1> DEFINE v == Value(s, u, n)
           e == n % 2
           t == WriteVram(x, e, v)
           half == n \div 2
           inc == vram_increment(Controls[u.control].step)
           a == u.start + half * inc
<1>1. /\ u.start \in Nat /\ half \in Nat /\ e \in 0 .. 1 /\ (n + 1) \div 2 = half + e
      /\ u.control \in Byte /\ Controls[u.control].afterHigh = 1
  BY UploadParts, Halves
<1>2. inc \in Nat
  BY <1>1, Control
<1>2a. VramWrites(t, x, e, v)
  BY <1>1, Vram
<1> HIDE DEF t, half, inc, e
<1>3. half * inc \in Nat /\ a \in Int
  BY <1>1, <1>2
<1>4. VramCell(x, e) = Destination(u, n)
  BY DEF VramCell, Destination, VramHolds, half, inc, e
<1>5. t.vram = [x.vram EXCEPT ![Destination(u, n)] = v]
  BY <1>2a, <1>4 DEF VramWrites
<1>6. Kept(u, n, v) = v
  BY DEF Kept
<1>7. Expected(s, u, "vram", n + 1) = [Expected(s, u, "vram", n) EXCEPT ![Destination(u, n)] = v]
  BY <1>6, ExpectedGrows
<1>8. t.vram = Expected(s, u, "vram", n + 1)
  BY <1>5, <1>7 DEF VramHolds
<1>9. t.vmain = u.control
  BY <1>2a DEF VramWrites, VramHolds, Keeps
<1>10. t.vramAt = (u.start + ((n + 1) \div 2) * inc) % WordRange
  <2>1. ((a % WordRange) + inc) % WordRange = (a + inc) % WordRange
    <3>1. inc \in Int /\ WordRange \in Nat \ {0}
      BY <1>2, Sizes
    <3> HIDE DEF a
    <3> QED BY <1>3, <3>1, ModAdds
  <2>2. t.vramAt = IF e = 1 THEN ((a % WordRange) + inc) % WordRange ELSE a % WordRange
    BY <1>1, <1>2a DEF VramWrites, VramHolds, half, inc
  <2>3. CASE e = 1
    <3>1. ((n + 1) \div 2) * inc = half * inc + inc
      BY <1>1, <1>2, <2>3
    <3>2. u.start + ((n + 1) \div 2) * inc = a + inc
      BY <1>1, <1>2, <1>3, <3>1
    <3> QED BY <2>1, <2>2, <2>3, <3>2
  <2>4. CASE e = 0
    <3>1. (n + 1) \div 2 = half
      BY <1>1, <2>4
    <3> QED BY <2>2, <2>4, <3>1
  <2> QED BY <1>1, <2>3, <2>4
<1> QED BY <1>8, <1>9, <1>10 DEF VramHolds, t, e, inc

WramHolds(x, s, u, n) ==
  /\ x.wramAt = (u.start + n) % WramSize
  /\ x.wram = Expected(s, u, "wram", n)

\* Work RAM.
LEMMA WramByte ==
  ASSUME NEW x, Kind(x), NEW s, NEW u \in Uploadable, u.to = "wram", NEW n \in Nat, WramHolds(x, s, u, n),
         Value(s, u, n) \in Byte
  PROVE  WramHolds(write_wram_port(x, 128, Value(s, u, n)), s, u, n + 1)
<1> DEFINE v == Value(s, u, n)
           t == write_wram_port(x, 128, v)
           a == u.start + n
<1>1. a \in Int /\ u.start \in Nat /\ WramSize \in Nat \ {0}
  BY UploadParts, Sizes
<1>2. WramWrites(t, x, 128, v)
  BY WramPort
<1> HIDE DEF t
<1>3. t.wram = [x.wram EXCEPT ![x.wramAt] = v] /\ t.wramAt = (x.wramAt + 1) % WramSize
  BY <1>2 DEF WramWrites
<1>4. x.wramAt = Destination(u, n)
  BY DEF Destination, WramHolds
<1>5. Kept(u, n, v) = v
  BY DEF Kept
<1>6. Expected(s, u, "wram", n + 1) = [Expected(s, u, "wram", n) EXCEPT ![Destination(u, n)] = v]
  BY <1>5, ExpectedGrows
<1>7. t.wram = Expected(s, u, "wram", n + 1)
  BY <1>3, <1>4, <1>6 DEF WramHolds
<1>8. t.wramAt = (u.start + (n + 1)) % WramSize
  <2>1. ((a % WramSize) + 1) % WramSize = (a + 1) % WramSize
    BY <1>1, ModAdds
  <2>2. a + 1 = u.start + (n + 1)
    BY <1>1
  <2> QED BY <1>3, <2>1, <2>2 DEF WramHolds
<1> QED BY <1>7, <1>8 DEF WramHolds, t

\* In the low table the first byte of a word waits in the latch.
OamHolds(x, s, u, n) ==
  /\ x.oamAt = (u.start + n \div 2) % (2 * ByteRange) /\ x.oamHigh = n % 2
  /\ n % 2 = 1 => x.oamLatch = Value(s, u, n - 1)
  /\ x.oam = Expected(s, u, "oam", IF n % 2 = 1 /\ x.oamAt < ByteRange THEN n - 1 ELSE n)

\* Sprites, whose words wait in a latch for their second byte.
LEMMA OamByte ==
  ASSUME NEW x, Kind(x), NEW s, NEW u \in Uploadable, u.to = "oam", NEW n \in Nat, OamHolds(x, s, u, n),
         Value(s, u, n) \in Byte
  PROVE  OamHolds(WriteOam(x, Value(s, u, n)), s, u, n + 1)
<1> DEFINE v == Value(s, u, n)
           t == WriteOam(x, v)
           half == n \div 2
           e == n % 2
           a == u.start + half
           at == a % (2 * ByteRange)
<1>1. /\ u.start \in Nat /\ half \in Nat /\ e \in 0 .. 1 /\ a \in Int /\ 2 * ByteRange \in Nat \ {0}
      /\ (n + 1) \div 2 = half + e /\ (n + 1) % 2 = 1 - e
      /\ e = 1 => n - 1 \in Nat /\ (n - 1) \div 2 = half /\ (n - 1) % 2 = 0
  <2>1. u.start \in Nat /\ 2 * ByteRange \in Nat \ {0}
    <3>1. u.start \in 0 .. WramSize - 1
      BY UploadParts
    <3>2. ByteRange \in Nat \ {0}
      BY BusAssumption
    <3> QED BY <3>1, <3>2
  <2>2. /\ half \in Nat /\ e \in 0 .. 1 /\ (n + 1) \div 2 = half + e /\ (n + 1) % 2 = 1 - e
        /\ e = 1 => n - 1 \in Nat /\ (n - 1) \div 2 = half /\ (n - 1) % 2 = 0
    BY Halves
  <2> QED BY <2>1, <2>2
<1>2. OamWrites(t, x, v)
  BY Oam
<1> HIDE DEF t
<1>3. at \in 0 .. 2 * ByteRange - 1 /\ x.oamAt = at /\ x.oamHigh = e
  <2>1. at \in 0 .. 2 * ByteRange - 1
    <3> HIDE DEF a
    <3> QED BY <1>1, Divided
  <2> QED BY <2>1 DEF OamHolds
<1>3a. at \in Int /\ ByteRange \in Int
  BY <1>3, Sizes
<1>4. \A i \in Nat : \A w : Kept(u, i, w) = w
  BY DEF Kept
<1>5. \A i \in Nat : Expected(s, u, "oam", i + 1) = [Expected(s, u, "oam", i) EXCEPT ![Destination(u, i)] = Value(s, u, i)]
  <2> TAKE i \in Nat
  <2>1. /\ Expected(s, u, u.to, i + 1)
             = [Expected(s, u, u.to, i) EXCEPT ![Destination(u, i)] = Kept(u, i, Value(s, u, i))]
        /\ u.to = "oam"
    BY ONLY ExpectedGrows, i \in Nat, u.to = "oam"
  <2>2. Kept(u, i, Value(s, u, i)) = Value(s, u, i)
    BY <1>4
  <2> QED BY ONLY <2>1, <2>2
<1>6. Destination(u, n) = IF at < ByteRange THEN 2 * at + e ELSE 2 * ByteRange + 2 * (at % TailWords) + e
  BY <1>3a DEF Destination
<1>7. t.oamHigh = (n + 1) % 2
  BY <1>1, <1>2, <1>3 DEF OamWrites
<1>8. t.oamAt = (u.start + (n + 1) \div 2) % (2 * ByteRange)
  <2>1. (at + 1) % (2 * ByteRange) = (a + 1) % (2 * ByteRange)
    BY <1>1, ModAdds
  <2>2. t.oamAt = IF e = 0 THEN at ELSE (at + 1) % (2 * ByteRange)
    BY <1>2, <1>3 DEF OamWrites
  <2>3. u.start + (n + 1) \div 2 = IF e = 1 THEN a + 1 ELSE a
    BY <1>1
  <2>4. e = 1 \/ e = 0
    BY <1>1
  <2> HIDE DEF a, e
  <2> QED BY <2>1, <2>2, <2>3, <2>4
<1>9. (n + 1) % 2 = 1 => t.oamLatch = Value(s, u, (n + 1) - 1)
  <2>1. (n + 1) % 2 = 1 => e = 0
    BY <1>1
  <2>2. (n + 1) - 1 = n
    OBVIOUS
  <2> QED BY <1>2, <1>3, <2>1, <2>2 DEF OamWrites
<1>10. t.oam = OamAfter(x, v)
  BY <1>2 DEF OamWrites
<1>11. t.oam = Expected(s, u, "oam", IF (n + 1) % 2 = 1 /\ t.oamAt < ByteRange THEN (n + 1) - 1 ELSE n + 1)
  <2>1. CASE at >= ByteRange
    <3>1. OamCell(x) = Destination(u, n) /\ ~ at < ByteRange
      BY <1>3, <1>3a, <1>6, <2>1 DEF OamCell
    <3>2. t.oam = [x.oam EXCEPT ![Destination(u, n)] = v]
      BY <1>3, <1>10, <2>1, <3>1 DEF OamAfter
    <3>3. x.oam = Expected(s, u, "oam", n)
      BY <1>3, <3>1 DEF OamHolds
    <3>4. t.oam = Expected(s, u, "oam", n + 1)
      BY <1>5, <3>2, <3>3
    <3>5. ~ ((n + 1) % 2 = 1 /\ t.oamAt < ByteRange)
      <4>1. (n + 1) % 2 = 1 => t.oamAt = at
        BY <1>1, <1>2, <1>3 DEF OamWrites
      <4> QED BY <3>1, <4>1
    <3> QED BY <3>4, <3>5
  <2>2. CASE at < ByteRange /\ e = 0
    <3>0. ~ at >= ByteRange /\ (n + 1) % 2 = 1 /\ e # 1 /\ (n + 1) - 1 = n
      BY <1>1, <1>3a, <2>2
    <3>1. t.oam = x.oam
      BY <1>3, <1>10, <3>0 DEF OamAfter
    <3>2. x.oam = Expected(s, u, "oam", n)
      BY <3>0 DEF OamHolds
    <3>3. t.oamAt = at
      BY <1>2, <1>3, <2>2 DEF OamWrites
    <3> QED BY <2>2, <3>0, <3>1, <3>2, <3>3
  <2>3. CASE at < ByteRange /\ e = 1
    <3>0. ~ at >= ByteRange /\ ~ (n + 1) % 2 = 1 /\ n - 1 \in Nat /\ (n - 1) + 1 = n
      BY <1>1, <1>3a, <2>3
    <3>1. t.oam = [x.oam EXCEPT ![2 * at] = x.oamLatch, ![2 * at + 1] = v]
      BY <1>3, <1>10, <2>3, <3>0 DEF OamAfter
    <3>2. x.oam = Expected(s, u, "oam", n - 1) /\ x.oamLatch = Value(s, u, n - 1)
      BY <1>3, <2>3 DEF OamHolds
    <3>3. Destination(u, n - 1) = 2 * at
      <4>1. (n - 1) \div 2 = half /\ (n - 1) % 2 = 0
        BY <1>1, <2>3
      <4>2. Destination(u, n - 1) = 2 * at + 0
        BY <1>3a, <2>3, <4>1 DEF Destination
      <4> QED BY <1>3a, <4>2
    <3>4. Destination(u, n) = 2 * at + 1
      BY <1>6, <2>3
    <3>5. Expected(s, u, "oam", n) = [x.oam EXCEPT ![2 * at] = x.oamLatch]
      BY <1>5, <3>0, <3>2, <3>3
    <3>6. Expected(s, u, "oam", n + 1) = [Expected(s, u, "oam", n) EXCEPT ![2 * at + 1] = v]
      BY <1>5, <3>4
    <3>7. t.oam = Expected(s, u, "oam", n + 1)
      BY <3>1, <3>5, <3>6
    <3> QED BY <3>0, <3>7
  <2> QED BY <1>1, <1>3a, <2>1, <2>2, <2>3
<1> QED BY <1>7, <1>8, <1>9, <1>11 DEF OamHolds, t

-----------------------------------------------------------------------------
(* The transfer.                                                           *)

\* What n bytes of an upload have done.
Sent(x, s, u, n) ==
  /\ Kind(x) /\ x.barrier = 0 /\ x.sram = s.sram
  /\ x.dma[0] = [SetUpFor(u) EXCEPT !.offset = Origin(u, n).offset]
  /\ \A m \in Memories \ {u.to} : x[m] = s[m]
  /\ u.to = "oam" => OamHolds(x, s, u, n)
  /\ u.to = "cgram" => CgramHolds(x, s, u, n)
  /\ u.to = "vram" => VramHolds(x, s, u, n)
  /\ u.to = "wram" => WramHolds(x, s, u, n)

\* The cursors and memories of x are those of y.
LEMMA SamePorts ==
  ASSUME NEW x, NEW y, NEW s, NEW u, NEW n, Keeps(y, x, Ports)
  PROVE  /\ OamHolds(x, s, u, n) => OamHolds(y, s, u, n)
         /\ CgramHolds(x, s, u, n) => CgramHolds(y, s, u, n)
         /\ VramHolds(x, s, u, n) => VramHolds(y, s, u, n)
         /\ WramHolds(x, s, u, n) => WramHolds(y, s, u, n)
         /\ \A m \in Memories : y[m] = x[m]
<1>1. /\ y.oamAt = x.oamAt /\ y.oamHigh = x.oamHigh /\ y.oamLatch = x.oamLatch /\ y.oam = x.oam
      /\ y.cgramAt = x.cgramAt /\ y.cgramHigh = x.cgramHigh /\ y.cgram = x.cgram
      /\ y.vmain = x.vmain /\ y.vramAt = x.vramAt /\ y.vram = x.vram
      /\ y.wramAt = x.wramAt /\ y.wram = x.wram /\ \A m \in Memories : y[m] = x[m]
  BY DEF Keeps, Ports, Memories
<1>2. OamHolds(x, s, u, n) => OamHolds(y, s, u, n)
  BY <1>1 DEF OamHolds
<1>3. CgramHolds(x, s, u, n) => CgramHolds(y, s, u, n)
  BY <1>1 DEF CgramHolds
<1>4. VramHolds(x, s, u, n) => VramHolds(y, s, u, n)
  BY <1>1 DEF VramHolds
<1>5. WramHolds(x, s, u, n) => WramHolds(y, s, u, n)
  BY <1>1 DEF WramHolds
<1> QED BY <1>1, <1>2, <1>3, <1>4, <1>5

\* The source of a byte is a place, and it is not on the way of the upload.
LEMMA OriginIs ==
  ASSUME NEW u \in Uploadable, NEW n \in Nat
  PROVE  Origin(u, n) \in Address
<1> DEFINE x == u.from + (IF u.down = 1 THEN - n ELSE n)
<1>1. x \in Int /\ BankLength \in Nat \ {0} /\ u.bank \in 0 .. 255
  <2>1. u.from \in Int
    BY UploadParts
  <2> QED BY <2>1, UploadParts, Sizes, PortAssumption
<1>2. Origin(u, n) = [bank |-> u.bank, offset |-> x % BankLength]
  BY DEF Origin
<1> HIDE DEF x
<1>3. x % BankLength \in 0 .. BankLength - 1
  BY <1>1, Divided
<1> QED BY <1>1, <1>2, <1>3 DEF Address

\* The next byte is read as it was before the upload, and from memory.
LEMMA SourceStands ==
  ASSUME NEW x, Kind(x), NEW s \in PortState, NEW u \in Uploadable, NEW n \in 0 .. Amount(u.size) - 1,
         x.sram = s.sram, \A m \in Memories \ {u.to} : x[m] = s[m]
  PROVE  /\ dkc2_bus_value(x, Origin(u, n)) = Value(s, u, n) /\ Value(s, u, n) \in Byte
         /\ dkc2_bus_region_for(Origin(u, n)) # "IO"
<1> DEFINE a == Origin(u, n)
           region == dkc2_bus_region_for(a)
<1>1. a \in Address
  BY OriginIs
<1>2. Driven(a) /\ (u.to = "wram" => region # "WRAM")
  BY UploadParts DEF Sourced
<1> HIDE DEF a
<1>3. region \in {"WRAM", "SRAM", "ROM"}
  <2>1. region \in {"WRAM", "SRAM", "ROM", "IO", "OPEN"}
    BY <1>1, RegionIs
  <2>2. (IsWramBank(a.bank) \/ LowRam(a) => region = "WRAM") /\ (SaveRam(a) => region = "SRAM") /\ (Cartridge(a) => region = "ROM")
    BY <1>1, RegionIs
  <2> QED BY <1>2, <2>1, <2>2 DEF Driven, Writable
<1>4. dkc2_bus_value(x, a) = dkc2_bus_value(s, a)
  <2>1. CASE region = "WRAM"
    <3>1. x.wram = s.wram
      BY <1>2, <2>1 DEF Memories
    <3>2. dkc2_bus_value(x, a) = x.wram[wram_offset(a)] /\ dkc2_bus_value(s, a) = s.wram[wram_offset(a)]
      BY <2>1, ValueOf
    <3> QED BY <3>1, <3>2
  <2>2. CASE region = "SRAM"
    <3>1. dkc2_bus_value(x, a) = x.sram[sram_offset(a)] /\ dkc2_bus_value(s, a) = s.sram[sram_offset(a)]
      BY <2>2, ValueOf
    <3> QED BY <3>1
  <2>3. CASE region = "ROM"
    <3>1. dkc2_bus_value(x, a) = Rom[RomOffset(a)] /\ dkc2_bus_value(s, a) = Rom[RomOffset(a)]
      BY <2>3, ValueOf
    <3> QED BY <3>1
  <2> QED BY <1>3, <2>1, <2>2, <2>3
<1>5. dkc2_bus_value(s, a) \in Byte
  <2>1. HasMemory(s)
    BY DEF PortState, HasMemory
  <2> QED BY <1>1, <2>1, ValueIsByte
<1> QED BY <1>3, <1>4, <1>5 DEF a, Value

\* The port a byte goes to, and what it does there.
LEMMA ByteArrives ==
  ASSUME NEW r, Kind(r), NEW s, NEW u \in Uploadable, NEW n \in Nat, NEW port, NEW v \in Byte, v = Value(s, u, n),
         port = IF u.to = "vram" THEN 24 + (n % 2) ELSE PortOf[u.to],
         \A m \in Memories \ {u.to} : r[m] = s[m],
         u.to = "oam" => OamHolds(r, s, u, n),
         u.to = "cgram" => CgramHolds(r, s, u, n),
         u.to = "vram" => VramHolds(r, s, u, n),
         u.to = "wram" => WramHolds(r, s, u, n)
  PROVE  LET w == ppu_write(r, port, v)
         IN /\ \A m \in Memories \ {u.to} : w[m] = s[m]
            /\ u.to = "oam" => OamHolds(w, s, u, n + 1)
            /\ u.to = "cgram" => CgramHolds(w, s, u, n + 1)
            /\ u.to = "vram" => VramHolds(w, s, u, n + 1)
            /\ u.to = "wram" => WramHolds(w, s, u, n + 1)
<1> DEFINE w == ppu_write(r, port, v)
<1>1. CASE u.to = "oam"
  <2>1. w = WriteOam(r, v)
    BY <1>1 DEF ppu_write, PortOf
  <2>2. OamWrites(WriteOam(r, v), r, v)
    BY Oam
  <2>3. OamHolds(WriteOam(r, v), s, u, n + 1)
    BY <1>1, OamByte
  <2> HIDE DEF w
  <2>4. \A m \in Memories \ {u.to} : w[m] = r[m]
    BY <1>1, <2>1, <2>2 DEF OamWrites, Keeps, Memories
  <2> QED BY <1>1, <2>1, <2>3, <2>4 DEF w
<1>2. CASE u.to = "cgram"
  <2>1. w = WriteCgram(r, v)
    BY <1>2 DEF ppu_write, PortOf
  <2>2. CgramWrites(WriteCgram(r, v), r, v)
    BY Cgram
  <2>3. CgramHolds(WriteCgram(r, v), s, u, n + 1)
    BY <1>2, CgramByte
  <2> HIDE DEF w
  <2>4. \A m \in Memories \ {u.to} : w[m] = r[m]
    BY <1>2, <2>1, <2>2 DEF CgramWrites, Keeps, Memories
  <2> QED BY <1>2, <2>1, <2>3, <2>4 DEF w
<1>3. CASE u.to = "vram"
  <2>0. n % 2 \in 0 .. 1
    OBVIOUS
  <2>1. w = WriteVram(r, n % 2, v)
    <3>1. port = 24 + (n % 2)
      BY <1>3
    <3>2. port \in 24 .. 25 /\ port - 24 = n % 2
      BY <2>0, <3>1
    <3> QED BY <3>2 DEF ppu_write
  <2>2. VramWrites(WriteVram(r, n % 2, v), r, n % 2, v)
    BY <2>0, Vram
  <2>3. VramHolds(WriteVram(r, n % 2, v), s, u, n + 1)
    BY <1>3, VramByte
  <2> HIDE DEF w
  <2>4. \A m \in Memories \ {u.to} : w[m] = r[m]
    BY <1>3, <2>1, <2>2 DEF VramWrites, Keeps, Memories
  <2> QED BY <1>3, <2>1, <2>3, <2>4 DEF w
<1>4. CASE u.to = "wram"
  <2>1. w = write_wram_port(r, 128, v)
    BY <1>4 DEF ppu_write, PortOf
  <2>2. WramWrites(write_wram_port(r, 128, v), r, 128, v)
    BY WramPort
  <2>3. WramHolds(write_wram_port(r, 128, v), s, u, n + 1)
    BY <1>4, WramByte
  <2> HIDE DEF w
  <2>4. \A m \in Memories \ {u.to} : w[m] = r[m]
    BY <1>4, <2>1, <2>2 DEF WramWrites, Keeps, Memories
  <2> QED BY <1>4, <2>1, <2>3, <2>4 DEF w
<1> QED BY <1>1, <1>2, <1>3, <1>4, UploadParts

\* The channel's registers after n bytes.
SetUpAt(u, n) == [SetUpFor(u) EXCEPT !.offset = Origin(u, n).offset]

\* How the channel of an upload moves on.
LEMMA SetUpParts ==
  ASSUME NEW u \in Uploadable, NEW n \in Nat
  PROVE  LET d == SetUpAt(u, n)
         IN /\ SourceOf(d) = Origin(u, n) /\ d.reverse = 0 /\ d.size = u.size /\ d.offset = Origin(u, n).offset
            /\ StepOf(d) = IF u.down = 1 THEN -1 ELSE 1
            /\ PortAt(d, n) = IF u.to = "vram" THEN 24 + (n % 2) ELSE PortOf[u.to]
            /\ \A x : [d EXCEPT !.offset = x] = [SetUpFor(u) EXCEPT !.offset = x]
<1> DEFINE d == SetUpAt(u, n)
           mode == IF u.to = "vram" THEN 1 ELSE 0
<1>1. /\ d = [mode |-> mode, fixed |-> 0, down |-> u.down, reverse |-> 0, to |-> PortOf[u.to],
              bank |-> u.bank, offset |-> Origin(u, n).offset, size |-> u.size]
      /\ \A x : [d EXCEPT !.offset = x] = [SetUpFor(u) EXCEPT !.offset = x]
  <2> DEFINE f == SetUpFor(u)
             y == Origin(u, n).offset
  <2>1. f = [mode |-> mode, fixed |-> 0, down |-> u.down, reverse |-> 0, to |-> PortOf[u.to],
             bank |-> u.bank, offset |-> u.from, size |-> u.size]
    BY DEF SetUpFor
  <2>2. d = [f EXCEPT !.offset = y]
    BY DEF SetUpAt
  <2> HIDE DEF f, y, d, mode
  <2>3. d = [mode |-> mode, fixed |-> 0, down |-> u.down, reverse |-> 0, to |-> PortOf[u.to],
             bank |-> u.bank, offset |-> y, size |-> u.size]
    BY ONLY <2>1, <2>2
  <2>4. \A x : [d EXCEPT !.offset = x] = [f EXCEPT !.offset = x]
    BY ONLY <2>1, <2>3
  <2> QED BY <2>3, <2>4 DEF f, y
<1> HIDE DEF d
<1>2. Origin(u, n).bank = u.bank /\ Origin(u, n) = [bank |-> Origin(u, n).bank, offset |-> Origin(u, n).offset]
  BY DEF Origin
<1>3. SourceOf(d) = Origin(u, n)
  BY <1>1, <1>2 DEF SourceOf
<1>4. u.down \in 0 .. 1 /\ u.to \in {"oam", "cgram", "vram", "wram"}
  BY UploadParts
<1>5. StepOf(d) = IF u.down = 1 THEN -1 ELSE 1
  BY <1>1, <1>4 DEF StepOf
<1>6. PortAt(d, n) = IF u.to = "vram" THEN 24 + (n % 2) ELSE PortOf[u.to]
  <2>1. PortOf["oam"] = 4 /\ PortOf["cgram"] = 34 /\ PortOf["vram"] = 24 /\ PortOf["wram"] = 128
    BY DEF PortOf
  <2>2. d.mode = mode /\ d.to = PortOf[u.to]
    BY <1>1
  <2>3. CASE u.to = "vram"
    <3>1. dma_pattern(1, n) = n % 2 /\ n % 2 \in 0 .. 1
      BY PatternIs
    <3>2. PortAt(d, n) = (24 + (n % 2)) % 256
      BY <2>1, <2>2, <2>3, <3>1 DEF PortAt
    <3>3. (24 + (n % 2)) % 256 = 24 + (n % 2)
      BY <3>1
    <3> QED BY <2>3, <3>2, <3>3
  <2>4. CASE u.to # "vram"
    <3>1. dma_pattern(0, n) = 0
      BY PatternIs
    <3>2. PortAt(d, n) = (PortOf[u.to] + 0) % 256
      BY <2>2, <2>4, <3>1 DEF PortAt
    <3>3. PortOf[u.to] \in 0 .. 255
      BY <1>4, <2>1
    <3> QED BY <2>4, <3>2, <3>3
  <2> QED BY <2>3, <2>4
<1> QED BY <1>1, <1>3, <1>5, <1>6 DEF d

\* The next byte.
LEMMA SentGoesOn ==
  ASSUME NEW s, Kind(s), NEW u \in Uploadable, NEW n \in 0 .. Amount(u.size) - 1, NEW x, Sent(x, s, u, n)
  PROVE  Sent(TransferByte(x, 0, n), s, u, n + 1)
<1> DEFINE t == TransferByte(x, 0, n)
           d == x.dma[0]
           a == Origin(u, n)
           v == Value(s, u, n)
           port == IF u.to = "vram" THEN 24 + (n % 2) ELSE PortOf[u.to]
           r == dkc2_bus_read8(x, a)
           w == ppu_write(r, port, v)
<1>0. n \in Nat /\ 0 \in DmaChannels /\ s \in PortState
  BY UploadParts, PortAssumption DEF Kind
<1>1. Kind(x) /\ x.barrier = 0 /\ x.sram = s.sram /\ d = SetUpAt(u, n)
      /\ \A m \in Memories \ {u.to} : x[m] = s[m]
  BY DEF Sent, SetUpAt
<1>2. /\ SourceOf(d) = a /\ PortAt(d, n) = port /\ d.offset = a.offset
      /\ StepOf(d) = IF u.down = 1 THEN -1 ELSE 1
      /\ \A y : [d EXCEPT !.offset = y] = [SetUpFor(u) EXCEPT !.offset = y]
  BY <1>0, <1>1, SetUpParts
<1>3. /\ dkc2_bus_value(x, a) = v /\ v \in Byte /\ dkc2_bus_region_for(a) # "IO"
  BY <1>0, <1>1, SourceStands
<1>4. Transfers(t, x, 0, n)
  BY <1>0, <1>1, Transfer
<1> HIDE DEF t, d, a, v, port
<1>5. BusReads(r, x, a)
  BY <1>2, <1>4 DEF Transfers, d
<1> HIDE DEF r
<1>6. /\ Kind(r) /\ r.open = v /\ r.barrier = 0 /\ Keeps(r, x, Ports)
  BY <1>1, <1>3, <1>5 DEF BusReads, Keeps
<1>7. /\ Kind(t) /\ Keeps(t, w, Ports) /\ t.sram = x.sram /\ t.barrier = 0
      /\ t.dma = [x.dma EXCEPT ![0].offset = (d.offset + StepOf(d)) % BankLength]
  BY <1>2, <1>4, <1>6 DEF Transfers, d, r
<1>8. /\ \A m \in Memories \ {u.to} : r[m] = s[m]
      /\ u.to = "oam" => OamHolds(r, s, u, n)
      /\ u.to = "cgram" => CgramHolds(r, s, u, n)
      /\ u.to = "vram" => VramHolds(r, s, u, n)
      /\ u.to = "wram" => WramHolds(r, s, u, n)
  <2>1. /\ OamHolds(x, s, u, n) => OamHolds(r, s, u, n)
        /\ CgramHolds(x, s, u, n) => CgramHolds(r, s, u, n)
        /\ VramHolds(x, s, u, n) => VramHolds(r, s, u, n)
        /\ WramHolds(x, s, u, n) => WramHolds(r, s, u, n)
        /\ \A m \in Memories : r[m] = x[m]
    <3>1. Keeps(r, x, Ports)
      BY <1>6
    <3> QED BY ONLY <3>1, SamePorts
  <2>2. /\ u.to = "oam" => OamHolds(x, s, u, n)
        /\ u.to = "cgram" => CgramHolds(x, s, u, n)
        /\ u.to = "vram" => VramHolds(x, s, u, n)
        /\ u.to = "wram" => WramHolds(x, s, u, n)
    BY DEF Sent
  <2> QED BY <1>1, <2>1, <2>2
<1>9. /\ \A m \in Memories \ {u.to} : w[m] = s[m]
      /\ u.to = "oam" => OamHolds(w, s, u, n + 1)
      /\ u.to = "cgram" => CgramHolds(w, s, u, n + 1)
      /\ u.to = "vram" => VramHolds(w, s, u, n + 1)
      /\ u.to = "wram" => WramHolds(w, s, u, n + 1)
  BY <1>0, <1>3, <1>6, <1>8, ByteArrives DEF v, port
<1> HIDE DEF w
<1>10. /\ \A m \in Memories \ {u.to} : t[m] = s[m]
       /\ u.to = "oam" => OamHolds(t, s, u, n + 1)
       /\ u.to = "cgram" => CgramHolds(t, s, u, n + 1)
       /\ u.to = "vram" => VramHolds(t, s, u, n + 1)
       /\ u.to = "wram" => WramHolds(t, s, u, n + 1)
  <2>1. /\ OamHolds(w, s, u, n + 1) => OamHolds(t, s, u, n + 1)
        /\ CgramHolds(w, s, u, n + 1) => CgramHolds(t, s, u, n + 1)
        /\ VramHolds(w, s, u, n + 1) => VramHolds(t, s, u, n + 1)
        /\ WramHolds(w, s, u, n + 1) => WramHolds(t, s, u, n + 1)
        /\ \A m \in Memories : t[m] = w[m]
    <3>1. Keeps(t, w, Ports)
      BY <1>7
    <3> QED BY ONLY <3>1, SamePorts
  <2> QED BY <1>9, <2>1
<1>11. (a.offset + StepOf(d)) % BankLength = Origin(u, n + 1).offset
  <2> DEFINE k == u.from + (IF u.down = 1 THEN - n ELSE n)
             k2 == u.from + (IF u.down = 1 THEN - (n + 1) ELSE n + 1)
             step == IF u.down = 1 THEN -1 ELSE 1
  <2>1. u.from \in Int /\ BankLength \in Nat \ {0}
    BY UploadParts, Sizes, PortAssumption
  <2>2. k \in Int /\ step \in Int /\ k2 = k + step
    BY <1>0, <2>1
  <2>3. a.offset = k % BankLength /\ Origin(u, n + 1).offset = k2 % BankLength
    BY DEF Origin, a
  <2> HIDE DEF k, k2, step
  <2>4. ((k % BankLength) + step) % BankLength = (k + step) % BankLength
    BY <2>1, <2>2, ModAdds
  <2> QED BY <1>2, <2>2, <2>3, <2>4 DEF step
<1>12. t.dma[0] = [SetUpFor(u) EXCEPT !.offset = Origin(u, n + 1).offset]
  <2> DEFINE y == Origin(u, n + 1).offset
  <2> HIDE DEF y
  <2>1. x.dma \in [DmaChannels -> DmaSetup]
    BY <1>1 DEF Kind, PortState
  <2>2. t.dma = [x.dma EXCEPT ![0].offset = y]
    BY <1>2, <1>7, <1>11 DEF y
  <2>3. t.dma[0] = [d EXCEPT !.offset = y]
    BY <1>0, <2>1, <2>2 DEF d
  <2> QED BY <1>2, <2>3 DEF y
<1> QED BY <1>1, <1>7, <1>10, <1>12 DEF Sent, t

\* Every byte, in turn.
LEMMA SentAll ==
  ASSUME NEW s, Kind(s), NEW u \in Uploadable, NEW b, Kind(b), Sent(b, s, u, 0)
  PROVE  Sent(Moved(b, 0)[Amount(u.size)], s, u, Amount(u.size))
<1> DEFINE m == Amount(u.size)
           g == Moved(b, 0)
           T == {n \in Nat : n <= m => Sent(g[n], s, u, n)}
<1>0. m \in Nat /\ 0 \in DmaChannels
  <2>1. u.size \in Word
    BY UploadParts
  <2> QED BY <2>1, Sizes, PortAssumption DEF Amount
<1>1. g[0] = b /\ \A n \in Nat : g[n + 1] = Move(g[n], 0, n)
  BY <1>0, MovedIs
<1> HIDE DEF m, g
<1>2. 0 \in T
  BY <1>1
<1>3. ASSUME NEW n \in Nat, n \in T PROVE n + 1 \in T
  <2> SUFFICES ASSUME n + 1 <= m PROVE Sent(g[n + 1], s, u, n + 1)
    OBVIOUS
  <2>1. n \in 0 .. m - 1 /\ Sent(g[n], s, u, n)
    BY <1>0, <1>3
  <2>2. g[n].barrier = 0
    BY <2>1 DEF Sent
  <2>3. g[n + 1] = TransferByte(g[n], 0, n)
    BY <1>1, <2>2 DEF Move
  <2>4. Sent(TransferByte(g[n], 0, n), s, u, n + 1)
    BY <2>1, SentGoesOn DEF m
  <2> QED BY <2>3, <2>4
<1>4. Nat \subseteq T
  <2> HIDE DEF T
  <2> QED BY <1>2, <1>3, Induction
<1> QED BY <1>0, <1>4 DEF m, g

\* Before the first byte nothing has been sent.
LEMMA SentNothing ==
  ASSUME NEW s, Kind(s), s.barrier = 0, NEW u \in Uploadable
  PROVE  LET b == [AtAddress(s, u) EXCEPT !.dma[0] = SetUpFor(u)]
         IN Kind(b) /\ Sent(b, s, u, 0) /\ b.dma[0] = SetUpFor(u)
<1> DEFINE a == AtAddress(s, u)
           d == SetUpFor(u)
           dmas == [a.dma EXCEPT ![0] = d]
           b == [a EXCEPT !.dma = dmas]
<1>1. Addressed(a, s, u)
  BY AddressChosen
<1>2. d \in DmaSetup
  <2>1. PortOf[u.to] \in 0 .. 255
    BY UploadParts DEF PortOf
  <2>2. (IF u.to = "vram" THEN 1 ELSE 0) \in 0 .. 7
    OBVIOUS
  <2>3. /\ u.down \in 0 .. 1 /\ u.bank \in 0 .. 255 /\ u.from \in 0 .. BankLength - 1 /\ u.size \in Word
    BY UploadParts
  <2> QED BY <2>1, <2>2, <2>3 DEF DmaSetup, SetUpFor
<1> HIDE DEF a, d
<1>3. Kind(a) /\ a \in PortState /\ a.dma \in [DmaChannels -> DmaSetup] /\ 0 \in DmaChannels
  BY <1>1, PortAssumption DEF Addressed, Kind, PortState
<1>4. dmas \in [DmaChannels -> DmaSetup] /\ dmas[0] = d
  BY <1>2, <1>3
<1>5. [a EXCEPT !.dma[0] = d] = b
  OBVIOUS
<1> HIDE DEF dmas
<1>6. b \in PortState
  BY <1>3, <1>4, Sets
<1>7. Keeps(b, a, Ports \cup {"sram", "barrier"}) /\ b.dma = dmas
  BY <1>3 DEF PortState, Keeps, Ports, Memories
<1>8. Keeps(b, a, Roots)
  BY <1>3 DEF PortState, Keeps, Roots
<1> HIDE DEF b
<1>9. Kind(b)
  BY <1>3, <1>6, <1>8, KeepsKind
<1>10. b.barrier = 0 /\ b.sram = s.sram /\ \A m \in Memories : b[m] = s[m]
  BY <1>1, <1>7 DEF Addressed, Keeps, Ports, BusFields, Memories
<1>11. b.dma[0] = [SetUpFor(u) EXCEPT !.offset = Origin(u, 0).offset]
  <2>1. u.from \in 0 .. BankLength - 1 /\ BankLength \in Nat \ {0}
    BY UploadParts, Sizes, PortAssumption
  <2>2. Origin(u, 0).offset = (u.from + (IF u.down = 1 THEN - 0 ELSE 0)) % BankLength
    BY DEF Origin
  <2>3. Origin(u, 0).offset = u.from
    <3>1. u.from + (IF u.down = 1 THEN - 0 ELSE 0) = u.from
      BY <2>1
    <3>2. u.from % BankLength = u.from
      BY <2>1, ModSame
    <3> QED BY <2>2, <3>1, <3>2
  <2>4. [SetUpFor(u) EXCEPT !.offset = u.from] = SetUpFor(u)
    BY DEF SetUpFor
  <2> QED BY <1>4, <1>7, <2>3, <2>4 DEF d
<1>12. \A m \in Memories : Expected(s, u, m, 0) = s[m]
  <2>1. s \in PortState
    BY DEF Kind
  <2> QED BY <2>1, ExpectedIsOld
<1>13. 0 \div 2 = 0 /\ 0 % 2 = 0
  OBVIOUS
<1>14. u.to = "oam" => OamHolds(b, s, u, 0)
  <2> SUFFICES ASSUME u.to = "oam" PROVE OamHolds(b, s, u, 0)
    OBVIOUS
  <2>1. b.oamAt = u.start /\ b.oamHigh = 0 /\ b.oam = Expected(s, u, "oam", 0)
    BY <1>1, <1>7, <1>10, <1>12 DEF Addressed, Keeps, Ports, Memories
  <2>2. u.start \in 0 .. 2 * ByteRange - 1 /\ 2 * ByteRange \in Nat \ {0}
    BY UploadParts, Sizes
  <2>3. u.start % (2 * ByteRange) = u.start /\ u.start + 0 = u.start
    BY <2>2, ModSame
  <2> QED BY <1>13, <2>1, <2>3 DEF OamHolds
<1>15. u.to = "cgram" => CgramHolds(b, s, u, 0)
  <2> SUFFICES ASSUME u.to = "cgram" PROVE CgramHolds(b, s, u, 0)
    OBVIOUS
  <2>1. b.cgramAt = u.start /\ b.cgramHigh = 0 /\ b.cgram = Expected(s, u, "cgram", 0)
    BY <1>1, <1>7, <1>10, <1>12 DEF Addressed, Keeps, Ports, Memories
  <2>2. u.start \in 0 .. ByteRange - 1 /\ ByteRange \in Nat \ {0}
    BY UploadParts, Sizes
  <2>3. u.start % ByteRange = u.start /\ u.start + 0 = u.start
    BY <2>2, ModSame
  <2> QED BY <1>13, <2>1, <2>3 DEF CgramHolds
<1>16. u.to = "vram" => VramHolds(b, s, u, 0)
  <2> SUFFICES ASSUME u.to = "vram" PROVE VramHolds(b, s, u, 0)
    OBVIOUS
  <2>1. b.vmain = u.control /\ b.vramAt = u.start /\ b.vram = Expected(s, u, "vram", 0)
    BY <1>1, <1>7, <1>10, <1>12 DEF Addressed, Keeps, Ports, Memories
  <2>2. u.start \in 0 .. WordRange - 1 /\ WordRange \in Nat \ {0} /\ vram_increment(Controls[u.control].step) \in Nat
    BY UploadParts, Sizes, Control
  <2>3. u.start % WordRange = u.start
    BY <2>2, ModSame
  <2>4. u.start + 0 * vram_increment(Controls[u.control].step) = u.start
    BY <2>2
  <2> QED BY <1>13, <2>1, <2>3, <2>4 DEF VramHolds
<1>17. u.to = "wram" => WramHolds(b, s, u, 0)
  <2> SUFFICES ASSUME u.to = "wram" PROVE WramHolds(b, s, u, 0)
    OBVIOUS
  <2>1. b.wramAt = u.start /\ b.wram = Expected(s, u, "wram", 0)
    BY <1>1, <1>7, <1>10, <1>12 DEF Addressed, Keeps, Ports, Memories
  <2>2. u.start \in 0 .. WramSize - 1 /\ WramSize \in Nat \ {0}
    BY UploadParts, Sizes
  <2>3. u.start % WramSize = u.start /\ u.start + 0 = u.start
    BY <2>2, ModSame
  <2> QED BY <2>1, <2>3 DEF WramHolds
<1>18. Sent(b, s, u, 0)
  BY <1>9, <1>10, <1>11, <1>14, <1>15, <1>16, <1>17 DEF Sent
<1> QED BY <1>4, <1>5, <1>7, <1>9, <1>18 DEF a, d, b

\* A transfer started for one channel is that channel's.
LEMMA OneChannel ==
  ASSUME NEW b, Kind(b), b.barrier = 0
  PROVE  run_dma(b, {0}) = run_dma_channel(b, 0)
<1> DEFINE g == TurnsRun(b, {0})
<1>0. {0} \in SUBSET DmaChannels
  BY PortAssumption
<1>1. run_dma(b, {0}) = g[8] /\ g[0] = b /\ \A n \in Nat : g[n + 1] = OneTurn(g[n], {0}, n)
  BY <1>0, DmaRuns, TurnsAre
<1> HIDE DEF g
<1>2. g[1] = run_dma_channel(b, 0)
  <2>1. g[0 + 1] = OneTurn(g[0], {0}, 0)
    BY <1>1
  <2>2. OneTurn(b, {0}, 0) = run_dma_channel(b, 0)
    BY DEF OneTurn
  <2> QED BY <1>1, <2>1, <2>2
<1>3. ASSUME NEW n \in 1 .. 7 PROVE g[n + 1] = g[n]
  <2>1. g[n + 1] = OneTurn(g[n], {0}, n)
    BY <1>1
  <2>2. n \notin {0}
    OBVIOUS
  <2> QED BY <2>1, <2>2 DEF OneTurn
<1>4. g[8] = g[1]
  <2>1. g[2] = g[1] /\ g[3] = g[2] /\ g[4] = g[3] /\ g[5] = g[4] /\ g[6] = g[5] /\ g[7] = g[6] /\ g[8] = g[7]
    <3>1. \A n \in 1 .. 7 : g[n + 1] = g[n]
      BY <1>3
    <3>2. g[1 + 1] = g[1] /\ g[2 + 1] = g[2] /\ g[3 + 1] = g[3] /\ g[4 + 1] = g[4]
          /\ g[5 + 1] = g[5] /\ g[6 + 1] = g[6] /\ g[7 + 1] = g[7]
      BY <3>1
    <3> QED BY <3>2
  <2> QED BY <2>1
<1> QED BY <1>1, <1>2, <1>4

\* Whatever the ports were used for before, an upload is exact.
LEMMA UploadsAreExact ==
  ASSUME NEW s, Kind(s), s.barrier = 0, NEW u \in Uploadable
  PROVE  UploadIsExact(s, u)
<1> DEFINE b == [AtAddress(s, u) EXCEPT !.dma[0] = SetUpFor(u)]
           m == Amount(u.size)
           x == Moved(b, 0)[m]
           r == run_dma_channel(b, 0)
<1>0. m \in Nat /\ 0 \in DmaChannels
  <2>1. u.size \in Word
    BY UploadParts
  <2> QED BY <2>1, Sizes, PortAssumption DEF Amount
<1>1. Kind(b) /\ Sent(b, s, u, 0) /\ b.dma[0] = SetUpFor(u)
  BY SentNothing
<1>2. Uploaded(s, u) = run_dma(b, {0})
  BY DEF Uploaded
<1> HIDE DEF b
<1>3. b.barrier = 0 /\ b.dma[0].reverse = 0 /\ b.dma[0].size = u.size
  BY <1>1 DEF Sent, SetUpFor
<1>4. Uploaded(s, u) = r
  BY <1>1, <1>2, <1>3, OneChannel
<1>5. Sent(x, s, u, m)
  BY <1>1, SentAll
<1>6. Keeps(r, x, Memories \cup {"sram", "barrier"}) /\ r.dma[0].size = 0
  <2> DEFINE ended == IF b.dma[0].reverse = 1 THEN [b EXCEPT !.barrier = 1]
                      ELSE Moved(b, 0)[Amount(b.dma[0].size)]
  <2>1. ended = x
    BY <1>3
  <2>2. Keeps(r, ended, Memories \cup {"sram", "barrier"}) /\ r.dma[0].size = 0
    BY <1>0, <1>1, ChannelRuns
  <2> HIDE DEF ended, r, x
  <2> QED BY <2>1, <2>2
<1> HIDE DEF r, x
<1>7. r.sram = s.sram /\ r.barrier = 0 /\ \A k \in Memories : r[k] = x[k]
  BY <1>5, <1>6 DEF Sent, Keeps
<1>8. ASSUME NEW k \in Memories PROVE r[k] = Expected(s, u, k, m)
  <2>1. CASE k # u.to
    <3>1. x[k] = s[k]
      BY <1>5, <2>1 DEF Sent
    <3>2. s \in PortState
      BY DEF Kind
    <3>3. Expected(s, u, k, m) = s[k]
      BY <1>0, <2>1, <3>2, ExpectedIsOld
    <3> QED BY <1>7, <3>1, <3>3
  <2>2. CASE k = u.to /\ k = "oam"
    <3>1. m % 2 = 0
      BY <2>2, UploadParts
    <3>2. x.oam = Expected(s, u, "oam", m)
      BY <1>5, <2>2, <3>1 DEF Sent, OamHolds
    <3> QED BY <1>7, <2>2, <3>2
  <2>3. CASE k = u.to /\ k = "cgram"
    <3>1. x.cgram = Expected(s, u, "cgram", m)
      BY <1>5, <2>3 DEF Sent, CgramHolds
    <3> QED BY <1>7, <2>3, <3>1
  <2>4. CASE k = u.to /\ k = "vram"
    <3>1. x.vram = Expected(s, u, "vram", m)
      BY <1>5, <2>4 DEF Sent, VramHolds
    <3> QED BY <1>7, <2>4, <3>1
  <2>5. CASE k = u.to /\ k = "wram"
    <3>1. x.wram = Expected(s, u, "wram", m)
      BY <1>5, <2>5 DEF Sent, WramHolds
    <3> QED BY <1>7, <2>5, <3>1
  <2> QED BY <2>1, <2>2, <2>3, <2>4, <2>5 DEF Memories
<1>9. \A memory \in {"oam", "cgram", "vram", "wram"} : r[memory] = Expected(s, u, memory, m)
  BY <1>8 DEF Memories
<1> QED BY <1>4, <1>6, <1>7, <1>9 DEF UploadIsExact

-----------------------------------------------------------------------------
\* So all that PortsKept asks follows from the types and the derived values.
LEMMA KeptByKind ==
  ASSUME PortsInv
  PROVE  PortsKept
<1>1. Kind(con) /\ con \in PortState
  BY DEF PortsInv, Kind
<1>2. DerivedAreCurrent
  BY <1>1 DEF Kind, Derived, ProductOf, DerivedAreCurrent
<1>3. PairsAreWhole(con, PairPorts, PairValues)
  BY <1>1, SampleAssumption, PairsAlwaysWhole
<1>4. MirrorsAgree(con, Corners, PairValues)
  <2>1. Corners \in SUBSET Address
    BY SampleAssumption
  <2> QED BY <1>1, <2>1, MirrorsAlwaysAgree
<1>5. ASSUME Running, NEW u \in Uploads PROVE UploadIsExact(con, u)
  <2>1. con.barrier = 0 /\ u \in Uploadable
    BY <1>5, SampleAssumption DEF Running
  <2> QED BY <1>1, <2>1, UploadsAreExact
<1> QED BY <1>2, <1>3, <1>4, <1>5 DEF PortsKept

\* Once a program has accessed the console: an upload by DMA leaves in the memory it was
\* meant for exactly the bytes of its source and changes no other byte, the two bytes of
\* a scroll or of the matrix are one word, the product and the first sprite are those of
\* the registers, and after the first access RAM is the same at its mirrors -- whatever
\* stores, loads and transfers came before, for every upload, port, byte and corner asked.
THEOREM PortsAreKept == PortsSpec => []PortsKept
<1>1. PortsInv => PortsKept
  BY KeptByKind
<1> QED BY <1>1, PortsInvariant, PTL

-----------------------------------------------------------------------------
(* Arithmetic. The loops over the digits are recursive functions on two or *)
(* four places: each of them is written out once (WeighedGoesUp, SumDigit, *)
(* DifferenceDigit), and what is proved of them is linear.                 *)

\* The places of a base: up to four of them.
IsPlaces(place, base) == place = [k \in 0 .. Digits |-> IF k = 0 THEN 1 ELSE base * place[k - 1]]

LEMMA PlacesAre ==
  ASSUME NEW base \in Nat
  PROVE  IsPlaces(PlacesOf(base), base)
<1> DEFINE g == [k \in 0 .. Digits |-> IF k = 0 THEN 1 ELSE IF k = 1 THEN base
                   ELSE IF k = 2 THEN base * base ELSE IF k = 3 THEN base * (base * base)
                   ELSE base * (base * (base * base))]
<1>1. ASSUME NEW k \in 0 .. Digits PROVE g[k] = IF k = 0 THEN 1 ELSE base * g[k - 1]
  <2>1. Digits \in {2, 4}
    BY AluAssumption
  <2>2. CASE k = 0
    BY <2>2
  <2>3. CASE k # 0
    <3>1. k - 1 \in 0 .. Digits /\ k \in {1, 2, 3, 4}
      BY <2>1, <2>3
    <3>2. g[k - 1] = IF k = 1 THEN 1 ELSE IF k = 2 THEN base ELSE IF k = 3 THEN base * base ELSE base * (base * base)
      BY <3>1
    <3>3. g[k] = base * g[k - 1]
      BY <3>1, <3>2
    <3> QED BY <2>3, <3>3
  <2> QED BY <2>2, <2>3
<1>2. g = [k \in 0 .. Digits |-> IF k = 0 THEN 1 ELSE base * g[k - 1]]
  BY <1>1
<1> HIDE DEF g
<1> QED BY <1>2 DEF PlacesOf, IsPlaces

\* What the places of a number count.
LEMMA HexIs ==
  /\ Hex[0] = 1 /\ Hex[1] = 16 /\ Hex[2] = 256
  /\ Digits = 4 => Hex[3] = 4096 /\ Hex[4] = 65536
  /\ Base = IF Digits = 2 THEN 256 ELSE 65536
<1>1. IsPlaces(Hex, 16)
  BY PlacesAre DEF Hex
<1>2. Digits \in {2, 4}
  BY AluAssumption
<1>3. \A k \in 0 .. Digits : Hex[k] = IF k = 0 THEN 1 ELSE 16 * Hex[k - 1]
  BY <1>1 DEF IsPlaces
<1>4. Hex[0] = 1 /\ Hex[1] = 16 /\ Hex[2] = 256
  BY <1>2, <1>3
<1>5. Digits = 4 => Hex[3] = 4096 /\ Hex[4] = 65536
  BY <1>3, <1>4
<1> QED BY <1>2, <1>4, <1>5 DEF Base

LEMMA TenIs ==
  /\ Ten[0] = 1 /\ Ten[1] = 10 /\ Ten[2] = 100
  /\ Digits = 4 => Ten[3] = 1000 /\ Ten[4] = 10000
<1>1. IsPlaces(Ten, 10)
  BY PlacesAre DEF Ten
<1>2. Digits \in {2, 4}
  BY AluAssumption
<1>3. \A k \in 0 .. Digits : Ten[k] = IF k = 0 THEN 1 ELSE 10 * Ten[k - 1]
  BY <1>1 DEF IsPlaces
<1>4. Ten[0] = 1 /\ Ten[1] = 10 /\ Ten[2] = 100
  BY <1>2, <1>3
<1>5. Digits = 4 => Ten[3] = 1000 /\ Ten[4] = 10000
  BY <1>3, <1>4
<1> QED BY <1>4, <1>5

-----------------------------------------------------------------------------
AluWord == 0 .. Base - 1
Spots == 0 .. Digits - 1
\* What digits spell in base sixteen and in base ten.
Written(d) == d[0] + 16 * d[1] + (IF Digits = 4 THEN 256 * d[2] + 4096 * d[3] ELSE 0)
Spelt(d) == d[0] + 10 * d[1] + (IF Digits = 4 THEN 100 * d[2] + 1000 * d[3] ELSE 0)
DigitsOf(value) == [k \in Spots |-> Digit(value, k)]

\* A sum over the places, as far as each of them.
IsWeighed(value, d, place) ==
  value = [k \in 0 .. Digits |-> IF k = 0 THEN 0 ELSE value[k - 1] + d[k - 1] * place[k - 1]]

LEMMA WeighedIs ==
  ASSUME NEW d, NEW place
  PROVE  \E value : IsWeighed(value, d, place) /\ Weighed(d, place) = value[Digits]
<1> DEFINE w(k) == d[k] * place[k]
           g == [k \in 0 .. Digits |-> IF k = 0 THEN 0 ELSE IF k = 1 THEN 0 + w(0)
                   ELSE IF k = 2 THEN (0 + w(0)) + w(1) ELSE IF k = 3 THEN ((0 + w(0)) + w(1)) + w(2)
                   ELSE (((0 + w(0)) + w(1)) + w(2)) + w(3)]
           value == CHOOSE v : IsWeighed(v, d, place)
<1> HIDE DEF w
<1>1. ASSUME NEW k \in 0 .. Digits PROVE g[k] = IF k = 0 THEN 0 ELSE g[k - 1] + w(k - 1)
  <2>1. Digits \in {2, 4}
    BY AluAssumption
  <2>2. CASE k = 0
    BY <2>2
  <2>3. CASE k # 0
    <3>1. k - 1 \in 0 .. Digits /\ k \in {1, 2, 3, 4}
      BY <2>1, <2>3
    <3>2. g[k - 1] = IF k = 1 THEN 0 ELSE IF k = 2 THEN 0 + w(0) ELSE IF k = 3 THEN (0 + w(0)) + w(1)
                     ELSE ((0 + w(0)) + w(1)) + w(2)
      BY <3>1
    <3>3. g[k] = g[k - 1] + w(k - 1)
      BY <3>1, <3>2
    <3> QED BY <2>3, <3>3
  <2> QED BY <2>2, <2>3
<1>2. g = [k \in 0 .. Digits |-> IF k = 0 THEN 0 ELSE g[k - 1] + w(k - 1)]
  BY <1>1
<1> HIDE DEF g
<1>3. IsWeighed(g, d, place)
  BY <1>2 DEF w, IsWeighed
<1>4. IsWeighed(value, d, place)
  BY <1>3
<1>5. Weighed(d, place) = value[Digits]
  BY DEF Weighed, IsWeighed
<1> QED BY <1>4, <1>5

\* The sum goes up place by place.
GoesUp(v, d, place) ==
  /\ v[0] = 0 /\ v[1] = v[0] + d[0] * place[0] /\ v[2] = v[1] + d[1] * place[1]
  /\ Digits = 4 => v[3] = v[2] + d[2] * place[2] /\ v[4] = v[3] + d[3] * place[3]

LEMMA WeighedGoesUp ==
  ASSUME NEW d, NEW place
  PROVE  \E v : GoesUp(v, d, place) /\ Weighed(d, place) = v[Digits]
<1>1. PICK v : IsWeighed(v, d, place) /\ Weighed(d, place) = v[Digits]
  BY WeighedIs
<1>2. \A k \in 0 .. Digits : v[k] = IF k = 0 THEN 0 ELSE v[k - 1] + d[k - 1] * place[k - 1]
  BY <1>1 DEF IsWeighed
<1>3. v[0] = 0 /\ v[1] = v[0] + d[0] * place[0] /\ v[2] = v[1] + d[1] * place[1]
  BY <1>2, AluAssumption
<1>4. Digits = 4 => v[3] = v[2] + d[2] * place[2] /\ v[4] = v[3] + d[3] * place[3]
  BY <1>2
<1> QED BY <1>1, <1>3, <1>4 DEF GoesUp

IsDigits(d, S) == /\ Digits \in {2, 4} /\ d[0] \in S /\ d[1] \in S
                  /\ Digits = 4 => d[2] \in S /\ d[3] \in S

LEMMA HasDigits ==
  ASSUME NEW S, NEW d \in [Spots -> S]
  PROVE  IsDigits(d, S)
BY AluAssumption DEF Spots, IsDigits

\* What digits spell in the two bases.
LEMMA WrittenIs ==
  ASSUME NEW d, IsDigits(d, Int)
  PROVE  Weighed(d, Hex) = Written(d)
<1>1. PICK v : GoesUp(v, d, Hex) /\ Weighed(d, Hex) = v[Digits]
  BY WeighedGoesUp
<1>2. v[1] = d[0] /\ v[2] = d[0] + 16 * d[1]
  BY <1>1, HexIs DEF GoesUp, IsDigits
<1>3. CASE Digits = 2
  BY <1>1, <1>2, <1>3 DEF Written, IsDigits
<1>4. CASE Digits = 4
  <2>1. v[3] = v[2] + 256 * d[2] /\ v[4] = v[3] + 4096 * d[3]
    BY <1>1, <1>4, HexIs DEF GoesUp, IsDigits
  <2>2. Written(d) = d[0] + 16 * d[1] + (256 * d[2] + 4096 * d[3])
    BY <1>4 DEF Written
  <2> QED BY <1>1, <1>2, <1>4, <2>1, <2>2 DEF IsDigits
<1> QED BY <1>3, <1>4 DEF IsDigits

LEMMA SpeltIs ==
  ASSUME NEW d, IsDigits(d, Int)
  PROVE  Weighed(d, Ten) = Spelt(d)
<1>1. PICK v : GoesUp(v, d, Ten) /\ Weighed(d, Ten) = v[Digits]
  BY WeighedGoesUp
<1>2. v[1] = d[0] /\ v[2] = d[0] + 10 * d[1]
  BY <1>1, TenIs DEF GoesUp, IsDigits
<1>3. CASE Digits = 2
  BY <1>1, <1>2, <1>3 DEF Spelt, IsDigits
<1>4. CASE Digits = 4
  <2>1. v[3] = v[2] + 100 * d[2] /\ v[4] = v[3] + 1000 * d[3]
    BY <1>1, <1>4, TenIs DEF GoesUp, IsDigits
  <2>2. Spelt(d) = d[0] + 10 * d[1] + (100 * d[2] + 1000 * d[3])
    BY <1>4 DEF Spelt
  <2> QED BY <1>1, <1>2, <1>4, <2>1, <2>2 DEF IsDigits
<1> QED BY <1>3, <1>4 DEF IsDigits

LEMMA DigitIs ==
  ASSUME NEW value \in Int, NEW k \in Spots
  PROVE  Digit(value, k) \in 0 .. 15
<1>1. Hex[k] \in {1, 16, 256, 4096}
  BY HexIs, AluAssumption DEF Spots
<1>2. value \div Hex[k] \in Int
  BY <1>1
<1> QED BY <1>2 DEF Digit

LEMMA NumberIs ==
  ASSUME NEW value \in Int
  PROVE  DigitsOf(value) \in [Spots -> 0 .. 15] /\ Number(value) = Spelt(DigitsOf(value))
<1>1. DigitsOf(value) \in [Spots -> 0 .. 15]
  BY DigitIs DEF DigitsOf
<1>2. IsDigits(DigitsOf(value), Int)
  BY <1>1, HasDigits DEF IsDigits
<1>3. Number(value) = Weighed(DigitsOf(value), Ten)
  BY DEF Number, DigitsOf, Spots
<1> QED BY <1>1, <1>2, <1>3, SpeltIs

\* A remainder and what it is the remainder of.
LEMMA Sixteenth ==
  ASSUME NEW r \in Int, NEW q \in Int, 0 <= r, r <= 15
  PROVE  (r + 16 * q) \div 16 = q /\ (r + 16 * q) % 16 = r
OBVIOUS

LEMMA Parted ==
  ASSUME NEW r \in Int, NEW q \in Int, NEW n \in Int, 0 <= r
  PROVE  /\ r <= 255 /\ n = r + 256 * q => n \div 256 = q
         /\ r <= 4095 /\ n = r + 4096 * q => n \div 4096 = q
OBVIOUS

IsNibble(a) == a \in Int /\ 0 <= a /\ a <= 15

\* The digits of a number of four, and of two.
LEMMA FourDigits ==
  ASSUME NEW a, NEW b, NEW c, NEW e, IsNibble(a), IsNibble(b), IsNibble(c), IsNibble(e),
         NEW n, n = a + 16 * b + (256 * c + 4096 * e)
  PROVE  /\ n \in Int /\ 0 <= n /\ n <= 65535 /\ (n \div 1) % 16 = a /\ (n \div 16) % 16 = b
         /\ (n \div 256) % 16 = c /\ (n \div 4096) % 16 = e
<1>0. /\ a \in Int /\ 0 <= a /\ a <= 15 /\ b \in Int /\ 0 <= b /\ b <= 15
      /\ c \in Int /\ 0 <= c /\ c <= 15 /\ e \in Int /\ 0 <= e /\ e <= 15
  BY DEF IsNibble
<1>1. n \in Int /\ 0 <= n /\ n <= 65535
  BY <1>0
<1>2. n \div 1 = n
  BY <1>1
<1>3. n % 16 = a /\ n \div 16 = b + 16 * (c + 16 * e)
  <2>1. b + 16 * (c + 16 * e) \in Int /\ n = a + 16 * (b + 16 * (c + 16 * e))
    BY <1>0
  <2> QED BY ONLY <1>0, <2>1, Sixteenth
<1>4. n \div 256 = c + 16 * e
  <2>1. c + 16 * e \in Int /\ a + 16 * b \in Int /\ 0 <= a + 16 * b /\ a + 16 * b <= 255
    BY <1>0
  <2>2. n = (a + 16 * b) + 256 * (c + 16 * e)
    BY <1>0
  <2> QED BY ONLY <1>1, <2>1, <2>2, Parted
<1>5. n \div 4096 = e
  <2>1. /\ a + 16 * b + 256 * c \in Int /\ 0 <= a + 16 * b + 256 * c /\ a + 16 * b + 256 * c <= 4095
        /\ n = (a + 16 * b + 256 * c) + 4096 * e
    BY <1>0
  <2> QED BY ONLY <1>0, <1>1, <2>1, Parted
<1>6. (b + 16 * (c + 16 * e)) % 16 = b
  <2>1. c + 16 * e \in Int
    BY <1>0
  <2> QED BY ONLY <1>0, <2>1, Sixteenth
<1>7. (c + 16 * e) % 16 = c
  BY ONLY <1>0, Sixteenth
<1>8. e % 16 = e
  BY <1>0
<1> QED BY ONLY <1>1, <1>2, <1>3, <1>4, <1>5, <1>6, <1>7, <1>8

LEMMA TwoDigits ==
  ASSUME NEW a, NEW b, IsNibble(a), IsNibble(b), NEW n, n = a + 16 * b
  PROVE  n \in Int /\ 0 <= n /\ n <= 255 /\ (n \div 1) % 16 = a /\ (n \div 16) % 16 = b
BY DEF IsNibble

\* A packed word has the digits it was packed from.
LEMMA PackedIs ==
  ASSUME NEW d \in [Spots -> 0 .. 15]
  PROVE  Packed(d) \in AluWord /\ DigitsOf(Packed(d)) = d
<1>1. IsDigits(d, 0 .. 15)
  BY HasDigits
<1>2. Packed(d) = Written(d)
  <2>1. IsDigits(d, Int)
    BY <1>1 DEF IsDigits
  <2> QED BY <2>1, WrittenIs DEF Packed
<1>n. /\ IsNibble(d[0]) /\ IsNibble(d[1])
      /\ Digits = 4 => IsNibble(d[2]) /\ IsNibble(d[3])
  BY <1>1 DEF IsDigits, IsNibble
<1>3. CASE Digits = 2
  <2>1. Written(d) = d[0] + 16 * d[1]
    BY <1>1, <1>3 DEF IsDigits, Written
  <2>2. /\ Written(d) \in Int /\ 0 <= Written(d) /\ Written(d) <= 255
        /\ (Written(d) \div 1) % 16 = d[0] /\ (Written(d) \div 16) % 16 = d[1]
    BY <1>n, <2>1, TwoDigits
  <2>3. Digit(Written(d), 0) = d[0] /\ Digit(Written(d), 1) = d[1]
    BY <2>2, HexIs DEF Digit
  <2>4. Written(d) \in AluWord
    <3>1. Base - 1 = 255
      BY <1>3, HexIs
    <3>2. Written(d) \in Int /\ 0 <= Written(d) /\ Written(d) <= 255
      BY <2>2
    <3> QED BY ONLY <3>1, <3>2 DEF AluWord
  <2>5. \A k \in Spots : Digit(Written(d), k) = d[k]
    BY <1>3, <2>3 DEF Spots
  <2> QED BY <1>2, <2>4, <2>5 DEF DigitsOf
<1>4. CASE Digits = 4
  <2>1. Written(d) = d[0] + 16 * d[1] + (256 * d[2] + 4096 * d[3])
    BY <1>4 DEF Written
  <2>2. /\ Written(d) \in Int /\ 0 <= Written(d) /\ Written(d) <= 65535
        /\ (Written(d) \div 1) % 16 = d[0] /\ (Written(d) \div 16) % 16 = d[1]
        /\ (Written(d) \div 256) % 16 = d[2] /\ (Written(d) \div 4096) % 16 = d[3]
    <3>1. IsNibble(d[0]) /\ IsNibble(d[1]) /\ IsNibble(d[2]) /\ IsNibble(d[3])
      BY <1>4, <1>n
    <3> QED BY ONLY <2>1, <3>1, FourDigits
  <2>3. /\ Digit(Written(d), 0) = d[0] /\ Digit(Written(d), 1) = d[1]
        /\ Digit(Written(d), 2) = d[2] /\ Digit(Written(d), 3) = d[3]
    BY <1>4, <2>2, HexIs DEF Digit
  <2>4. Written(d) \in AluWord
    <3>1. Base - 1 = 65535
      BY <1>4, HexIs
    <3>2. Written(d) \in Int /\ 0 <= Written(d) /\ Written(d) <= 65535
      BY <2>2
    <3> QED BY ONLY <3>1, <3>2 DEF AluWord
  <2>5. \A k \in Spots : Digit(Written(d), k) = d[k]
    BY <1>4, <2>3 DEF Spots
  <2> QED BY <1>2, <2>4, <2>5 DEF DigitsOf
<1> QED BY <1>1, <1>3, <1>4 DEF IsDigits

-----------------------------------------------------------------------------
(* The loops over the digits.                                              *)

IsSums(s, left, right, carry) ==
  s = [k \in Spots |-> Digit(left, k) + Digit(right, k) + (IF k = 0 THEN Bit(carry) ELSE Bit(s[k - 1] > 9))]
IsDifferences(s, left, right, carry) ==
  s = [k \in Spots |-> Digit(left, k) - Digit(right, k) - (IF k = 0 THEN Bit(~carry) ELSE Bit(s[k - 1] < 0))]

LEMMA SumsAre ==
  ASSUME NEW left, NEW right, NEW carry
  PROVE  IsSums(Sums(left, right, carry), left, right, carry)
<1> DEFINE w(k) == Digit(left, k) + Digit(right, k)
           t0 == w(0) + Bit(carry)
           t1 == w(1) + Bit(t0 > 9)
           t2 == w(2) + Bit(t1 > 9)
           t3 == w(3) + Bit(t2 > 9)
           g == [k \in Spots |-> IF k = 0 THEN t0 ELSE IF k = 1 THEN t1 ELSE IF k = 2 THEN t2 ELSE t3]
<1>0. t1 = w(1) + Bit(t0 > 9) /\ t2 = w(2) + Bit(t1 > 9) /\ t3 = w(3) + Bit(t2 > 9)
  OBVIOUS
<1>a. t0 = w(0) + Bit(carry)
  OBVIOUS
<1> HIDE DEF w, t0, t1, t2, t3
<1>1. ASSUME NEW k \in Spots PROVE g[k] = w(k) + (IF k = 0 THEN Bit(carry) ELSE Bit(g[k - 1] > 9))
  <2>1. k \in {0, 1, 2, 3}
    BY AluAssumption DEF Spots
  <2>2. CASE k = 0
    BY <1>a, <2>2
  <2>3. CASE k # 0
    <3>1. k - 1 \in Spots
      BY <2>1, <2>3, AluAssumption DEF Spots
    <3>2. g[k - 1] = IF k = 1 THEN t0 ELSE IF k = 2 THEN t1 ELSE t2
      BY <2>1, <2>3, <3>1
    <3> QED BY <1>0, <2>1, <2>3, <3>2
  <2> QED BY <2>2, <2>3
<1>2. g = [k \in Spots |-> w(k) + (IF k = 0 THEN Bit(carry) ELSE Bit(g[k - 1] > 9))]
  BY <1>1
<1> HIDE DEF g
<1>3. IsSums(g, left, right, carry)
  BY <1>2 DEF w, IsSums
<1> DEFINE s == CHOOSE s : IsSums(s, left, right, carry)
<1>4. IsSums(s, left, right, carry)
  BY <1>3
<1>5. Sums(left, right, carry) = s
  BY DEF Sums, IsSums, Spots
<1> QED BY <1>4, <1>5

LEMMA DifferencesAre ==
  ASSUME NEW left, NEW right, NEW carry
  PROVE  IsDifferences(Differences(left, right, carry), left, right, carry)
<1> DEFINE w(k) == Digit(left, k) - Digit(right, k)
           t0 == w(0) - Bit(~carry)
           t1 == w(1) - Bit(t0 < 0)
           t2 == w(2) - Bit(t1 < 0)
           t3 == w(3) - Bit(t2 < 0)
           g == [k \in Spots |-> IF k = 0 THEN t0 ELSE IF k = 1 THEN t1 ELSE IF k = 2 THEN t2 ELSE t3]
<1>0. t1 = w(1) - Bit(t0 < 0) /\ t2 = w(2) - Bit(t1 < 0) /\ t3 = w(3) - Bit(t2 < 0)
  OBVIOUS
<1>a. t0 = w(0) - Bit(~carry)
  OBVIOUS
<1> HIDE DEF w, t0, t1, t2, t3
<1>1. ASSUME NEW k \in Spots PROVE g[k] = w(k) - (IF k = 0 THEN Bit(~carry) ELSE Bit(g[k - 1] < 0))
  <2>1. k \in {0, 1, 2, 3}
    BY AluAssumption DEF Spots
  <2>2. CASE k = 0
    BY <1>a, <2>2
  <2>3. CASE k # 0
    <3>1. k - 1 \in Spots
      BY <2>1, <2>3, AluAssumption DEF Spots
    <3>2. g[k - 1] = IF k = 1 THEN t0 ELSE IF k = 2 THEN t1 ELSE t2
      BY <2>1, <2>3, <3>1
    <3> QED BY <1>0, <2>1, <2>3, <3>2
  <2> QED BY <2>2, <2>3
<1>2. g = [k \in Spots |-> w(k) - (IF k = 0 THEN Bit(~carry) ELSE Bit(g[k - 1] < 0))]
  BY <1>1
<1> HIDE DEF g
<1>3. IsDifferences(g, left, right, carry)
  BY <1>2 DEF w, IsDifferences
<1> DEFINE s == CHOOSE s : IsDifferences(s, left, right, carry)
<1>4. IsDifferences(s, left, right, carry)
  BY <1>3
<1>5. Differences(left, right, carry) = s
  BY DEF Differences, IsDifferences, Spots
<1> QED BY <1>4, <1>5

\* One digit of a sum, corrected, and the carry it passes on.
LEMMA CorrectedIs ==
  ASSUME NEW x, NEW y, NEW b, IsNibble(x), IsNibble(y), b \in {0, 1}, NEW s, s = x + y + b
  PROVE  /\ IsNibble(Corrected(s)) /\ Bit(s > 9) \in {0, 1}
         /\ x <= 9 /\ y <= 9 => Corrected(s) <= 9 /\ Corrected(s) + 10 * Bit(s > 9) = x + y + b
BY DEF IsNibble, Corrected, Bit

LEMMA BorrowedIs ==
  ASSUME NEW x, NEW y, NEW b, IsNibble(x), IsNibble(y), b \in {0, 1}, NEW s, s = x - y - b
  PROVE  /\ IsNibble(Borrowed(s)) /\ Bit(s < 0) \in {0, 1}
         /\ x <= 9 /\ y <= 9 => Borrowed(s) <= 9 /\ Borrowed(s) - 10 * Bit(s < 0) = x - y - b
BY DEF IsNibble, Borrowed, Bit

\* What one digit of the loop takes in and passes on.
LEMMA SumDigit ==
  ASSUME NEW left \in Int, NEW right \in Int, NEW carry \in BOOLEAN, NEW k \in Spots,
         NEW s, s = Sums(left, right, carry)
  PROVE  LET x == Digit(left, k)
             y == Digit(right, k)
             b == IF k = 0 THEN Bit(carry) ELSE Bit(s[k - 1] > 9)
         IN /\ s[k] = x + y + b /\ s[k] \in Int /\ b \in {0, 1} /\ IsNibble(x) /\ IsNibble(y)
            /\ IsNibble(Corrected(s[k]))
            /\ x <= 9 /\ y <= 9 => Corrected(s[k]) <= 9 /\ Corrected(s[k]) + 10 * Bit(s[k] > 9) = x + y + b
<1> DEFINE x == Digit(left, k)
           y == Digit(right, k)
           b == IF k = 0 THEN Bit(carry) ELSE Bit(s[k - 1] > 9)
<1>1. s[k] = x + y + b
  BY SumsAre DEF IsSums
<1>2. b \in {0, 1}
  BY DEF Bit
<1>3. IsNibble(x) /\ IsNibble(y)
  BY DigitIs DEF IsNibble
<1> HIDE DEF x, y, b
<1>4. /\ IsNibble(Corrected(s[k]))
      /\ x <= 9 /\ y <= 9 => Corrected(s[k]) <= 9 /\ Corrected(s[k]) + 10 * Bit(s[k] > 9) = x + y + b
  BY <1>1, <1>2, <1>3, CorrectedIs
<1>5. s[k] \in Int
  BY <1>1, <1>2, <1>3 DEF IsNibble
<1> QED BY <1>1, <1>2, <1>3, <1>4, <1>5 DEF x, y, b


\* What one digit of the loop takes in and passes on.
LEMMA DifferenceDigit ==
  ASSUME NEW left \in Int, NEW right \in Int, NEW carry \in BOOLEAN, NEW k \in Spots,
         NEW s, s = Differences(left, right, carry)
  PROVE  LET x == Digit(left, k)
             y == Digit(right, k)
             b == IF k = 0 THEN Bit(~carry) ELSE Bit(s[k - 1] < 0)
         IN /\ s[k] = x - y - b /\ s[k] \in Int /\ b \in {0, 1} /\ IsNibble(x) /\ IsNibble(y)
            /\ IsNibble(Borrowed(s[k]))
            /\ x <= 9 /\ y <= 9 => Borrowed(s[k]) <= 9 /\ Borrowed(s[k]) - 10 * Bit(s[k] < 0) = x - y - b
<1> DEFINE x == Digit(left, k)
           y == Digit(right, k)
           b == IF k = 0 THEN Bit(~carry) ELSE Bit(s[k - 1] < 0)
<1>1. s[k] = x - y - b
  BY DifferencesAre DEF IsDifferences
<1>2. b \in {0, 1}
  BY DEF Bit
<1>3. IsNibble(x) /\ IsNibble(y)
  BY DigitIs DEF IsNibble
<1> HIDE DEF x, y, b
<1>4. /\ IsNibble(Borrowed(s[k]))
      /\ x <= 9 /\ y <= 9 => Borrowed(s[k]) <= 9 /\ Borrowed(s[k]) - 10 * Bit(s[k] < 0) = x - y - b
  BY <1>1, <1>2, <1>3, BorrowedIs
<1>5. s[k] \in Int
  BY <1>1, <1>2, <1>3 DEF IsNibble
<1> QED BY <1>1, <1>2, <1>3, <1>4, <1>5 DEF x, y, b


Decimals(d) == \A k \in Spots : d[k] <= 9
\* Every digit is what it takes in and passes on: up from the lowest one.
Adds(e, x, y, b) == \A k \in Spots : e[k] + 10 * b[k + 1] = x[k] + y[k] + b[k]
Takes(e, x, y, b) == \A k \in Spots : e[k] - 10 * b[k + 1] = x[k] - y[k] - b[k]

\* Digits that hand on their carries spell the sum, ones that borrow the difference.
LEMMA SpellsSum ==
  ASSUME NEW e, NEW x, NEW y, NEW b, IsDigits(e, Int), IsDigits(x, Int), IsDigits(y, Int),
         \A k \in 0 .. Digits : b[k] \in Int, Adds(e, x, y, b)
  PROVE  Spelt(e) + Ten[Digits] * b[Digits] = Spelt(x) + Spelt(y) + b[0]
<1> DEFINE e0 == e[0]  e1 == e[1]  e2 == e[2]  e3 == e[3]
           x0 == x[0]  x1 == x[1]  x2 == x[2]  x3 == x[3]
           y0 == y[0]  y1 == y[1]  y2 == y[2]  y3 == y[3]
           b0 == b[0]  b1 == b[1]  b2 == b[2]  b3 == b[3]  b4 == b[4]
<1>1. e0 \in Int /\ e1 \in Int /\ x0 \in Int /\ x1 \in Int /\ y0 \in Int /\ y1 \in Int
  BY DEF IsDigits
<1>2. b0 \in Int /\ b1 \in Int /\ b2 \in Int
  BY DEF IsDigits
<1>3. e0 + 10 * b1 = x0 + y0 + b0 /\ e1 + 10 * b2 = x1 + y1 + b1
  <2>1. 0 \in Spots /\ 1 \in Spots /\ 0 + 1 = 1 /\ 1 + 1 = 2
    BY DEF IsDigits, Spots
  <2> QED BY <2>1 DEF Adds
<1>4. CASE Digits = 2
  <2>1. Spelt(e) = e0 + 10 * e1 /\ Spelt(x) = x0 + 10 * x1 /\ Spelt(y) = y0 + 10 * y1
    BY <1>4 DEF Spelt, IsDigits
  <2>2. Ten[Digits] = 100 /\ b[Digits] = b2
    BY <1>4, TenIs
  <2>3. b[0] = b0
    OBVIOUS
  <2> HIDE DEF e0, e1, x0, x1, y0, y1, b0, b1, b2
  <2>4. (e0 + 10 * e1) + 100 * b2 = (x0 + 10 * x1) + (y0 + 10 * y1) + b0
    BY ONLY <1>1, <1>2, <1>3
  <2> QED BY <2>1, <2>2, <2>3, <2>4
<1>5. CASE Digits = 4
  <2>1. e2 \in Int /\ e3 \in Int /\ x2 \in Int /\ x3 \in Int /\ y2 \in Int /\ y3 \in Int
    BY <1>5 DEF IsDigits
  <2>2. b3 \in Int /\ b4 \in Int
    BY <1>5
  <2>3. e2 + 10 * b3 = x2 + y2 + b2 /\ e3 + 10 * b4 = x3 + y3 + b3
    <3>1. 2 \in Spots /\ 3 \in Spots /\ 2 + 1 = 3 /\ 3 + 1 = 4
      BY <1>5 DEF Spots
    <3> QED BY <3>1 DEF Adds
  <2>4. /\ Spelt(e) = e0 + 10 * e1 + (100 * e2 + 1000 * e3)
        /\ Spelt(x) = x0 + 10 * x1 + (100 * x2 + 1000 * x3)
        /\ Spelt(y) = y0 + 10 * y1 + (100 * y2 + 1000 * y3)
    BY <1>5 DEF Spelt
  <2>5. Ten[Digits] = 10000 /\ b[Digits] = b4
    BY <1>5, TenIs
  <2>6. b[0] = b0
    OBVIOUS
  <2> HIDE DEF e0, e1, e2, e3, x0, x1, x2, x3, y0, y1, y2, y3, b0, b1, b2, b3, b4
  <2>7. (e0 + 10 * e1 + (100 * e2 + 1000 * e3)) + 10000 * b4
          = (x0 + 10 * x1 + (100 * x2 + 1000 * x3)) + (y0 + 10 * y1 + (100 * y2 + 1000 * y3)) + b0
    BY ONLY <1>1, <1>2, <1>3, <2>1, <2>2, <2>3
  <2> QED BY <2>4, <2>5, <2>6, <2>7
<1> QED BY <1>4, <1>5 DEF IsDigits

LEMMA SpellsDifference ==
  ASSUME NEW e, NEW x, NEW y, NEW b, IsDigits(e, Int), IsDigits(x, Int), IsDigits(y, Int),
         \A k \in 0 .. Digits : b[k] \in Int, Takes(e, x, y, b)
  PROVE  Spelt(e) - Ten[Digits] * b[Digits] = Spelt(x) - Spelt(y) - b[0]
<1> DEFINE e0 == e[0]  e1 == e[1]  e2 == e[2]  e3 == e[3]
           x0 == x[0]  x1 == x[1]  x2 == x[2]  x3 == x[3]
           y0 == y[0]  y1 == y[1]  y2 == y[2]  y3 == y[3]
           b0 == b[0]  b1 == b[1]  b2 == b[2]  b3 == b[3]  b4 == b[4]
<1>1. e0 \in Int /\ e1 \in Int /\ x0 \in Int /\ x1 \in Int /\ y0 \in Int /\ y1 \in Int
  BY DEF IsDigits
<1>2. b0 \in Int /\ b1 \in Int /\ b2 \in Int
  BY DEF IsDigits
<1>3. e0 - 10 * b1 = x0 - y0 - b0 /\ e1 - 10 * b2 = x1 - y1 - b1
  <2>1. 0 \in Spots /\ 1 \in Spots /\ 0 + 1 = 1 /\ 1 + 1 = 2
    BY DEF IsDigits, Spots
  <2> QED BY <2>1 DEF Takes
<1>4. CASE Digits = 2
  <2>1. Spelt(e) = e0 + 10 * e1 /\ Spelt(x) = x0 + 10 * x1 /\ Spelt(y) = y0 + 10 * y1
    BY <1>4 DEF Spelt, IsDigits
  <2>2. Ten[Digits] = 100 /\ b[Digits] = b2
    BY <1>4, TenIs
  <2>3. b[0] = b0
    OBVIOUS
  <2> HIDE DEF e0, e1, x0, x1, y0, y1, b0, b1, b2
  <2>4. (e0 + 10 * e1) - 100 * b2 = (x0 + 10 * x1) - (y0 + 10 * y1) - b0
    BY ONLY <1>1, <1>2, <1>3
  <2> QED BY <2>1, <2>2, <2>3, <2>4
<1>5. CASE Digits = 4
  <2>1. e2 \in Int /\ e3 \in Int /\ x2 \in Int /\ x3 \in Int /\ y2 \in Int /\ y3 \in Int
    BY <1>5 DEF IsDigits
  <2>2. b3 \in Int /\ b4 \in Int
    BY <1>5
  <2>3. e2 - 10 * b3 = x2 - y2 - b2 /\ e3 - 10 * b4 = x3 - y3 - b3
    <3>1. 2 \in Spots /\ 3 \in Spots /\ 2 + 1 = 3 /\ 3 + 1 = 4
      BY <1>5 DEF Spots
    <3> QED BY <3>1 DEF Takes
  <2>4. /\ Spelt(e) = e0 + 10 * e1 + (100 * e2 + 1000 * e3)
        /\ Spelt(x) = x0 + 10 * x1 + (100 * x2 + 1000 * x3)
        /\ Spelt(y) = y0 + 10 * y1 + (100 * y2 + 1000 * y3)
    BY <1>5 DEF Spelt
  <2>5. Ten[Digits] = 10000 /\ b[Digits] = b4
    BY <1>5, TenIs
  <2>6. b[0] = b0
    OBVIOUS
  <2> HIDE DEF e0, e1, e2, e3, x0, x1, x2, x3, y0, y1, y2, y3, b0, b1, b2, b3, b4
  <2>7. (e0 + 10 * e1 + (100 * e2 + 1000 * e3)) - 10000 * b4
          = (x0 + 10 * x1 + (100 * x2 + 1000 * x3)) - (y0 + 10 * y1 + (100 * y2 + 1000 * y3)) - b0
    BY ONLY <1>1, <1>2, <1>3, <2>1, <2>2, <2>3
  <2> QED BY <2>4, <2>5, <2>6, <2>7
<1> QED BY <1>4, <1>5 DEF IsDigits


\* Decimal addition: a word, and for decimal operands the number they give.
LEMMA BcdAddIs ==
  ASSUME NEW left \in Int, NEW right \in Int, NEW carry \in BOOLEAN
  PROVE  LET r == BcdAdd(left, right, carry) IN
         /\ r.a \in AluWord /\ r.c \in BOOLEAN
         /\ Decimal(left) /\ Decimal(right) =>
              /\ Decimal(r.a)
              /\ Number(r.a) + Ten[Digits] * Bit(r.c) = Number(left) + Number(right) + Bit(carry)
<1> DEFINE s == Sums(left, right, carry)
           e == [k \in Spots |-> Corrected(s[k])]
           x == DigitsOf(left)
           y == DigitsOf(right)
           b == [k \in 0 .. Digits |-> IF k = 0 THEN Bit(carry) ELSE Bit(s[k - 1] > 9)]
           r == BcdAdd(left, right, carry)
<1>1. r.a = Packed(e) /\ r.c = (s[Digits - 1] > 9)
  BY DEF BcdAdd, Spots
<1>2. ASSUME NEW k \in Spots
      PROVE  /\ b[k] = (IF k = 0 THEN Bit(carry) ELSE Bit(s[k - 1] > 9))
             /\ b[k + 1] = Bit(s[k] > 9) /\ x[k] = Digit(left, k) /\ y[k] = Digit(right, k)
             /\ e[k] = Corrected(s[k])
  <2>1. k \in 0 .. Digits /\ k + 1 \in 0 .. Digits /\ k + 1 # 0 /\ (k + 1) - 1 = k
    BY AluAssumption DEF Spots
  <2> HIDE DEF s
  <2> QED BY <2>1 DEF DigitsOf
<1>3. ASSUME NEW k \in Spots
      PROVE  /\ IsNibble(e[k]) /\ b[k] \in {0, 1}
             /\ x[k] <= 9 /\ y[k] <= 9 => e[k] <= 9 /\ e[k] + 10 * b[k + 1] = x[k] + y[k] + b[k]
  <2> HIDE DEF s, e, x, y, b
  <2>1. s = Sums(left, right, carry)
    BY DEF s
  <2>2. /\ (IF k = 0 THEN Bit(carry) ELSE Bit(s[k - 1] > 9)) \in {0, 1} /\ IsNibble(Corrected(s[k]))
        /\ Digit(left, k) <= 9 /\ Digit(right, k) <= 9 =>
             /\ Corrected(s[k]) <= 9
             /\ Corrected(s[k]) + 10 * Bit(s[k] > 9) =
                  Digit(left, k) + Digit(right, k) + (IF k = 0 THEN Bit(carry) ELSE Bit(s[k - 1] > 9))
    BY <2>1, SumDigit
  <2> QED BY <1>2, <2>2
<1>4. b[0] = Bit(carry) /\ b[Digits] = Bit(r.c)
  <2>1. 0 \in 0 .. Digits /\ Digits \in 0 .. Digits /\ Digits # 0
    BY AluAssumption
  <2>2. b[Digits] = Bit(s[Digits - 1] > 9)
    BY <2>1
  <2>3. Bit(s[Digits - 1] > 9) = Bit(r.c)
    BY <1>1 DEF Bit
  <2> QED BY <2>1, <2>2, <2>3
<1>5. e \in [Spots -> 0 .. 15]
  <2> HIDE DEF s, e
  <2>1. \A k \in Spots : e[k] \in 0 .. 15
    <3> SUFFICES ASSUME NEW k \in Spots PROVE e[k] \in 0 .. 15
      OBVIOUS
    <3> HIDE DEF x, y, b
    <3>1. IsNibble(e[k])
      BY <1>3
    <3> QED BY ONLY <3>1 DEF IsNibble
  <2> QED BY <2>1 DEF e
<1>6. r.c \in BOOLEAN
  BY <1>1
<1>7. DigitsOf(left) \in [Spots -> 0 .. 15] /\ DigitsOf(right) \in [Spots -> 0 .. 15]
      /\ Number(left) = Spelt(x) /\ Number(right) = Spelt(y)
  BY NumberIs
<1> HIDE DEF s, e, b, r
<1>8. Packed(e) \in AluWord /\ DigitsOf(Packed(e)) = e
  BY <1>5, PackedIs
<1>9. Number(Packed(e)) = Spelt(e)
  <2>1. Packed(e) \in Int
    BY <1>8, HexIs DEF AluWord
  <2> QED BY <1>8, <2>1, NumberIs
<1>10. ASSUME Decimal(left), Decimal(right)
       PROVE  Decimal(r.a) /\ Number(r.a) + Ten[Digits] * Bit(r.c) = Number(left) + Number(right) + Bit(carry)
  <2>1. \A k \in Spots : x[k] <= 9 /\ y[k] <= 9
    BY <1>2, <1>10 DEF Decimal, Spots
  <2> HIDE DEF x, y
  <2>2. \A k \in Spots : e[k] <= 9
    BY <1>3, <2>1
  <2>3. Decimal(r.a)
    <3>1. \A k \in Spots : Digit(Packed(e), k) = DigitsOf(Packed(e))[k]
      BY DEF DigitsOf
    <3> QED BY <1>1, <1>8, <2>2, <3>1 DEF Decimal, Spots
  <2>4. IsDigits(e, Int) /\ IsDigits(x, Int) /\ IsDigits(y, Int)
    <3>1. e \in [Spots -> Int] /\ x \in [Spots -> Int] /\ y \in [Spots -> Int]
      BY <1>5, <1>7 DEF x, y
    <3> QED BY <3>1, HasDigits
  <2>5. Adds(e, x, y, b)
    BY <1>3, <2>1 DEF Adds
  <2>6. \A k \in 0 .. Digits : b[k] \in Int
    BY DEF b, Bit
  <2>7. Spelt(e) + Ten[Digits] * b[Digits] = Spelt(x) + Spelt(y) + b[0]
    BY <2>4, <2>5, <2>6, SpellsSum
  <2> QED BY <1>1, <1>4, <1>7, <1>9, <2>3, <2>7
<1> QED BY <1>1, <1>6, <1>8, <1>10 DEF r


\* Decimal subtraction: a word, and for decimal operands the number they give.
LEMMA BcdSubtractIs ==
  ASSUME NEW left \in Int, NEW right \in Int, NEW carry \in BOOLEAN
  PROVE  LET r == BcdSubtract(left, right, carry) IN
         /\ r.a \in AluWord /\ r.c \in BOOLEAN
         /\ Decimal(left) /\ Decimal(right) =>
              /\ Decimal(r.a)
              /\ Number(r.a) - Ten[Digits] * Bit(~r.c) = Number(left) - Number(right) - Bit(~carry)
<1> DEFINE s == Differences(left, right, carry)
           e == [k \in Spots |-> Borrowed(s[k])]
           x == DigitsOf(left)
           y == DigitsOf(right)
           b == [k \in 0 .. Digits |-> IF k = 0 THEN Bit(~carry) ELSE Bit(s[k - 1] < 0)]
           r == BcdSubtract(left, right, carry)
<1>1. r.a = Packed(e) /\ r.c = (s[Digits - 1] >= 0)
  BY DEF BcdSubtract, Spots
<1>2. ASSUME NEW k \in Spots
      PROVE  /\ b[k] = (IF k = 0 THEN Bit(~carry) ELSE Bit(s[k - 1] < 0))
             /\ b[k + 1] = Bit(s[k] < 0) /\ x[k] = Digit(left, k) /\ y[k] = Digit(right, k)
             /\ e[k] = Borrowed(s[k])
  <2>1. k \in 0 .. Digits /\ k + 1 \in 0 .. Digits /\ k + 1 # 0 /\ (k + 1) - 1 = k
    BY AluAssumption DEF Spots
  <2> HIDE DEF s
  <2> QED BY <2>1 DEF DigitsOf
<1>3. ASSUME NEW k \in Spots
      PROVE  /\ IsNibble(e[k]) /\ b[k] \in {0, 1}
             /\ x[k] <= 9 /\ y[k] <= 9 => e[k] <= 9 /\ e[k] - 10 * b[k + 1] = x[k] - y[k] - b[k]
  <2> HIDE DEF s, e, x, y, b
  <2>1. s = Differences(left, right, carry)
    BY DEF s
  <2>2. /\ (IF k = 0 THEN Bit(~carry) ELSE Bit(s[k - 1] < 0)) \in {0, 1} /\ IsNibble(Borrowed(s[k]))
        /\ Digit(left, k) <= 9 /\ Digit(right, k) <= 9 =>
             /\ Borrowed(s[k]) <= 9
             /\ Borrowed(s[k]) - 10 * Bit(s[k] < 0) =
                  Digit(left, k) - Digit(right, k) - (IF k = 0 THEN Bit(~carry) ELSE Bit(s[k - 1] < 0))
    BY <2>1, DifferenceDigit
  <2> QED BY <1>2, <2>2
<1>4. b[0] = Bit(~carry) /\ b[Digits] = Bit(~r.c)
  <2>1. 0 \in 0 .. Digits /\ Digits \in 0 .. Digits /\ Digits # 0
    BY AluAssumption
  <2>2. b[Digits] = Bit(s[Digits - 1] < 0)
    BY <2>1
  <2>3. Bit(s[Digits - 1] < 0) = Bit(~r.c)
    <3> DEFINE k == Digits - 1
    <3>1. k \in Spots
      BY AluAssumption DEF Spots
    <3> HIDE DEF k, s
    <3>2. s[k] \in Int
      <4>1. s = Differences(left, right, carry)
        BY DEF s
      <4> QED BY <3>1, <4>1, DifferenceDigit
    <3>3. Bit(s[k] < 0) = Bit(~(s[k] >= 0))
      BY <3>2 DEF Bit
    <3> QED BY <1>1, <3>3 DEF k
  <2> QED BY <2>1, <2>2, <2>3
<1>5. e \in [Spots -> 0 .. 15]
  <2> HIDE DEF s, e
  <2>1. \A k \in Spots : e[k] \in 0 .. 15
    <3> SUFFICES ASSUME NEW k \in Spots PROVE e[k] \in 0 .. 15
      OBVIOUS
    <3> HIDE DEF x, y, b
    <3>1. IsNibble(e[k])
      BY <1>3
    <3> QED BY ONLY <3>1 DEF IsNibble
  <2> QED BY <2>1 DEF e
<1>6. r.c \in BOOLEAN
  BY <1>1
<1>7. DigitsOf(left) \in [Spots -> 0 .. 15] /\ DigitsOf(right) \in [Spots -> 0 .. 15]
      /\ Number(left) = Spelt(x) /\ Number(right) = Spelt(y)
  BY NumberIs
<1> HIDE DEF s, e, b, r
<1>8. Packed(e) \in AluWord /\ DigitsOf(Packed(e)) = e
  BY <1>5, PackedIs
<1>9. Number(Packed(e)) = Spelt(e)
  <2>1. Packed(e) \in Int
    BY <1>8, HexIs DEF AluWord
  <2> QED BY <1>8, <2>1, NumberIs
<1>10. ASSUME Decimal(left), Decimal(right)
       PROVE  Decimal(r.a) /\ Number(r.a) - Ten[Digits] * Bit(~r.c) = Number(left) - Number(right) - Bit(~carry)
  <2>1. \A k \in Spots : x[k] <= 9 /\ y[k] <= 9
    BY <1>2, <1>10 DEF Decimal, Spots
  <2> HIDE DEF x, y
  <2>2. \A k \in Spots : e[k] <= 9
    BY <1>3, <2>1
  <2>3. Decimal(r.a)
    <3>1. \A k \in Spots : Digit(Packed(e), k) = DigitsOf(Packed(e))[k]
      BY DEF DigitsOf
    <3> QED BY <1>1, <1>8, <2>2, <3>1 DEF Decimal, Spots
  <2>4. IsDigits(e, Int) /\ IsDigits(x, Int) /\ IsDigits(y, Int)
    <3>1. e \in [Spots -> Int] /\ x \in [Spots -> Int] /\ y \in [Spots -> Int]
      BY <1>5, <1>7 DEF x, y
    <3> QED BY <3>1, HasDigits
  <2>5. Takes(e, x, y, b)
    BY <1>3, <2>1 DEF Takes
  <2>6. \A k \in 0 .. Digits : b[k] \in Int
    BY DEF b, Bit
  <2>7. Spelt(e) - Ten[Digits] * b[Digits] = Spelt(x) - Spelt(y) - b[0]
    BY <2>4, <2>5, <2>6, SpellsDifference
  <2> QED BY <1>1, <1>4, <1>7, <1>9, <2>3, <2>7
<1> QED BY <1>1, <1>6, <1>8, <1>10 DEF r


-----------------------------------------------------------------------------
(* The binary results, and every instruction.                              *)

LEMMA BaseIs ==
  Base \in {256, 65536}
BY HexIs

\* A binary sum wraps into its carry and overflows out of the signed range.
SumWraps(sum, l, r, b) ==
  /\ sum % Base \in AluWord
  /\ (sum % Base) + Base * Bit(sum >= Base) = sum
  /\ Overflows(l, r, Sign(sum % Base)) = ~Fits(TwosComplement(l) + TwosComplement(r) + b)

LEMMA BinarySum ==
  ASSUME NEW l \in AluWord, NEW r \in AluWord, NEW b \in {0, 1}, NEW sum, sum = l + r + b
  PROVE  SumWraps(sum, l, r, b)
<1> DEFINE B == Base
           h == B \div 2
           m == sum % B
           n == TwosComplement(l) + TwosComplement(r) + b
<1>1. B \in {256, 65536} /\ h = (IF B = 256 THEN 128 ELSE 32768)
  BY BaseIs
<1>2. l \in 0 .. B - 1 /\ r \in 0 .. B - 1
  BY DEF AluWord
<1>3. \A x \in {l, r, m} : /\ Sign(x) <=> x >= h
                           /\ TwosComplement(x) = IF x >= h THEN x - B ELSE x
  BY DEF Sign, TwosComplement
<1>4. Fits(n) <=> -h <= n /\ n < h
  BY DEF Fits
<1> HIDE DEF B, h
<1>5. /\ B \in Int /\ h \in Int /\ B = 2 * h /\ b \in {0, 1} /\ sum \in Int /\ sum = l + r + b
      /\ l \in Int /\ 0 <= l /\ l < B /\ r \in Int /\ 0 <= r /\ r < B
  BY <1>1, <1>2
<1>6. 0 <= sum /\ sum < 2 * B
  BY <1>5
<1>7. m = (IF sum >= B THEN sum - B ELSE sum) /\ m \in Int /\ 0 <= m /\ m < B
  <2>1. CASE B = 256
    BY ONLY <1>5, <1>6, <2>1
  <2>2. CASE B = 65536
    BY ONLY <1>5, <1>6, <2>2
  <2> QED BY <1>1, <2>1, <2>2
<1>8. n = (IF l >= h THEN l - B ELSE l) + (IF r >= h THEN r - B ELSE r) + b
  BY <1>3
<1> HIDE DEF m, n
<1>9. n \in Int
  BY <1>5, <1>8
<1>10. ((l >= h <=> r >= h) /\ ~(l >= h <=> m >= h)) <=> ~(-h <= n /\ n < h)
  BY ONLY <1>5, <1>7, <1>8, <1>9
<1>11. Overflows(l, r, Sign(sum % Base)) = ~Fits(n)
  <2>1. m = sum % Base
    BY DEF m, B
  <2>2. /\ Sign(l) \in BOOLEAN /\ Sign(r) \in BOOLEAN /\ Sign(m) \in BOOLEAN /\ Fits(n) \in BOOLEAN
    BY DEF Sign, Fits
  <2>3. (Sign(l) <=> l >= h) /\ (Sign(r) <=> r >= h) /\ (Sign(m) <=> m >= h)
    BY <1>3
  <2> QED BY <1>4, <1>10, <2>1, <2>2, <2>3 DEF Overflows
<1>12. m + B * Bit(sum >= Base) = sum
  <2>0. Base = B
    BY DEF B
  <2>1. B * Bit(sum >= Base) = IF sum >= B THEN B ELSE 0
    BY <1>5, <1>6, <2>0 DEF Bit
  <2> QED BY ONLY <1>5, <1>7, <2>1
<1>13. m \in AluWord
  <2>1. Base = B
    BY DEF B
  <2>2. m \in 0 .. B - 1
    BY ONLY <1>5, <1>7
  <2> QED BY <2>1, <2>2 DEF AluWord
<1> QED BY <1>11, <1>12, <1>13 DEF m, n, B, SumWraps

\* So does a difference, into its borrow.
DifferenceWraps(d, l, r, b) ==
  /\ d % Base \in AluWord
  /\ (d % Base) - Base * Bit(~(l >= r + b)) = d
  /\ (Sign(l) # Sign(r) /\ Sign(l) # Sign(d % Base)) = ~Fits(TwosComplement(l) - TwosComplement(r) - b)

LEMMA BinaryDifference ==
  ASSUME NEW l \in AluWord, NEW r \in AluWord, NEW b \in {0, 1}, NEW d, d = l - r - b
  PROVE  DifferenceWraps(d, l, r, b)
<1> DEFINE B == Base
           h == B \div 2
           m == d % B
           n == TwosComplement(l) - TwosComplement(r) - b
<1>1. B \in {256, 65536} /\ h = (IF B = 256 THEN 128 ELSE 32768)
  BY BaseIs
<1>2. l \in 0 .. B - 1 /\ r \in 0 .. B - 1
  BY DEF AluWord
<1>3. \A x \in {l, r, m} : /\ Sign(x) <=> x >= h
                           /\ TwosComplement(x) = IF x >= h THEN x - B ELSE x
  BY DEF Sign, TwosComplement
<1>4. Fits(n) <=> -h <= n /\ n < h
  BY DEF Fits
<1> HIDE DEF B, h
<1>5. /\ B \in Int /\ h \in Int /\ B = 2 * h /\ b \in {0, 1} /\ d \in Int /\ d = l - r - b
      /\ l \in Int /\ 0 <= l /\ l < B /\ r \in Int /\ 0 <= r /\ r < B
  BY <1>1, <1>2
<1>6. -B <= d /\ d < B /\ (l >= r + b <=> ~(d < 0))
  BY <1>5
<1>7. m = (IF d < 0 THEN d + B ELSE d) /\ m \in Int /\ 0 <= m /\ m < B
  <2>1. CASE B = 256
    BY ONLY <1>5, <1>6, <2>1
  <2>2. CASE B = 65536
    BY ONLY <1>5, <1>6, <2>2
  <2> QED BY <1>1, <2>1, <2>2
<1>8. n = (IF l >= h THEN l - B ELSE l) - (IF r >= h THEN r - B ELSE r) - b
  BY <1>3
<1> HIDE DEF m, n
<1>9. n \in Int
  BY <1>5, <1>8
<1>10. (~(l >= h <=> r >= h) /\ ~(l >= h <=> m >= h)) <=> ~(-h <= n /\ n < h)
  BY ONLY <1>5, <1>7, <1>8, <1>9
<1>11. (Sign(l) # Sign(r) /\ Sign(l) # Sign(d % Base)) = ~Fits(n)
  <2>1. m = d % Base
    BY DEF m, B
  <2>2. /\ Sign(l) \in BOOLEAN /\ Sign(r) \in BOOLEAN /\ Sign(m) \in BOOLEAN /\ Fits(n) \in BOOLEAN
    BY DEF Sign, Fits
  <2>3. (Sign(l) <=> l >= h) /\ (Sign(r) <=> r >= h) /\ (Sign(m) <=> m >= h)
    BY <1>3
  <2> QED BY <1>4, <1>10, <2>1, <2>2, <2>3 
<1>12. m - B * Bit(~(l >= r + b)) = d
  <2>1. B * Bit(~(l >= r + b)) = IF d < 0 THEN B ELSE 0
    BY <1>5, <1>6 DEF Bit
  <2> QED BY ONLY <1>5, <1>7, <2>1
<1>13. m \in AluWord
  <2>1. Base = B
    BY DEF B
  <2>2. m \in 0 .. B - 1
    BY ONLY <1>5, <1>7
  <2> QED BY <2>1, <2>2 DEF AluWord
<1> QED BY <1>11, <1>12, <1>13 DEF m, n, B, DifferenceWraps


-----------------------------------------------------------------------------
AluState == [a : AluWord, c : BOOLEAN, d : BOOLEAN, v : BOOLEAN]

\* What led here is what the state remembers of it.
AluInv ==
  /\ alu \in AluState /\ executed.was \in AluState
  /\ executed.name \in {"CLD", "SED", "ADC", "SBC", "CMP"}
  /\ executed.name \in {"ADC", "SBC", "CMP"} => executed.right \in Rights
  /\ executed.name = "ADC" => alu = ExecuteAdc(executed.was, executed.right)
  /\ executed.name = "SBC" => alu = ExecuteSbc(executed.was, executed.right)
  /\ executed.name = "CMP" => alu = ExecuteCompare(executed.was, executed.right)

LEMMA AluOperands ==
  Rights \subseteq AluWord /\ 0 \in AluWord /\ AluWord \subseteq Int
<1>1. Base \in Int /\ Base > 0
  BY BaseIs
<1> QED BY <1>1, AluAssumption DEF AluWord

\* ADC and SBC leave a state, and what the reference says of it.
AdcMeets(was, right, now) ==
  /\ ~was.d => /\ now.a + Base * Bit(now.c) = was.a + right + Bit(was.c)
               /\ now.v = ~Fits(TwosComplement(was.a) + TwosComplement(right) + Bit(was.c))
  /\ was.d /\ Decimal(was.a) /\ Decimal(right) =>
       /\ Decimal(now.a)
       /\ Number(now.a) + Ten[Digits] * Bit(now.c) = Number(was.a) + Number(right) + Bit(was.c)
SbcMeets(was, right, now) ==
  LET borrow == Bit(~was.c) IN
  /\ ~was.d => /\ now.a - Base * Bit(~now.c) = was.a - right - borrow
               /\ now.v = ~Fits(TwosComplement(was.a) - TwosComplement(right) - borrow)
  /\ was.d /\ Decimal(was.a) /\ Decimal(right) =>
       /\ Decimal(now.a)
       /\ Number(now.a) - Ten[Digits] * Bit(~now.c) = Number(was.a) - Number(right) - borrow

LEMMA AdcIs ==
  ASSUME NEW was \in AluState, NEW right \in AluWord
  PROVE  ExecuteAdc(was, right) \in AluState /\ AdcMeets(was, right, ExecuteAdc(was, right))
<1> DEFINE now == ExecuteAdc(was, right)
<1>1. was.a \in AluWord /\ was.c \in BOOLEAN /\ was.d \in BOOLEAN /\ was.v \in BOOLEAN
  BY DEF AluState
<1>2. CASE was.d
  <2> DEFINE bcd == BcdAdd(was.a, right, was.c)
  <2>1. now = [was EXCEPT !.a = bcd.a, !.c = bcd.c, !.v = bcd.v]
    BY <1>2 DEF ExecuteAdc
  <2>2. /\ bcd.a \in AluWord /\ bcd.c \in BOOLEAN
        /\ Decimal(was.a) /\ Decimal(right) =>
              /\ Decimal(bcd.a)
              /\ Number(bcd.a) + Ten[Digits] * Bit(bcd.c) = Number(was.a) + Number(right) + Bit(was.c)
    BY <1>1, AluOperands, BcdAddIs
  <2>3. bcd.v \in BOOLEAN
    BY DEF BcdAdd, Overflows
  <2> HIDE DEF bcd, now
  <2>4. now \in AluState /\ now.a = bcd.a /\ now.c = bcd.c
    BY <1>1, <2>1, <2>2, <2>3 DEF AluState
  <2>5. AdcMeets(was, right, now)
    BY <1>2, <2>2, <2>4 DEF AdcMeets
  <2> QED BY <2>4, <2>5 DEF now
<1>3. CASE ~was.d
  <2> DEFINE sum == was.a + right + Bit(was.c)
  <2>1. now = [was EXCEPT !.a = sum % Base, !.c = sum >= Base, !.v = Overflows(was.a, right, Sign(sum % Base))]
    BY <1>3 DEF ExecuteAdc
  <2>2. Bit(was.c) \in {0, 1}
    BY DEF Bit
  <2>3. /\ sum % Base \in AluWord /\ (sum % Base) + Base * Bit(sum >= Base) = sum
        /\ Overflows(was.a, right, Sign(sum % Base)) = ~Fits(TwosComplement(was.a) + TwosComplement(right) + Bit(was.c))
    <3> DEFINE b == Bit(was.c)  l == was.a
    <3>1. l \in AluWord /\ b \in {0, 1} /\ sum = l + right + b
      BY <1>1, <2>2
    <3> HIDE DEF b, l, sum
    <3>2. SumWraps(sum, l, right, b)
      BY ONLY right \in AluWord, <3>1, BinarySum
    <3> QED BY <3>2 DEF b, l, SumWraps
  <2>a. sum = was.a + right + Bit(was.c)
    OBVIOUS
  <2> DEFINE v == Overflows(was.a, right, Sign(sum % Base))
             c == sum >= Base
             a == sum % Base
  <2>4. v \in BOOLEAN /\ c \in BOOLEAN
    BY DEF Overflows
  <2> HIDE DEF sum
  <2>5. /\ now = [was EXCEPT !.a = a, !.c = c, !.v = v] /\ a \in AluWord /\ a + Base * Bit(c) = sum
        /\ v = ~Fits(TwosComplement(was.a) + TwosComplement(right) + Bit(was.c))
    BY <2>1, <2>3
  <2> HIDE DEF a, c, v, now
  <2>6. now \in AluState /\ now.a = a /\ now.c = c /\ now.v = v
    BY <1>1, <2>4, <2>5 DEF AluState
  <2>7. AdcMeets(was, right, now)
    BY <1>3, <2>5, <2>6, <2>a DEF AdcMeets
  <2> QED BY <2>6, <2>7 DEF now
<1> QED BY <1>2, <1>3

LEMMA SbcIs ==
  ASSUME NEW was \in AluState, NEW right \in AluWord
  PROVE  ExecuteSbc(was, right) \in AluState /\ SbcMeets(was, right, ExecuteSbc(was, right))
<1> DEFINE now == ExecuteSbc(was, right)
           d == was.a - right - Bit(~was.c)
           v == Sign(was.a) # Sign(right) /\ Sign(was.a) # Sign(d % Base)
<1>1. was.a \in AluWord /\ was.c \in BOOLEAN /\ was.d \in BOOLEAN /\ was.v \in BOOLEAN
  BY DEF AluState
<1>2. CASE was.d
  <2> DEFINE bcd == BcdSubtract(was.a, right, was.c)
  <2>1. now = [was EXCEPT !.a = bcd.a, !.c = bcd.c, !.v = v]
    BY <1>2 DEF ExecuteSbc
  <2>2. /\ bcd.a \in AluWord /\ bcd.c \in BOOLEAN
        /\ Decimal(was.a) /\ Decimal(right) =>
              /\ Decimal(bcd.a)
              /\ Number(bcd.a) - Ten[Digits] * Bit(~bcd.c) = Number(was.a) - Number(right) - Bit(~was.c)
    BY <1>1, AluOperands, BcdSubtractIs
  <2>3. v \in BOOLEAN
    OBVIOUS
  <2> HIDE DEF bcd, now, v
  <2>4. now \in AluState /\ now.a = bcd.a /\ now.c = bcd.c
    BY <1>1, <2>1, <2>2, <2>3 DEF AluState
  <2>5. SbcMeets(was, right, now)
    BY <1>2, <2>2, <2>4 DEF SbcMeets
  <2> QED BY <2>4, <2>5 DEF now
<1>3. CASE ~was.d
  <2>1. now = [was EXCEPT !.a = d % Base, !.c = was.a >= right + Bit(~was.c), !.v = v]
    BY <1>3 DEF ExecuteSbc
  <2>2. Bit(~was.c) \in {0, 1}
    BY DEF Bit
  <2>3. /\ d % Base \in AluWord /\ (d % Base) - Base * Bit(~(was.a >= right + Bit(~was.c))) = d
        /\ v = ~Fits(TwosComplement(was.a) - TwosComplement(right) - Bit(~was.c))
    <3> DEFINE b == Bit(~was.c)  l == was.a
    <3>1. l \in AluWord /\ b \in {0, 1} /\ d = l - right - b
      BY <1>1, <2>2
    <3>0. v = (Sign(l) # Sign(right) /\ Sign(l) # Sign(d % Base))
      OBVIOUS
    <3> HIDE DEF b, l, d, v
    <3>2. DifferenceWraps(d, l, right, b)
      BY ONLY right \in AluWord, <3>1, BinaryDifference
    <3>3. v = ~Fits(TwosComplement(l) - TwosComplement(right) - b)
      BY <3>0, <3>2, Zenon DEF DifferenceWraps
    <3> QED BY <3>2, <3>3 DEF b, l, DifferenceWraps
  <2>a. d = was.a - right - Bit(~was.c)
    OBVIOUS
  <2> DEFINE c == was.a >= right + Bit(~was.c)
             a == d % Base
  <2>4. v \in BOOLEAN /\ c \in BOOLEAN
    OBVIOUS
  <2> HIDE DEF d, v
  <2>5. /\ now = [was EXCEPT !.a = a, !.c = c, !.v = v] /\ a \in AluWord /\ a - Base * Bit(~c) = d
        /\ v = ~Fits(TwosComplement(was.a) - TwosComplement(right) - Bit(~was.c))
    BY <2>1, <2>3
  <2> HIDE DEF a, c, now
  <2>6. now \in AluState /\ now.a = a /\ now.c = c /\ now.v = v
    BY <1>1, <2>4, <2>5 DEF AluState
  <2>7. SbcMeets(was, right, now)
    BY <1>3, <2>5, <2>6, <2>a DEF SbcMeets
  <2> QED BY <2>6, <2>7 DEF now
<1> QED BY <1>2, <1>3

LEMMA CompareIs ==
  ASSUME NEW was \in AluState, NEW right \in AluWord
  PROVE  LET now == ExecuteCompare(was, right) IN
         now \in AluState /\ now.a = was.a /\ now.c = (was.a >= right)
<1> DEFINE c == was.a >= right
           now == [was EXCEPT !.c = c]
<1>1. ExecuteCompare(was, right) = now /\ c \in BOOLEAN
  BY DEF ExecuteCompare
<1> HIDE DEF c
<1>2. now \in AluState /\ now.a = was.a /\ now.c = c
  BY <1>1 DEF AluState
<1> QED BY <1>1, <1>2 DEF c

LEMMA AluInvInit == AluInit => AluInv
BY AluOperands DEF AluInit, AluInv, AluState

LEMMA AluInvNext == AluInv /\ [AluNext]_aluVars => AluInv'
<1> SUFFICES ASSUME AluInv, [AluNext]_aluVars PROVE AluInv'
  OBVIOUS
<1>1. ASSUME NEW right \in Rights, Adc(right) PROVE AluInv'
  <2>1. right \in AluWord
    BY AluOperands
  <2>2. ExecuteAdc(alu, right) \in AluState
    BY <2>1, AdcIs DEF AluInv
  <2> QED BY <1>1, <2>2 DEF AluInv, Adc, Did
<1>2. ASSUME NEW right \in Rights, Sbc(right) PROVE AluInv'
  <2>1. right \in AluWord
    BY AluOperands
  <2>2. ExecuteSbc(alu, right) \in AluState
    BY <2>1, SbcIs DEF AluInv
  <2> QED BY <1>2, <2>2 DEF AluInv, Sbc, Did
<1>3. ASSUME NEW right \in Rights, Compare(right) PROVE AluInv'
  <2>1. right \in AluWord
    BY AluOperands
  <2>2. ExecuteCompare(alu, right) \in AluState
    BY <2>1, CompareIs DEF AluInv
  <2> QED BY <1>3, <2>2 DEF AluInv, Compare, Did
<1>4. ASSUME NEW on \in BOOLEAN, SetDecimal(on) PROVE AluInv'
  BY <1>4 DEF AluInv, SetDecimal, Did, AluState
<1>5. CASE UNCHANGED aluVars
  BY <1>5 DEF AluInv, aluVars
<1> QED BY <1>1, <1>2, <1>3, <1>4, <1>5 DEF AluNext

LEMMA AluInvMeets == AluInv => AluMeetsReference
<1> SUFFICES ASSUME AluInv PROVE AluMeetsReference
  OBVIOUS
<1> DEFINE was == executed.was
           right == executed.right
<1>1. was \in AluState /\ (executed.name \in {"ADC", "SBC", "CMP"} => right \in AluWord)
  BY AluOperands DEF AluInv
<1>2. CASE executed.name = "ADC"
  <2>1. AdcMeets(was, right, alu)
    BY <1>1, <1>2, AdcIs DEF AluInv
  <2> QED BY <1>2, <2>1 DEF AluMeetsReference, AdcMeets
<1>3. CASE executed.name = "SBC"
  <2>1. SbcMeets(was, right, alu)
    BY <1>1, <1>3, SbcIs DEF AluInv
  <2> QED BY <1>3, <2>1 DEF AluMeetsReference, SbcMeets
<1>4. CASE executed.name = "CMP"
  <2>1. alu.a = was.a /\ alu.c = (was.a >= right)
    BY <1>1, <1>4, CompareIs DEF AluInv
  <2> QED BY <1>4, <2>1 DEF AluMeetsReference
<1>5. CASE executed.name \in {"CLD", "SED"}
  BY <1>5 DEF AluMeetsReference
<1> QED BY <1>2, <1>3, <1>4, <1>5 DEF AluInv

\* In both widths and for every set of operands, whatever the instructions
\* before it left.
THEOREM ArithmeticIsRight == AluSpec => []AluMeetsReference
<1>1. AluInit => AluInv
  BY AluInvInit
<1>2. AluInv /\ [AluNext]_aluVars => AluInv'
  BY AluInvNext
<1>3. AluInv => AluMeetsReference
  BY AluInvMeets
<1> QED BY <1>1, <1>2, <1>3, PTL DEF AluSpec
=============================================================================

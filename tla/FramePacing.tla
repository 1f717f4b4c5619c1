----------------------------- MODULE FramePacing -----------------------------
(***************************************************************************)
(* Two clocks a frame is paced by: the host's counter, on which the Switch *)
(* and the SDL host each keep a deadline, and the emulated master clock,   *)
(* on which Dkc2RunOneFrame cuts a frame off.  Times are kept relative to  *)
(* the deadlines.                                                          *)
(***************************************************************************)
EXTENDS Integers, FiniteSetsExt

CONSTANTS
    Num, Den,         \* host ticks per frame as a fraction
    SdlSlack,         \* the SDL host's forgiven lateness, 2 ms
    Works,            \* ticks one pass of a host's loop takes
    MaxOvershoot,     \* how much later than asked a delay ends
    FrameClocks,      \* 1364 * 262
    Overruns          \* clocks the last instruction of a frame runs past the deadline

ASSUME PacingAssumption ==
    /\ Num \in Nat \ {0} /\ Den \in Nat \ {0} /\ Num >= Den
    /\ SdlSlack \in Nat /\ MaxOvershoot \in Nat
    /\ MaxOvershoot <= SdlSlack /\ MaxOvershoot <= 3 * (Num \div Den)
    /\ Works \subseteq Nat /\ Overruns \subseteq Nat
    /\ FrameClocks \in Nat \ {0}

VARIABLES
    style,      \* "switch" or "sdl": when lateness is forgiven
    pace,       \* [lag: now - deadline, fraction: the carried part of a tick, over Den]
    burst,      \* history: how far a run of frames has outrun their ticks, over Den
    drift,      \* history: how far frames that all waited have fallen behind, over Den
    ahead,      \* s_next_frame_master - master_cycles
    over,       \* history: the clocks the last frame ran past its deadline
    snapshot    \* the two of a state file

pacingVars == <<style, pace, burst, drift, ahead, over, snapshot>>

\* The Switch's frame is a whole number of ticks; the SDL host carries the rest.
frame_ticks == Num \div Den
Ticks == IF style = "switch" THEN frame_ticks * Den ELSE Num
WholeTicks == IF style = "switch" THEN frame_ticks ELSE (pace.fraction + Num) \div Den
Carried == IF style = "switch" THEN 0 ELSE (pace.fraction + Num) % Den

\* The lateness that is still caught up; beyond it the deadline is now.
Slack == IF style = "switch" THEN 3 * frame_ticks ELSE SdlSlack

PacingInit ==
    /\ style \in {"switch", "sdl"}
    /\ pace = [lag |-> 0, fraction |-> 0]
    /\ burst = 0 /\ drift = 0
    /\ ahead = FrameClocks /\ over = 0
    /\ snapshot = [ahead |-> ahead, over |-> over]

\* The clocks a frame may run: a deadline that has passed moves by whole
\* frames until it lies ahead.
Budget ==
    IF ahead > 0 THEN ahead
    ELSE ahead + FrameClocks * ((-ahead) \div FrameClocks + 1)

\* The frame ends at its deadline or, if an instruction crossed it, after it.
Dkc2RunOneFrame(overrun) ==
    /\ ahead' = FrameClocks - overrun
    /\ over' = overrun
    /\ UNCHANGED snapshot

Ticked(interval) ==
    /\ burst' = Max({0, burst + Ticks - interval * Den})
    /\ UNCHANGED style

Behind(work) == pace.lag + work - WholeTicks

\* In time: the host waits for the deadline and wakes at it or a little later.
Wait(work, overshoot) ==
    /\ Behind(work) < 0
    /\ pace' = [lag |-> overshoot, fraction |-> Carried]
    /\ drift' = Max({0, drift + (WholeTicks + overshoot - pace.lag) * Den - Ticks})
    /\ Ticked(WholeTicks + overshoot - pace.lag)

\* Mutant: no lateness is forgiven.
CatchUpAlways(work) ==
    /\ Behind(work) >= 0
    /\ pace' = [lag |-> Behind(work), fraction |-> Carried]
    /\ drift' = 0
    /\ Ticked(work)

\* Late: the next frame follows at once, and the deadline is kept.
CatchUp(work) ==
    /\ Behind(work) >= 0 /\ Behind(work) <= Slack
    /\ pace' = [lag |-> Behind(work), fraction |-> Carried]
    /\ drift' = 0
    /\ Ticked(work)

\* Too late: the deadline is now, and the fraction is dropped.
Reanchor(work) ==
    /\ Behind(work) > Slack
    /\ pace' = [lag |-> 0, fraction |-> 0]
    /\ drift' = 0
    /\ Ticked(work)

PacedFrame(work, overrun) ==
    /\ Dkc2RunOneFrame(overrun)
    /\ \/ \E overshoot \in 0 .. MaxOvershoot : Wait(work, overshoot)
       \/ CatchUp(work)
       \/ Reanchor(work)

\* Return of the focus, and an SDL frame that is not paced.
Restart ==
    /\ pace' = [lag |-> 0, fraction |-> 0]
    /\ burst' = 0 /\ drift' = 0
    /\ UNCHANGED <<style, ahead, over, snapshot>>

SaveSnapshot ==
    /\ snapshot' = [ahead |-> ahead, over |-> over]
    /\ UNCHANGED <<style, pace, burst, drift, ahead, over>>

LoadSnapshot ==
    /\ ahead' = snapshot.ahead /\ over' = snapshot.over
    /\ UNCHANGED <<style, pace, burst, drift, snapshot>>

PacingNext ==
    \/ \E work \in Works, overrun \in Overruns : PacedFrame(work, overrun)
    \/ Restart \/ SaveSnapshot \/ LoadSnapshot

PacingSpec == PacingInit /\ [][PacingNext]_pacingVars

-----------------------------------------------------------------------------
(* Properties.                                                             *)

PacingTypeOK ==
    /\ style \in {"switch", "sdl"}
    /\ pace \in [lag : 0 .. Slack, fraction : 0 .. Den - 1]
    /\ burst \in Nat /\ drift \in Nat
    /\ ahead \in Int /\ over \in Nat
    /\ snapshot \in [ahead : Int, over : Nat]

\* However frames stall, catch up and are re-anchored, no run of frames is
\* shorter than its ticks by more than the slack and one tick; and frames that
\* all had time to wait do not fall behind by more than one late wake-up.
Cadence ==
    /\ burst <= (Slack + 1) * Den
    /\ drift <= (MaxOvershoot + 1) * Den

\* A frame runs some of the emulated clock and never more than one frame of
\* it; it is shorter by what the frame before it, or before the state that was
\* loaded, ran past its own deadline.
FrameBudget ==
    /\ Budget \in 1 .. FrameClocks
    /\ over < FrameClocks => Budget + over = FrameClocks

PacingKept == Cadence /\ FrameBudget
=============================================================================

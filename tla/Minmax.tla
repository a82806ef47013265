------------------------------- MODULE Minmax -------------------------------
(***************************************************************************)
(* The windowed minimum and maximum filter (pemi/src/minmax.rs), which      *)
(* keeps three samples instead of all those of the window, as operators on  *)
(* a filter: the sequence of the best, second best and third best sample.   *)
(* Times and values are natural numbers.  Only running_min is in use.       *)
(***************************************************************************)
EXTENDS Integers, Sequences

NewSample(t, v) == [time |-> t, value |-> v]

\* reset(), and new() with a value no sample reaches.
Reset(t, v) == [i \in 1..3 |-> NewSample(t, v)]

\* The best sample is dropped, the others move up.
Shift(f, new) == <<f[2], f[3], new>>

\* Mutation: the best sample does not leave the window.
SubwinUpdateKeeps(f, win, t, v) ==
  LET new   == NewSample(t, v)
      delta == t - f[1].time
  IN  IF f[2].time = f[1].time /\ 4 * delta > win THEN <<f[1], new, new>>
      ELSE IF f[3].time = f[2].time /\ 2 * delta > win THEN <<f[1], f[2], new>>
      ELSE f


\* subwin_update: drop what has left the window; have a second sample from the
\* second quarter of the window and a third from its second half.
SubwinUpdate(f, win, t, v) ==
  LET new   == NewSample(t, v)
      delta == t - f[1].time
      secondIsFirst == f[2].time = f[1].time /\ 4 * delta > win
      thirdIsSecond == f[3].time = f[2].time /\ 2 * delta > win
  IN  IF delta > win
      THEN IF t - f[2].time > win THEN Shift(Shift(f, new), new) ELSE Shift(f, new)
      ELSE IF secondIsFirst THEN <<f[1], new, new>>
      ELSE IF thirdIsSecond THEN <<f[1], f[2], new>>
      ELSE f

\* Mutation: a new second best leaves the third alone.
RunningKeepsThird(beaten, f, win, t, v) ==
  LET new == NewSample(t, v) IN
  IF 1 \in beaten \/ t - f[3].time > win THEN Reset(t, v)
  ELSE SubwinUpdate(IF 2 \in beaten THEN <<f[1], new, f[3]>>
                    ELSE IF 3 \in beaten THEN <<f[1], f[2], new>>
                    ELSE f, win, t, v)

\* running_min: the new value v is as good as the samples beaten.
Running(beaten, f, win, t, v) ==
  LET new == NewSample(t, v) IN
  IF 1 \in beaten \/ t - f[3].time > win THEN Reset(t, v)
  ELSE SubwinUpdate(IF 2 \in beaten THEN <<f[1], new, new>>
                    ELSE IF 3 \in beaten THEN <<f[1], f[2], new>>
                    ELSE f, win, t, v)

RunningMin(f, win, t, v) == Running({i \in 1..3 : v <= f[i].value}, f, win, t, v)
=============================================================================

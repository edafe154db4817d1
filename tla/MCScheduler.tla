---------------------------- MODULE MCScheduler -----------------------------
(* An instance of Scheduler for TLC: an hour has two minutes, a day one     *)
(* hour, and the first day is a Sunday.                                     *)
EXTENDS Scheduler, TLC

MCFieldRanges == << <<0, 1>>, <<0, 0>>, <<1, 2>>, <<1, 1>>, <<0, 6>> >>

Star == [all |-> TRUE, segs |-> {}]
Seg(k, x, y, n) == [kind |-> k, a |-> x, b |-> y, step |-> n]
Only(S) == [all |-> FALSE, segs |-> S]

At(minute, weekday) == <<minute, Star, Star, Star, weekday>>

MCCrons ==
  {At(Only({Seg("stepFrom", 0, 0, 1)}), Only({Seg("value", 0, 0, 0)})),         \* 0/1 * * * 0
   At(Only({Seg("stepAll", 0, 0, 2)}), Only({Seg("range", 6, 7, 0)})),          \* */2 * * * 6-7
   At(Only({Seg("stepRange", 0, 1, 1)}), Only({Seg("value", 6, 0, 0)})),        \* 0-1/1 * * * 6
   At(Only({Seg("stepAll", 0, 0, 0)}), Star)}                                   \* */0 * * * *

MCSymmetry == Permutations(Servers) \cup Permutations(Schedules)
=============================================================================

---------------------------- MODULE MCFrameDelta ----------------------------
(* Instances of FrameDelta for the model checker. *)
EXTENDS FrameDelta

(* What is visible when entity e is seen in the frames n with seen(e, n) and *)
(* changes its state every period(e) frames.  A state is the number of the   *)
(* frame it was taken on in, so no two can be confused.                      *)
Course(period(_), seen(_, _)) ==
  [n \in 1 .. MaxFrames |->
     [e \in {e \in 1 .. MaxEdicts - 1 : seen(e, n)} |-> (n \div period(e)) * period(e)]]

(* The other clients see as much as there is room for, or less, or nothing: *)
(* in each course the server's ring suffices.                               *)
Crowd == [n \in 1 .. MaxFrames |-> (MaxClients - 1) * PacketEntities]
Somebody == [n \in 1 .. MaxFrames |-> 3]
Nobody == [n \in 1 .. MaxFrames |-> 0]

(* As many entities as are allowed for, now these and now those, so that    *)
(* more than PacketBackup are new; some of them change from frame to frame. *)
Swapping(e, n) ==
  IF n % 2 = 0 THEN e <= PacketEntities
  ELSE e \in PacketEntities + 1 .. 2 * PacketEntities

(* More entities than allowed for, with high numbers: as many as two frames *)
(* may have with the first of them in reach, or in one frame one more.  At  *)
(* times PacketBackup others are ahead of them: as many as may be decoded,  *)
(* or one more.                                                             *)
Resting == MaxEdicts - Reach \div 2 .. MaxEdicts - 1
Ahead(n, count) == IF n % 4 = 0 THEN 1 .. count ELSE {}
Arriving(e, n) ==
  \/ e \in Resting \cup Ahead(n, PacketBackup)
  \/ n = 3 /\ e = MaxEdicts - Reach \div 2 - 1
Overrunning(e, n) == e \in Resting \cup Ahead(n, PacketBackup + 1)

Own(e) == 1 + (e % 3)
Slow(e) == 3

Courses ==
  {[seen |-> Course(Own, Swapping), others |-> Crowd],
   [seen |-> Course(Slow, Arriving), others |-> Somebody],
   [seen |-> Course(Slow, Overrunning), others |-> Nobody]}
=============================================================================

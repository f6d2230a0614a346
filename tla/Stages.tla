-------------------------------- MODULE Stages --------------------------------
(***************************************************************************)
(* A stage that holds frames back, as the chains see it: the frames it has *)
(* not worked on, of which it keeps delay for the sake of those that come  *)
(* after, and those it has worked on, of which depth wait for the result   *)
(* of their scene-change test.  Degrain has NVEncFilterDegrain in detail.  *)
(***************************************************************************)
EXTENDS Integers, Sequences

EmptyStage == [hold |-> << >>, pending |-> << >>]

(* The frames a stage has. *)
InStage(st) ==
  {st.hold[i] : i \in 1 .. Len(st.hold)} \cup {st.pending[i] : i \in 1 .. Len(st.pending)}

(* The answer of a stage that is left with hold and pending. *)
Silent(hold, pending) == [hold |-> hold, pending |-> pending, out |-> {}]
Puts(hold, q)         == [hold |-> hold, pending |-> Tail(q), out |-> {Head(q)}]

(* Its oldest frame is worked on: the oldest whose test is due comes out,  *)
(* if one is.                                                              *)
Worked(hold, pending, depth) ==
  LET q == Append(pending, Head(hold))
  IN  IF Len(q) > depth THEN Puts(Tail(hold), q) ELSE Silent(Tail(hold), q)

(* It is given frame f. *)
StageFed(st, f, delay, depth) ==
  LET hold == Append(st.hold, f)
  IN  IF Len(hold) > delay THEN Worked(hold, st.pending, depth) ELSE Silent(hold, st.pending)

(* It is given a drain tick. *)
StageTicked(st, depth) ==
  IF st.hold # << >> THEN Worked(st.hold, st.pending, depth)
  ELSE IF st.pending # << >> THEN Puts(st.hold, st.pending)
  ELSE Silent(st.hold, st.pending)

(* What a stage may be left with by a call that fails: what it had, or     *)
(* what the call made of it, without the frame it was to put out or worked *)
(* on.                                                                     *)
StageAfterFailure(st, answer) ==
  LET rest == IF answer.out # {} /\ st.pending # << >> THEN {Tail(st.pending)} ELSE {}
  IN  {st} \cup {[hold |-> answer.hold, pending |-> p] : p \in {st.pending} \cup rest}
=============================================================================

---------------------------- MODULE FrameStream ----------------------------
(***************************************************************************)
(* What the module does for its caller: every 50i frame it accepts comes   *)
(* back as two 50p frames, in order, each exactly once.  Frames may only   *)
(* go missing after a call has reported a failure.  Once the caller has    *)
(* asked for the flush everything comes out, unless a call failed or the   *)
(* stream was too short to get anything out at all.                        *)
(***************************************************************************)
EXTENDS Integers, Sequences

CONSTANT MaxIn          (* Bound on the frames handed in *)

VARIABLES
  given,                (* the number of input frames accepted              *)
  got,                  (* the output frames, in the order they came out    *)
  asked,                (* the caller has asked for the flush               *)
  excused,              (* a call has reported a failure                    *)
  lost                  (* the flush is over, and what is missing never     *)
                        (* comes                                            *)

vars == << given, got, asked, excused, lost >>

Init ==
  /\ given = 0
  /\ got = << >>
  /\ asked = FALSE
  /\ excused = FALSE
  /\ lost = FALSE

(* Output frame k has not been passed over yet. *)
StillToCome(k) == \A i \in 1 .. Len(got) : got[i] < k

Accept ==
  /\ ~ asked
  /\ given < MaxIn
  /\ given' = given + 1
  /\ UNCHANGED << got, asked, excused, lost >>

(* The next output frame, or a later one if a failure has been reported. *)
Emit ==
  /\ ~ lost
  /\ \E k \in 0 .. 2 * given - 1 :
       /\ StillToCome(k)
       /\ excused \/ k = Len(got)
       /\ got' = Append(got, k)
  /\ UNCHANGED << given, asked, excused, lost >>

Ask ==
  /\ ~ asked
  /\ asked' = TRUE
  /\ UNCHANGED << given, got, excused, lost >>

(* A call fails; the frame it was given may count as accepted. *)
Fail ==
  /\ excused' = TRUE
  /\ UNCHANGED << given, got, asked, lost >>

(* The flush ends without the frames a reported failure has cost, or, of a *)
(* stream of which nothing has come out, with nothing at all.              *)
Lose ==
  /\ asked
  /\ excused \/ got = << >>
  /\ lost' = TRUE
  /\ UNCHANGED << given, got, asked, excused >>

Next == Accept \/ Emit \/ Ask \/ Fail \/ Lose

(* The flush brings out what is missing, if it is not lost. *)
Fairness == WF_vars(asked /\ ~ excused /\ ~ lost /\ Emit)

Spec == Init /\ [][Next]_vars /\ Fairness
=============================================================================

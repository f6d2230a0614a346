------------------------------ MODULE BobDeint ------------------------------
(***************************************************************************)
(* What RtgmDif takes its cheap deinterlacer to be (NVEncFilterYadif or    *)
(* NVEncFilterBwdif, behind NVEncFilter::filter()): an input frame is put  *)
(* out, as a pair of output frames, when the next one arrives; a drain     *)
(* call puts out one that is left.  A failed call may have taken the frame *)
(* it was given or not, and may have lost the one it was working on.       *)
(***************************************************************************)
EXTENDS Integers, Sequences

CONSTANT MaxIn          (* Bound on the frames given *)

VARIABLES
  given,                (* the number of frames taken                       *)
  held,                 (* the frames not put out yet                       *)
  put,                  (* the frames put out, in order                     *)
  asked,                (* the drain has begun                              *)
  failed                (* a call has failed                                *)

vars == << given, held, put, asked, failed >>

Init ==
  /\ given = 0
  /\ held = {}
  /\ put = << >>
  /\ asked = FALSE
  /\ failed = FALSE

(* The oldest frame of a set. *)
Oldest(S) == CHOOSE k \in S : \A j \in S : k <= j

Feed ==
  /\ ~ asked
  /\ given < MaxIn
  /\ given' = given + 1
  /\ IF held = {}
     THEN held' = {given} /\ UNCHANGED put
     ELSE held' = (held \cup {given}) \ {Oldest(held)} /\ put' = Append(put, Oldest(held))
  /\ UNCHANGED << asked, failed >>

FeedFails ==
  /\ ~ asked
  /\ \/ UNCHANGED << given, held >>
     \/ /\ given < MaxIn
        /\ given' = given + 1
        /\ \/ held' = held \cup {given}
           \/ held # {} /\ held' = (held \cup {given}) \ {Oldest(held)}
  /\ failed' = TRUE
  /\ UNCHANGED << put, asked >>

Ask ==
  /\ asked' = TRUE
  /\ UNCHANGED << given, held, put, failed >>

Drain ==
  /\ asked
  /\ held # {}
  /\ held' = held \ {Oldest(held)}
  /\ put' = Append(put, Oldest(held))
  /\ UNCHANGED << given, asked, failed >>

DrainFails ==
  /\ asked
  /\ held # {}
  /\ held' \in {held, held \ {Oldest(held)}}
  /\ failed' = TRUE
  /\ UNCHANGED << given, put, asked >>

Next == Feed \/ FeedFails \/ Ask \/ Drain \/ DrainFails

(* A drain goes on until nothing is left; a call that fails ends it. *)
Spec == Init /\ [][Next]_vars /\ WF_vars(~ failed /\ Drain)
=============================================================================

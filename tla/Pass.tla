-------------------------------- MODULE Pass --------------------------------
(***************************************************************************)
(* What RtgmDif takes a temporal pass to be (a stage such as               *)
(* NVEncFilterDegrain, or a chain of them): it takes frames, holds some,   *)
(* and puts them out oldest first.  A drain brings out what it holds, or,  *)
(* of a stream of which nothing has come out, possibly nothing at all.     *)
(* Frames may only go missing in a call that fails.                        *)
(***************************************************************************)
EXTENDS Integers, Sequences

CONSTANT MaxIn          (* Bound on the frames given *)

VARIABLES
  given,                (* the number of frames taken                       *)
  held,                 (* the frames it has not put out                    *)
  put,                  (* the frames put out, in order                     *)
  asked,                (* the drain has begun                              *)
  ended,                (* a drain call has come back empty                 *)
  failed                (* a call has failed                                *)

vars == << given, held, put, asked, ended, failed >>

Init ==
  /\ given = 0
  /\ held = {}
  /\ put = << >>
  /\ asked = FALSE
  /\ ended = FALSE
  /\ failed = FALSE

(* The oldest frame of a set. *)
Oldest(S) == CHOOSE k \in S : \A j \in S : k <= j

(* The pass, having S, puts out its oldest frame or holds all of it. *)
Release(S) ==
  /\ S # {}
  /\ held' = S \ {Oldest(S)}
  /\ put' = Append(put, Oldest(S))

Retain(S) == held' = S /\ UNCHANGED put

Feed ==
  /\ ~ asked
  /\ given < MaxIn
  /\ given' = given + 1
  /\ Release(held \cup {given}) \/ Retain(held \cup {given})
  /\ UNCHANGED << asked, ended, failed >>

(* A call fails that took a frame or did not, or that asked for one. *)
Fail ==
  /\ \/ UNCHANGED given
     \/ ~ asked /\ given < MaxIn /\ given' = given + 1
  /\ held' \subseteq held \cup (given .. given' - 1)
  /\ failed' = TRUE
  /\ UNCHANGED << put, asked, ended >>

(* The drain begins, or is repeated after a failure. *)
Ask ==
  /\ ~ asked \/ failed
  /\ asked' = TRUE
  /\ ended' = FALSE
  /\ UNCHANGED << given, held, put, failed >>

Drain ==
  /\ asked
  /\ ~ ended
  /\ Release(held)
  /\ UNCHANGED << given, asked, ended, failed >>

(* A drain call puts nothing out, and the caller takes that for the end. *)
DrainEnds ==
  /\ asked
  /\ ~ ended
  /\ held = {} \/ failed \/ put = << >>
  /\ ended' = TRUE
  /\ UNCHANGED << given, held, put, asked, failed >>

Next == Feed \/ Fail \/ Ask \/ Drain \/ DrainEnds

(* The caller goes on until the drain has ended or a call fails. *)
Spec == Init /\ [][Next]_vars /\ WF_vars(~ failed /\ (Drain \/ DrainEnds))
=============================================================================

------------------------------ MODULE MCBwdif ------------------------------
(***************************************************************************)
(* BWDIF, and the order of the stream its frames and all others come and   *)
(* go by, each by itself: `subject' says which of the two a behaviour is   *)
(* about, and the other stays as it is at the start.                       *)
(***************************************************************************)
EXTENDS Bwdif, StreamOrder

CONSTANT Subjects
VARIABLE subject

allVars == << subject, vars, orderVars >>

MCInit ==
  /\ subject \in Subjects
  /\ Init /\ OrderInit
  /\ subject = "bwdif" => ownsStream

IsBwdif == subject = "bwdif" /\ UNCHANGED << subject, orderVars >>
IsOrder == subject = "order" /\ UNCHANGED << subject, vars >>

MCNext == (IsBwdif /\ Next) \/ (IsOrder /\ OrderNext)

(* flush() calls until nothing comes any more, and the device goes on with *)
(* what is queued.                                                         *)
MCSpec ==
  /\ MCInit
  /\ [][MCNext]_allVars
  /\ WF_allVars(IsBwdif /\ ~ failed /\ RunDrain)
  /\ WF_allVars(IsOrder /\ Device)
=============================================================================

------------------------------ MODULE MCYadif ------------------------------
(***************************************************************************)
(* YADIF, and the rows of the band it is given, each by itself: `subject'  *)
(* says which of the two a behaviour is about, and the other stays as it   *)
(* is at the start.                                                        *)
(***************************************************************************)
EXTENDS Yadif, SplitGeometry

CONSTANTS
  Subjects,
  Heights,              (* the heights of the frames                        *)
  Outside               (* Bound: how far outside the frame splitY may be   *)

VARIABLE subject

allVars == << subject, vars, bandsVars >>

(* Frames of these heights, cut anywhere. *)
MCConfigs ==
  UNION {[height : {h}, splitY : -Outside .. h + Outside, side : {"top", "bottom"},
          half : BOOLEAN, deint : BOOLEAN] : h \in Heights}

ASSUME Configs \subseteq Config

MCInit ==
  /\ subject \in Subjects
  /\ Init /\ BandsInit
  /\ subject = "yadif" => cfg = CHOOSE c \in Configs : TRUE

IsYadif == subject = "yadif" /\ UNCHANGED << subject, bandsVars >>
IsRows  == subject = "rows" /\ UNCHANGED << subject, vars >>

MCNext == (IsYadif /\ Next) \/ (IsRows /\ BandsNext)

(* flush() calls until nothing comes any more; a call that fails ends it. *)
MCSpec ==
  /\ MCInit
  /\ [][MCNext]_allVars
  /\ WF_allVars(IsYadif /\ ~ Failed /\ RunDrain)
=============================================================================

------------------------ MODULE MCInterviewSession -------------------------
(***************************************************************************)
(* Instances of InterviewSession.                                          *)
(***************************************************************************)
EXTENDS InterviewSession, TLC
=============================================================================

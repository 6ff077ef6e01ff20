-------------------------- MODULE MCHiringPipeline --------------------------
(***************************************************************************)
(* Instances of HiringPipeline.                                            *)
(***************************************************************************)
EXTENDS HiringPipeline, TLC

\* Leaves out what repeats another stage's moves: the customer's second round
\* and all but one of the rejections a recruiter may choose from.
Ladder == Stages \ {"L2_Feedback", "RMG_Rejected", "Sales_Rejected",
                    "Self_Withdrawn", "Customer_Rejected"}
=============================================================================

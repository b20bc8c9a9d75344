------------------------------ MODULE MCReportApi ------------------------------
(***************************************************************************)
(* Two overlapping uploads, one crash.                                     *)
(***************************************************************************)
EXTENDS ReportApi

CONSTANTS u1, u2
MCUploads == {u1, u2}
===============================================================================

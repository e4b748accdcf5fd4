------------------------------ MODULE MCReportPdf ------------------------------
(* Instances of ReportPdf for TLC. Three downloads of two reports. No symmetry: the instance is used for a
   liveness property. *)
EXTENDS ReportPdf, TLC
================================================================================

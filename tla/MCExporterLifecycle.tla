------------------------ MODULE MCExporterLifecycle ------------------------
(* Instances of ExporterLifecycle: the only constant is the number of signals. *)
EXTENDS ExporterLifecycle
=============================================================================

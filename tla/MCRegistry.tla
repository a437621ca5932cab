----------------------------- MODULE MCRegistry -----------------------------
EXTENDS Registry

(* The file switches the section on. *)
MCBaseline == [s \in Sections |-> s = "processing"]
=============================================================================

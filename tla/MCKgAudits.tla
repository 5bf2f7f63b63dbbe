------------------------------ MODULE MCKgAudits ------------------------------
(* The instance of KgAudits: the modules and lists of MCKgModules, small sets *)
(* of devices and handles in the .cfg.                                        *)
EXTENDS KgAudits, MCKgModules
================================================================================

---------------------------- MODULE MCLocalStore ----------------------------
(* Two connections over each area of the local database in turn, with a    *)
(* database that is new, legacy or up to date.                             *)
EXTENDS LocalStore

MCWorkloads == {{area} : area \in Areas}
MCKeys == 1..3
MCVersions == 0..2
=============================================================================

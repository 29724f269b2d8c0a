------------------------------ MODULE Migrations ------------------------------
(***************************************************************************)
(* The scripts that fill tables from another program's or from samples:    *)
(* the restaurant's, and those of METRO's aggregates.  They share no table *)
(* and a step of one leaves the other's alone.                             *)
(***************************************************************************)
EXTENDS RestaurantSeed, BackupMigration

MigrationsSpec == SeedSpec /\ BackupSpec

(* What the scripts leave, wherever they are cut off. *)
MigrationsConsistent == SeedConsistent /\ BackupConsistent
=============================================================================

-------------------------- MODULE MCCappedMigrate --------------------------
(***************************************************************************)
(* CappedMigrate for TLC: three deleted records on the lists of three      *)
(* buckets, bucket 0 being the list the migration collects them on and     *)
(* bucket 1 the field the new format reads as cappedLastDelRecLastExtent().*)
(***************************************************************************)
EXTENDS CappedMigrate

CONSTANTS d1, d2, d3

ThreeDeleted == {d1, d2, d3}

=============================================================================

-------------------------- MODULE MCMetadataJoin --------------------------
(* Small instances of MetadataJoin: see the .cfg files for the constants.   *)
EXTENDS MetadataJoin
=============================================================================

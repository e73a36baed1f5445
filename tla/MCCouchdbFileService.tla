------------------------ MODULE MCCouchdbFileService ------------------------
(***************************************************************************)
(* Instances of CouchdbFileService for TLC.                                *)
(***************************************************************************)
EXTENDS CouchdbFileService, TLC

CONSTANTS r1, document, photo
=============================================================================

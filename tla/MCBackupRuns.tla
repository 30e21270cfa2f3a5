---------------------------- MODULE MCBackupRuns ----------------------------
(* Values for the checks of BackupRuns. *)
EXTENDS BackupRuns

S3Destinations == {{"s3"}, {"local", "s3"}}

=============================================================================

----------------------------- MODULE MCBackupJobs -----------------------------
EXTENDS BackupJobs
MCTargets == <<"mail", "notes", "site">>
=============================================================================

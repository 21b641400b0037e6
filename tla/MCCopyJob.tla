----------------------------- MODULE MCCopyJob ------------------------------
(* Small instances of CopyJob: all the jobs, or those with a bitmap.          *)
EXTENDS CopyJob

BitmapJobs == {"volume", "shadow"}

=============================================================================

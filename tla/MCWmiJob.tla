------------------------------ MODULE MCWmiJob ------------------------------
(* Small instances of WmiJob: the answers of the provider.                   *)
EXTENDS WmiJob

AnyAnswer == {"ok", "refused", "failed", "lost"}

=============================================================================

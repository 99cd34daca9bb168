----------------------------- MODULE MCLiveFeed -----------------------------
(* One page opened twice, a channel of two events, a list of two entries.     *)
EXTENDS LiveFeed
=============================================================================

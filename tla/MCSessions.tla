----------------------------- MODULE MCSessions -----------------------------
(* Instances of Sessions for TLC: the traffic each run offers, and symmetry. *)
EXTENDS Sessions, TLC

\* Beats and sign-outs on several instances, which restart.
Bearer == {"activity", "logout", "restart"}
\* Requests, beats, refreshes of live and spent tokens, sign-outs.
Refreshing == {"request", "activity", "refresh", "logout"}
\* Requests and streams beside the nightly job.
Upkeep == {"request", "stream", "heartbeat", "logout", "sweep"}
\* Sign-ins, sign-outs and bans that come and go.
SigningOut == {"logout", "ban", "unban"}

Alike == Permutations(Instance) \cup Permutations(Session)
           \cup Permutations(Token) \cup Permutations(Handler)
=============================================================================

---------------------------- MODULE MCDnsService ----------------------------
(* DnsService for TLC: two threads and four jobs, of which three may be there
   at once: a queued job while both threads are busy, and a refused query. *)
EXTENDS DnsService

CONSTANTS w1, w2, j1, j2, j3, j4, host, ctx

MCWorker == {w1, w2}
MCJob == {j1, j2, j3, j4}
MCHost == {host}
MCContext == {ctx}

=============================================================================

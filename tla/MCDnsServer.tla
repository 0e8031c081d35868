---------------------------- MODULE MCDnsServer ----------------------------
(* DnsServer for TLC: four queries for two hostnames, requests that live for
   one clock unit or more, two threads; for liveness two queries and one thread.
   Symmetry: no definition tells two ids of one kind apart. *)
EXTENDS DnsServer, TLC

CONSTANTS h1, h2, s1, s2, s3, s4, r1, r2, r3, j1, j2, j3, w1, w2

MCKey == {h1, h2}
MCSource == {s1, s2, s3, s4}
MCRequestId == {r1, r2, r3}
MCJob == {j1, j2, j3}
MCWorker == {w1, w2}
MCTwoSources == {s1, s2}
MCTwoRequests == {r1, r2}
MCTwoJobs == {j1, j2}
MCOneWorker == {w1}

Symmetry ==
    UNION {Permutations(Key), Permutations(Source), Permutations(RequestId),
           Permutations(Job), Permutations(Worker)}

=============================================================================

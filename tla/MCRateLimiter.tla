---------------------------- MODULE MCRateLimiter ----------------------------
(* A client that connects directly.  (Behind a proxy, which names it in      *)
(* X-Forwarded-For, KeyOf and HostOf would differ.)                          *)
EXTENDS RateLimiter, TLC

DirectOnly == [c \in {"direct"} |-> "a"]
ThreadSymmetry == Permutations(Threads)
=============================================================================

---------------------------- MODULE MCRateLimiter ----------------------------
EXTENDS RateLimiter, TLC

RequestSymmetry == Permutations(Requests)

\* forgot-password and its like: one limiter, by address and e-mail.
OneLimiter == <<[max |-> 2, by_email |-> TRUE]>>

\* POST /login: login_limiter, then login_global_limiter.
LoginChain == <<[max |-> 1, by_email |-> TRUE], [max |-> 2, by_email |-> FALSE]>>
=============================================================================

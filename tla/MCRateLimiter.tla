----------------------------- MODULE MCRateLimiter -----------------------------
(* Model checking of RateLimiter: the rules of the instances. *)
EXTENDS RateLimiter, TLC

Rule(name, period, maxRequests, maxTokens, perChild) ==
  [name |-> name, period |-> period, maxRequests |-> maxRequests,
   maxTokens |-> maxTokens, perChild |-> perChild]

PerWindow  == Rule("/team", 3, 2, NoLimit, FALSE)
Concurrent == Rule("/team", 0, 2, NoLimit, FALSE)
Provider   == Rule("openai", 2, NoLimit, 2, FALSE)
PerUser    == Rule("/users", 2, 1, 1, TRUE)

\* A consumer with a request window and a concurrency rule, on a provider with a
\* token window; failover admits against the consumer's rules alone.
AdmissionRules   == {PerWindow, Concurrent, Provider}
AdmissionMatches == {AdmissionRules, {PerWindow, Concurrent}}

\* A request and a token counter for each child.
ChildRules   == {PerUser}
ChildMatches == {ChildRules}

RequestSymmetry == Permutations(Requests) \union Permutations(Children)
===============================================================================

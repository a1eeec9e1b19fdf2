----------------------------- MODULE GitHubRetry -----------------------------
(***************************************************************************)
(* How a request to the registry on GitHub is retried                      *)
(* (pkg/retry/github_retry.go, called by pkg/registry/client.go): what     *)
(* comes back is put in a class, and the class and the one counter of      *)
(* attempts decide whether it is asked again.  How long is waited in       *)
(* between is left out.                                                    *)
(*                                                                         *)
(* The definitions called "Mutant of" are plausible mistakes; they are no  *)
(* part of the model.                                                      *)
(***************************************************************************)
EXTENDS Naturals

CONSTANTS
  Telling,               \* the names of servers with a word of isNetworkError
  MaxRetries,            \* GitHubRetryConfig.MaxRetries
  RateLimitMaxRetries,   \* GitHubRetryConfig.RateLimitMaxRetries
  NetworkMaxRetries      \* GitHubRetryConfig.NetworkMaxRetries

ASSUME RetryAssumption ==
  {MaxRetries, RateLimitMaxRetries, NetworkMaxRetries} \subseteq Nat

(***************************************************************************)
(* What a request may fail with: the statuses 404 ("absent"), 401          *)
(* ("denied"), 403 and 429 ("limited"), another status or a body that      *)
(* cannot be read ("unwell"); without an answer, an error whose text has a *)
(* word of isNetworkError ("unreached") or has none ("broken").            *)
(***************************************************************************)
Failure == {"absent", "denied", "limited", "unwell", "unreached", "broken"}

\* The words are looked for in the whole text of the error.  The text of a 404
\* and of an error without an answer holds the name of the server ("dns-lookup",
\* "tcp-probe"), which may have such a word.
isNetworkError(failure, name) ==
  \/ failure = "unreached"
  \/ name \in Telling /\ failure \in {"absent", "broken"}

ClassifyGitHubError(failure, name) ==
  IF isNetworkError(failure, name) THEN "network"
  ELSE CASE failure = "limited" -> "rate_limit"
         [] failure = "denied"  -> "auth"
         [] failure = "absent"  -> "not_found"
         [] OTHER               -> "general"

\* Mutant of RetriesOf: the cases without a retry fall through to the default.
DefaultedRetriesOf(class) ==
  CASE class = "rate_limit" -> RateLimitMaxRetries
    [] class = "network"    -> NetworkMaxRetries
    [] OTHER                -> MaxRetries

RetriesOf(class) ==
  CASE class = "rate_limit" -> RateLimitMaxRetries
    [] class = "network"    -> NetworkMaxRetries
    [] class = "general"    -> MaxRetries
    [] OTHER                -> 0

\* DoWithGitHubRetry: is there another attempt after this one?
AsksAgain(failure, name, attempt) ==
  /\ attempt < RetriesOf(ClassifyGitHubError(failure, name))
  /\ attempt # MaxRetries
=============================================================================

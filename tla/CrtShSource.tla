---------------------------- MODULE CrtShSource -----------------------------
(***************************************************************************)
(* What the two crt.sh providers (crt_sh_crawler.py) have in common: the   *)
(* service, the records of a pass, their outcomes and the circuit breaker. *)
(*                                                                         *)
(* For each record the service has a sequence of candidates: certificates  *)
(* of the serial number and issuer.  One of them is "usable", "unusable"   *)
(* (malformed, another identity, an unsupported key), or its key type      *)
(* makes the cryptography library raise ("raising").                       *)
(*                                                                         *)
(* Abstractions.  An outcome is found, not_found or an error.  An outcome  *)
(* is reported in the step that commits it to the database.                *)
(***************************************************************************)
EXTENDS BreakerResults, SequencesExt

CONSTANTS
    Records,
    MaxAttempts  \* attempts of a request, of a connection (3)

ASSUME CrtShConstants == MaxAttempts \in Nat \ {0}

Candidates == {"usable", "unusable", "raising"}

VARIABLES
    server,    \* [Records -> Seq(Candidates)]
    refused,   \* records whose requests never succeed
    calm,      \* from now on nothing else fails
    queue,     \* the records of the pass, in their order
    reported,  \* [Records -> ...]: outcomes of the pass
    ending,    \* of the pass, see SourcePass
    recent, consecutiveFailures, consecutiveRateLimits, isOpen, reason

Breaker == INSTANCE CircuitBreaker

breakerVars == <<recent, consecutiveFailures, consecutiveRateLimits, isOpen, reason>>
given == <<server, refused, calm, queue>>

\* The candidates are examined in their order until one decides.
Decides(r, candidate) ==
    \E i \in DOMAIN server[r] :
        server[r][i] = candidate /\ \A j \in 1..i - 1 : server[r][j] = "unusable"

Verdict(r) ==
    IF server[r] = <<>> THEN "not_found"
    ELSE IF Decides(r, "usable") THEN "usable"
    ELSE IF Decides(r, "raising") THEN "raising"
    ELSE "unusable"

Outcome(r) ==
    CASE Verdict(r) = "not_found" -> "not_found"
      [] Verdict(r) = "usable" -> "found"
      [] OTHER -> "error"

\* What may go wrong with a request about the record.
Troubles(r) == IF ~calm THEN Failures ELSE IF r \in refused THEN {OtherFailure} ELSE {}
=============================================================================

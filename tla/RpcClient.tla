------------------------------ MODULE RpcClient ------------------------------
(***************************************************************************)
(* The JSON-RPC client of one daemon and its circuit breaker               *)
(* (rpcClient.js).  Several calls may be under way; what each came to is   *)
(* left to its caller, who sets calls[c] to what it does next.             *)
(***************************************************************************)
EXTENDS Integers, FiniteSetsExt

CONSTANTS
    Callers,
    Threshold   \* failures in a row that open the circuit (5)

ASSUME RpcAssumption == Threshold \in Nat \ {0}

VARIABLES
    failures,     \* consecutiveFailures, up to Threshold
    circuitOpen,
    cooled,       \* the cooldown has passed since circuitOpenedAt
    dying,        \* callers whose request was destroyed: an 'error' may follow
    failed,       \* for the properties: calls that failed since the last success,
    noted         \* and the dying ones among them

breaker == <<failures, circuitOpen, cooled>>
rpcVars == <<failures, circuitOpen, cooled, dying, failed, noted>>

RpcTypeOK ==
    /\ failures \in 0 .. Threshold /\ failed \in 0 .. Threshold
    /\ circuitOpen \in BOOLEAN /\ cooled \in BOOLEAN
    /\ dying \subseteq Callers /\ noted \subseteq dying

RpcInit ==
    /\ failures = 0 /\ circuitOpen = FALSE /\ cooled = FALSE
    /\ dying = {} /\ failed = 0 /\ noted = {}
-----------------------------------------------------------------------------
UpTo(n) == Min({n, Threshold})

\* Wrong on purpose: an open circuit lets nothing through again.
NeverLetsThrough == ~circuitOpen

\* The first test of call(): after the cooldown every call passes, not one probe.
LetsThrough == ~circuitOpen \/ cooled

\* Wrong on purpose: the circuit closes and the failures before still count.
ClosesOnly ==
    /\ failures' = Min({failures, Threshold - 1}) /\ circuitOpen' = FALSE
    /\ cooled' = FALSE
    /\ failed' = 0 /\ noted' = {}

\* _onSuccess.
OnSuccess ==
    /\ failures' = 0 /\ circuitOpen' = FALSE
    /\ cooled' = FALSE
    /\ failed' = 0 /\ noted' = {}

\* _onFailure: the cooldown starts at the opening and at no later failure.
OnFailure ==
    /\ failures' = UpTo(failures + 1)
    /\ circuitOpen' = (circuitOpen \/ failures + 1 >= Threshold)
    /\ UNCHANGED cooled

\* A result.
Succeeds == OnSuccess /\ UNCHANGED dying

\* An error of the daemon, or an answer that cannot be parsed: no count changes.
AnswersError == UNCHANGED rpcVars

\* The request's 'error' event.
ConnectionFails ==
    /\ OnFailure
    /\ failed' = UpTo(failed + 1)
    /\ UNCHANGED <<dying, noted>>

\* Its 'timeout' event: the destroyed request may still report an error.
TimesOut(c) ==
    /\ c \notin dying
    /\ OnFailure
    /\ failed' = UpTo(failed + 1)
    /\ dying' = dying \cup {c} /\ noted' = noted \cup {c}

\* Wrong on purpose: the second event of a call takes back what the first counted.
TakesBack(c) ==
    /\ c \in dying
    /\ dying' = dying \ {c} /\ noted' = noted \ {c}
    /\ failures' = failures - 1
    /\ UNCHANGED <<circuitOpen, cooled, failed>>

\* It does, and the call counts a second time; or it is silent.
DestroyedReports(c) ==
    /\ c \in dying
    /\ dying' = dying \ {c} /\ noted' = noted \ {c}
    /\ \/ /\ OnFailure
          /\ failed' = IF c \in noted THEN failed ELSE UpTo(failed + 1)
       \/ UNCHANGED <<breaker, failed>>

CooldownPasses == circuitOpen /\ ~cooled /\ cooled' = TRUE
                    /\ UNCHANGED <<failures, circuitOpen, dying, failed, noted>>
-----------------------------------------------------------------------------
\* The circuit opens only after calls that failed with no success in between, a
\* timed-out call counting at most twice: Threshold \div 2 calls, rounded up, and
\* not always Threshold of them (rpcClient.js 98-111, 136-144).
OpensOnFailures ==
    /\ circuitOpen <=> failures = Threshold
    /\ failures + Cardinality(noted) <= 2 * failed \/ failed = Threshold
=============================================================================

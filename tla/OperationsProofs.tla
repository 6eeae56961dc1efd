-------------------------- MODULE OperationsProofs --------------------------
(* Proofs about Operations, for any number of checks and collections.      *)
EXTENDS Operations, FiniteSetTheorems, SequenceTheorems, TLAPS

----------------------------------------------------------------------------
(* The circuit breaker.                                                    *)

LEMMA UpToIs ==
    ASSUME NEW n \in Nat
    PROVE  /\ UpTo(n) \in 0 .. Threshold
           /\ n <= Threshold => UpTo(n) = n
           /\ n >= Threshold => UpTo(n) = Threshold
<1> DEFINE S == {n, Threshold}
<1>1. \E x \in S : \A y \in S : x <= y
  BY RpcAssumption
<1>2. UpTo(n) \in S /\ \A y \in S : UpTo(n) <= y
  BY <1>1 DEF UpTo, Min
<1>3. QED BY <1>2, RpcAssumption

\* OpensOnFailures needs its types, and that the noted calls can be counted.
BreakerInv == RpcTypeOK /\ IsFiniteSet(noted) /\ OpensOnFailures

LEMMA NotedCount ==
    ASSUME IsFiniteSet(noted)
    PROVE  /\ Cardinality(noted) \in Nat
           /\ \A c : /\ IsFiniteSet(noted \cup {c}) /\ IsFiniteSet(noted \ {c})
                     /\ c \notin noted => Cardinality(noted \cup {c}) = Cardinality(noted) + 1
                     /\ c \in noted => Cardinality(noted \ {c}) = Cardinality(noted) - 1
                     /\ c \notin noted => noted \ {c} = noted
<1>1. ASSUME NEW c
      PROVE  /\ IsFiniteSet(noted \cup {c}) /\ IsFiniteSet(noted \ {c})
             /\ c \notin noted => Cardinality(noted \cup {c}) = Cardinality(noted) + 1
             /\ c \in noted => Cardinality(noted \ {c}) = Cardinality(noted) - 1
             /\ c \notin noted => noted \ {c} = noted
  <2>1. c \notin noted => Cardinality(noted \cup {c}) = Cardinality(noted) + 1
    BY FS_AddElement
  <2>2. c \in noted => Cardinality(noted \ {c}) = Cardinality(noted) - 1
    BY FS_RemoveElement
  <2>3. IsFiniteSet(noted \cup {c}) /\ IsFiniteSet(noted \ {c})
    BY FS_AddElement, FS_RemoveElement
  <2>4. QED BY <2>1, <2>2, <2>3
<1>2. QED BY <1>1, FS_CardinalityType

\* The only steps that touch the breaker.
LEMMA BreakerSteps ==
    ASSUME [Next]_vars
    PROVE  \/ UNCHANGED rpcVars
           \/ Succeeds \/ ConnectionFails \/ CooldownPasses
           \/ \E c \in Callers : TimesOut(c) \/ DestroyedReports(c)
<1>1. ASSUME NEW c \in Callers, CallStep(c)
      PROVE  \/ UNCHANGED rpcVars \/ Succeeds \/ ConnectionFails
             \/ TimesOut(c) \/ DestroyedReports(c)
  BY <1>1 DEF CallStep, Answered, Refused, AnswersError, Unreachable, Destroyed,
              AskDatabase, Store
<1>2. ASSUME NEW c \in Callers, Ask(c) PROVE UNCHANGED rpcVars
  BY <1>2 DEF Ask
<1>3. CASE Audit \/ Shutdown \/ Close \/ Flip
  BY <1>3 DEF Audit, Shutdown, Close, Flip
<1>4. CASE UNCHANGED vars
  BY <1>4 DEF vars
<1>5. QED BY <1>1, <1>2, <1>3, <1>4 DEF Next, Cooldown

LEMMA FailureCounts ==
    ASSUME BreakerInv, OnFailure
    PROVE  /\ failures' \in 0 .. Threshold /\ circuitOpen' \in BOOLEAN /\ cooled' \in BOOLEAN
           /\ circuitOpen' <=> failures' = Threshold
           /\ failures' <= failures + 1
<1>1. failures \in 0 .. Threshold /\ failures + 1 \in Nat /\ Threshold \in Nat \ {0}
  BY RpcAssumption DEF BreakerInv, RpcTypeOK
<1>2. /\ UpTo(failures + 1) \in 0 .. Threshold
      /\ failures + 1 <= Threshold => UpTo(failures + 1) = failures + 1
      /\ failures + 1 >= Threshold => UpTo(failures + 1) = Threshold
  BY <1>1, UpToIs
<1>3. failures' = UpTo(failures + 1) /\ cooled' = cooled
      /\ circuitOpen' = (circuitOpen \/ failures + 1 >= Threshold)
  BY DEF OnFailure
<1>4. failures' \in 0 .. Threshold /\ failures' <= failures + 1
      /\ (failures' = Threshold <=> failures + 1 >= Threshold)
  BY <1>1, <1>2, <1>3
<1>5. circuitOpen => failures + 1 >= Threshold
  BY <1>1 DEF BreakerInv, OpensOnFailures
<1>6. circuitOpen' \in BOOLEAN /\ cooled' \in BOOLEAN
  BY <1>3 DEF BreakerInv, RpcTypeOK
<1>7. circuitOpen' <=> failures + 1 >= Threshold
  BY <1>3, <1>5
<1>8. QED BY <1>4, <1>6, <1>7

LEMMA BreakerStep == BreakerInv /\ [Next]_vars => BreakerInv'
<1> SUFFICES ASSUME BreakerInv, [Next]_vars PROVE BreakerInv'
  OBVIOUS
<1>1. /\ failures \in 0 .. Threshold /\ failed \in 0 .. Threshold /\ Threshold \in Nat \ {0}
      /\ IsFiniteSet(noted) /\ Cardinality(noted) \in Nat /\ noted \subseteq dying
      /\ dying \subseteq Callers
      /\ failures + Cardinality(noted) <= 2 * failed \/ failed = Threshold
  BY RpcAssumption, NotedCount DEF BreakerInv, RpcTypeOK, OpensOnFailures
<1>2. /\ UpTo(failed + 1) \in 0 .. Threshold
      /\ UpTo(failed + 1) = failed + 1 \/ UpTo(failed + 1) = Threshold
      /\ failed = Threshold => UpTo(failed + 1) = Threshold
  BY <1>1, UpToIs
<1>3. CASE UNCHANGED rpcVars
  BY <1>3 DEF rpcVars, BreakerInv, RpcTypeOK, OpensOnFailures
<1>4. CASE Succeeds
  <2>1. failures' = 0 /\ failed' = 0 /\ noted' = {} /\ dying' = dying
        /\ circuitOpen' = FALSE /\ cooled' = FALSE
    BY <1>4 DEF Succeeds, OnSuccess
  <2>2. IsFiniteSet(noted') /\ Cardinality(noted') = 0
    BY <2>1, FS_EmptySet
  <2>3. (circuitOpen' <=> failures' = Threshold)
        /\ failures' + Cardinality(noted') <= 2 * failed'
    BY <1>1, <2>1, <2>2
  <2>4. RpcTypeOK'
    <3>1. circuitOpen' \in BOOLEAN /\ cooled' \in BOOLEAN
      BY <2>1, Zenon
    <3>2. QED BY <1>1, <2>1, <3>1 DEF RpcTypeOK
  <2>5. QED BY <2>2, <2>3, <2>4 DEF BreakerInv, OpensOnFailures
<1>5. CASE CooldownPasses
  BY <1>5 DEF CooldownPasses, BreakerInv, RpcTypeOK, OpensOnFailures
<1>6. CASE ConnectionFails
  <2>1. failed' = UpTo(failed + 1) /\ noted' = noted /\ dying' = dying
    BY <1>6 DEF ConnectionFails
  <2>2. /\ failures' \in 0 .. Threshold /\ failures' <= failures + 1
        /\ circuitOpen' \in BOOLEAN /\ cooled' \in BOOLEAN
        /\ circuitOpen' <=> failures' = Threshold
    BY <1>6, FailureCounts DEF ConnectionFails
  <2>3. failures' + Cardinality(noted') <= 2 * failed' \/ failed' = Threshold
    BY <1>1, <1>2, <2>1, <2>2
  <2>4. QED BY <1>1, <1>2, <2>1, <2>2, <2>3 DEF BreakerInv, RpcTypeOK, OpensOnFailures
<1>7. ASSUME NEW c \in Callers, TimesOut(c) PROVE BreakerInv'
  <2>1. /\ failed' = UpTo(failed + 1) /\ noted' = noted \cup {c}
        /\ dying' = dying \cup {c} /\ c \notin noted
    BY <1>1, <1>7 DEF TimesOut
  <2>2. /\ failures' \in 0 .. Threshold /\ failures' <= failures + 1
        /\ circuitOpen' \in BOOLEAN /\ cooled' \in BOOLEAN
        /\ circuitOpen' <=> failures' = Threshold
    BY <1>7, FailureCounts DEF TimesOut
  <2>3. IsFiniteSet(noted') /\ Cardinality(noted') = Cardinality(noted) + 1
    BY <1>1, <2>1, NotedCount
  <2>4. failures' + Cardinality(noted') <= 2 * failed' \/ failed' = Threshold
    BY <1>1, <1>2, <2>1, <2>2, <2>3
  <2>5. QED BY <1>1, <1>2, <2>1, <2>2, <2>3, <2>4
            DEF BreakerInv, RpcTypeOK, OpensOnFailures
<1>8. ASSUME NEW c \in Callers, DestroyedReports(c) PROVE BreakerInv'
  <2>1. dying' = dying \ {c} /\ noted' = noted \ {c}
    BY <1>8 DEF DestroyedReports
  <2>2. IsFiniteSet(noted') /\ Cardinality(noted') \in Nat
        /\ Cardinality(noted') = IF c \in noted THEN Cardinality(noted) - 1
                                 ELSE Cardinality(noted)
    BY <1>1, <2>1, NotedCount, FS_CardinalityType
  <2>3. CASE OnFailure /\ failed' = IF c \in noted THEN failed ELSE UpTo(failed + 1)
    <3>1. /\ failures' \in 0 .. Threshold /\ failures' <= failures + 1
          /\ circuitOpen' \in BOOLEAN /\ cooled' \in BOOLEAN
          /\ circuitOpen' <=> failures' = Threshold
      BY <2>3, FailureCounts
    <3>2. /\ failed' \in 0 .. Threshold
          /\ failures' + Cardinality(noted') <= 2 * failed' \/ failed' = Threshold
      BY <1>1, <1>2, <2>2, <2>3, <3>1
    <3>3. QED BY <1>1, <2>1, <2>2, <3>1, <3>2 DEF BreakerInv, RpcTypeOK, OpensOnFailures
  <2>4. CASE UNCHANGED <<breaker, failed>>
    <3>1. failures' = failures /\ failed' = failed /\ circuitOpen' = circuitOpen
          /\ cooled' = cooled
      BY <2>4 DEF breaker
    <3>2. failures' + Cardinality(noted') <= 2 * failed' \/ failed' = Threshold
      BY <1>1, <2>2, <3>1
    <3>3. QED BY <1>1, <2>1, <2>2, <3>1, <3>2 DEF BreakerInv, RpcTypeOK, OpensOnFailures
  <2>5. QED BY <1>8, <2>3, <2>4 DEF DestroyedReports
<1>9. QED BY <1>3, <1>4, <1>5, <1>6, <1>7, <1>8, BreakerSteps

LEMMA InitBreaker == Init => BreakerInv
<1> SUFFICES ASSUME Init PROVE BreakerInv
  OBVIOUS
<1>1. IsFiniteSet({}) /\ Cardinality({}) = 0
  BY FS_EmptySet
<1>2. /\ failures = 0 /\ circuitOpen = FALSE /\ cooled = FALSE
      /\ dying = {} /\ failed = 0 /\ noted = {} /\ Threshold \in Nat \ {0}
  BY RpcAssumption DEF Init, RpcInit
<1>3. IsFiniteSet(noted) /\ Cardinality(noted) = 0
  BY <1>1, <1>2
<1>4. (circuitOpen <=> failures = Threshold) /\ failures + Cardinality(noted) <= 2 * failed
  BY <1>2, <1>3
<1>5. RpcTypeOK
  <2>1. circuitOpen \in BOOLEAN /\ cooled \in BOOLEAN
    BY <1>2, Zenon
  <2>2. QED BY <1>2, <2>1 DEF RpcTypeOK
<1>6. QED BY <1>3, <1>4, <1>5 DEF BreakerInv, OpensOnFailures

\* For any threshold and any number of callers and of calls under way: the
\* circuit is open exactly when the failures reach the threshold, and they come
\* from calls that failed since the last success, twice from one that timed out.
THEOREM BreakerOpensOnFailures == Spec => []OpensOnFailures
<1>1. BreakerInv => OpensOnFailures
  BY DEF BreakerInv
<1>2. QED BY <1>1, InitBreaker, BreakerStep, PTL DEF Spec

----------------------------------------------------------------------------
(* The audit log.                                                          *)

Distinct(s) == \A i, j \in DOMAIN s : s[i] = s[j] => i = j

LEMMA AppendSet ==
    ASSUME NEW S, NEW s \in Seq(S), NEW e \in S
    PROVE  /\ Append(s, e) \in Seq(S) /\ Append(s, e) # <<>>
           /\ ToSet(Append(s, e)) = ToSet(s) \cup {e}
           /\ Distinct(s) /\ e \notin ToSet(s) => Distinct(Append(s, e))
<1>1. /\ Append(s, e) \in Seq(S) /\ Len(Append(s, e)) = Len(s) + 1
      /\ \A i \in 1 .. Len(s) : Append(s, e)[i] = s[i]
      /\ Append(s, e)[Len(s) + 1] = e
  OBVIOUS
<1>2. /\ DOMAIN s = 1 .. Len(s) /\ Len(s) \in Nat
      /\ DOMAIN Append(s, e) = (1 .. Len(s)) \cup {Len(s) + 1}
  BY <1>1
<1>3. ToSet(Append(s, e)) = ToSet(s) \cup {e}
  BY <1>1, <1>2 DEF ToSet
<1>4. ASSUME Distinct(s), e \notin ToSet(s) PROVE Distinct(Append(s, e))
  BY <1>1, <1>2, <1>4 DEF Distinct, ToSet
<1>5. QED BY <1>1, <1>3, <1>4

LEMMA TailSet ==
    ASSUME NEW S, NEW s \in Seq(S), s # <<>>, Distinct(s)
    PROVE  /\ Head(s) \in S /\ Head(s) \in ToSet(s)
           /\ Tail(s) \in Seq(S) /\ Distinct(Tail(s))
           /\ ToSet(Tail(s)) = ToSet(s) \ {Head(s)}
           /\ Len(s) > 1 <=> Tail(s) # <<>>
<1>1. /\ Len(s) \in Nat \ {0} /\ DOMAIN s = 1 .. Len(s) /\ Head(s) = s[1]
      /\ Tail(s) \in Seq(S) /\ Len(Tail(s)) = Len(s) - 1
      /\ DOMAIN Tail(s) = 1 .. (Len(s) - 1)
      /\ \A i \in 1 .. (Len(s) - 1) : Tail(s)[i] = s[i + 1]
  OBVIOUS
<1>2. Head(s) \in S /\ Head(s) \in ToSet(s)
  BY <1>1 DEF ToSet
<1>3. Distinct(Tail(s))
  BY <1>1 DEF Distinct
<1>4. ASSUME NEW x \in ToSet(Tail(s)) PROVE x \in ToSet(s) \ {Head(s)}
  <2>1. PICK i \in 1 .. (Len(s) - 1) : x = s[i + 1]
    BY <1>1 DEF ToSet
  <2>2. i + 1 \in DOMAIN s /\ i + 1 # 1 /\ 1 \in DOMAIN s
    BY <1>1, <2>1
  <2>3. QED BY <1>1, <2>1, <2>2 DEF ToSet, Distinct
<1>5. ASSUME NEW x \in ToSet(s), x # Head(s) PROVE x \in ToSet(Tail(s))
  <2>1. PICK i \in 1 .. Len(s) : x = s[i]
    BY <1>1 DEF ToSet
  <2>2. i # 1 /\ i - 1 \in 1 .. (Len(s) - 1) /\ (i - 1) + 1 = i
    BY <1>1, <1>5, <2>1
  <2>3. Tail(s)[i - 1] = x
    BY <1>1, <2>1, <2>2
  <2>4. QED BY <1>1, <2>2, <2>3 DEF ToSet
<1>6. Len(s) > 1 <=> Tail(s) # <<>>
  <2>1. Tail(s) = <<>> <=> Len(Tail(s)) = 0
    BY <1>1, EmptySeq
  <2>2. QED BY <1>1, <2>1
<1>7. QED BY <1>1, <1>2, <1>3, <1>4, <1>5, <1>6

\* An entry that is in a sequence of distinct ones is there once.
LEMMA CountsOnce ==
    ASSUME NEW s, Distinct(s), NEW e
    PROVE  Cardinality({i \in DOMAIN s : s[i] = e}) = IF e \in ToSet(s) THEN 1 ELSE 0
<1> DEFINE I == {i \in DOMAIN s : s[i] = e}
<1>1. ASSUME e \in ToSet(s) PROVE Cardinality(I) = 1
  <2>1. PICK k \in DOMAIN s : s[k] = e
    BY <1>1 DEF ToSet
  <2>2. I = {k}
    BY <2>1 DEF Distinct
  <2>3. QED BY <2>2, FS_Singleton
<1>2. ASSUME e \notin ToSet(s) PROVE Cardinality(I) = 0
  <2>1. I = {}
    BY <1>2 DEF ToSet
  <2>2. QED BY <2>1, FS_EmptySet
<1>3. QED BY <1>1, <1>2

Batched == UNION {ToSet(b) : b \in batches}

\* KeptOnce in terms of sets: the places of the entries are disjoint, no place
\* holds an entry twice, and together they hold what was recorded.
AuditInv ==
    /\ buffer \in Seq(Nat) /\ table \in Seq(Nat) /\ batches \subseteq Seq(Nat)
    /\ recorded \in Nat
    /\ Distinct(buffer) /\ Distinct(table)
    /\ \A b \in batches : b # <<>> /\ Distinct(b)
    /\ \A b, d \in batches : b # d => ToSet(b) \cap ToSet(d) = {}
    /\ ToSet(buffer) \cap ToSet(table) = {} /\ ToSet(buffer) \cap dropped = {}
    /\ ToSet(table) \cap dropped = {}
    /\ Batched \cap (ToSet(buffer) \cup ToSet(table) \cup dropped) = {}
    /\ ToSet(buffer) \cup ToSet(table) \cup dropped \cup Batched = 1 .. recorded

LEMMA AuditInvKeeps == AuditInv => KeptOnce
<1> SUFFICES ASSUME AuditInv, NEW e \in 1 .. recorded PROVE Places(e) = 1
  BY DEF KeptOnce
<1> DEFINE holding == {b \in batches : e \in ToSet(b)}
<1>1. Cardinality(holding) = IF e \in Batched THEN 1 ELSE 0
  <2>1. ASSUME e \in Batched PROVE Cardinality(holding) = 1
    <3>1. PICK b \in batches : e \in ToSet(b)
      BY <2>1 DEF Batched
    <3>2. holding = {b}
      BY <3>1 DEF AuditInv
    <3>3. QED BY <3>2, FS_Singleton
  <2>2. ASSUME e \notin Batched PROVE Cardinality(holding) = 0
    <3>1. holding = {}
      BY <2>2 DEF Batched
    <3>2. QED BY <3>1, FS_EmptySet
  <2>3. QED BY <2>1, <2>2
<1>2. /\ Cardinality({i \in DOMAIN table : table[i] = e}) = IF e \in ToSet(table) THEN 1 ELSE 0
      /\ Cardinality({i \in DOMAIN buffer : buffer[i] = e}) = IF e \in ToSet(buffer) THEN 1 ELSE 0
  BY CountsOnce DEF AuditInv
<1>3. /\ e \in ToSet(buffer) \cup ToSet(table) \cup dropped \cup Batched
      /\ e \in ToSet(buffer) => e \notin ToSet(table) /\ e \notin dropped /\ e \notin Batched
      /\ e \in ToSet(table) => e \notin dropped /\ e \notin Batched
      /\ e \in dropped => e \notin Batched
  BY DEF AuditInv
<1>4. QED BY <1>1, <1>2, <1>3 DEF Places

\* A flush takes b, which holds what the buffer held and perhaps a new entry.
LEMMA TakesKeeps ==
    ASSUME AuditInv, NEW b \in Seq(Nat), b # <<>>, Distinct(b), Takes(b),
           NEW new, ToSet(b) = ToSet(buffer) \cup new,
           new \cap (1 .. recorded) = {}, recorded' \in Nat,
           1 .. recorded' = (1 .. recorded) \cup new, UNCHANGED <<table, dropped>>
    PROVE  AuditInv'
<1>1. buffer' = <<>> /\ batches' = batches \cup {b} /\ ToSet(<<>>) = {} /\ Distinct(<<>>)
      /\ <<>> \in Seq(Nat)
  BY DEF Takes, ToSet, Distinct
<1>2. Batched' = Batched \cup ToSet(b)
  BY <1>1 DEF Batched
<1>3. \A d \in batches : ToSet(d) \subseteq Batched
  BY DEF Batched
<1>4. \A d \in batches : ToSet(b) \cap ToSet(d) = {}
  BY <1>3 DEF AuditInv
<1>5. ToSet(b) \cap (ToSet(table) \cup dropped) = {}
  BY DEF AuditInv
<1>6. QED BY <1>1, <1>2, <1>4, <1>5 DEF AuditInv

LEMMA RecordKeeps == ASSUME AuditInv, Record PROVE AuditInv'
<1> DEFINE e == recorded + 1  b == Append(buffer, e)
<1>1. /\ e \in Nat /\ recorded' = e /\ e \notin 1 .. recorded
      /\ 1 .. recorded' = (1 .. recorded) \cup {e}
      /\ UNCHANGED <<table, dropped>>
  BY DEF Record, AuditInv
<1>2. e \notin ToSet(buffer) /\ buffer \in Seq(Nat) /\ Distinct(buffer)
  BY <1>1 DEF AuditInv
<1>3. /\ b \in Seq(Nat) /\ b # <<>> /\ ToSet(b) = ToSet(buffer) \cup {e} /\ Distinct(b)
  BY <1>1, <1>2, AppendSet
<1>4. CASE Takes(b)
  <2> DEFINE new == {e}
  <2>1. /\ ToSet(b) = ToSet(buffer) \cup new /\ new \cap (1 .. recorded) = {}
        /\ recorded' \in Nat /\ 1 .. recorded' = (1 .. recorded) \cup new
    BY <1>1, <1>3
  <2>2. QED BY <1>1, <1>3, <1>4, <2>1, TakesKeeps
<1>5. CASE buffer' = b /\ UNCHANGED batches
  <2>1. Batched' = Batched /\ e \notin Batched \cup ToSet(table) \cup dropped
    BY <1>1, <1>5 DEF Batched, AuditInv
  <2>2. QED BY <1>1, <1>3, <1>5, <2>1 DEF AuditInv
<1>6. QED BY <1>4, <1>5 DEF Record

LEMMA FlushKeeps == ASSUME AuditInv, Flush PROVE AuditInv'
<1>1. Takes(buffer) /\ buffer # <<>> /\ UNCHANGED <<table, dropped, recorded>>
  BY DEF Flush
<1> DEFINE new == {}
<1>2. /\ ToSet(buffer) = ToSet(buffer) \cup new /\ new \cap (1 .. recorded) = {}
      /\ recorded' \in Nat /\ 1 .. recorded' = (1 .. recorded) \cup new
      /\ buffer \in Seq(Nat) /\ Distinct(buffer)
  BY <1>1 DEF AuditInv
<1> HIDE DEF new
<1>3. QED BY <1>1, <1>2, TakesKeeps

LEMMA InsertKeeps == ASSUME AuditInv, NEW b \in batches, NEW works, Insert(b, works) PROVE AuditInv'
<1> DEFINE e == Head(b)  left == IF Len(b) > 1 THEN {Tail(b)} ELSE {}
<1>1. /\ b \in Seq(Nat) /\ b # <<>> /\ Distinct(b)
      /\ batches' = (batches \ {b}) \cup left /\ UNCHANGED <<buffer, recorded>>
  BY DEF AuditInv, Insert
<1>2. /\ e \in Nat /\ e \in ToSet(b) /\ Tail(b) \in Seq(Nat) /\ Distinct(Tail(b))
      /\ ToSet(Tail(b)) = ToSet(b) \ {e} /\ (Len(b) > 1 <=> Tail(b) # <<>>)
  BY <1>1, TailSet
<1>3. ToSet(<<>>) = {}
  BY DEF ToSet
<1>4. UNION {ToSet(d) : d \in left} = ToSet(b) \ {e}
  BY <1>2, <1>3
<1>5. \A d \in batches \ {b} : ToSet(d) \cap ToSet(b) = {}
  BY DEF AuditInv
<1>6. Batched' = Batched \ {e}
  <2>1. Batched = (UNION {ToSet(d) : d \in batches \ {b}}) \cup ToSet(b)
    BY DEF Batched
  <2>2. e \notin UNION {ToSet(d) : d \in batches \ {b}}
    BY <1>2, <1>5
  <2>3. Batched' = (UNION {ToSet(d) : d \in batches \ {b}}) \cup UNION {ToSet(d) : d \in left}
    BY <1>1 DEF Batched
  <2>4. QED BY <1>2, <1>4, <2>1, <2>2, <2>3
<1>7. /\ batches' \subseteq Seq(Nat)
      /\ \A d \in batches' : d # <<>> /\ Distinct(d)
      /\ \A d, f \in batches' : d # f => ToSet(d) \cap ToSet(f) = {}
  BY <1>1, <1>2, <1>5 DEF AuditInv
<1>8. e \in Batched /\ e \notin ToSet(buffer) \cup ToSet(table) \cup dropped
  BY <1>2 DEF AuditInv, Batched
<1>9. CASE table' = Append(table, e) /\ UNCHANGED dropped
  <2>1. /\ table' \in Seq(Nat) /\ ToSet(table') = ToSet(table) \cup {e} /\ Distinct(table')
    BY <1>2, <1>8, <1>9, AppendSet DEF AuditInv
  <2>2. QED BY <1>1, <1>6, <1>7, <1>8, <1>9, <2>1 DEF AuditInv
<1>10. CASE dropped' = dropped \cup {e} /\ UNCHANGED table
  BY <1>1, <1>6, <1>7, <1>8, <1>10 DEF AuditInv
<1>11. QED BY <1>9, <1>10 DEF Insert

LEMMA AuditSteps ==
    ASSUME [Next]_vars
    PROVE  UNCHANGED auditVars \/ Record \/ Flush \/ \E b \in batches : \E works : Insert(b, works)
<1>1. ASSUME NEW c \in Callers, Ask(c) \/ CallStep(c) PROVE UNCHANGED auditVars
  BY <1>1 DEF Ask, CallStep, Answered, Refused, Unreachable, Destroyed, AskDatabase, Store
<1>2. CASE Cooldown \/ Close \/ Flip
  BY <1>2 DEF Cooldown, Close, Flip
<1>3. CASE Audit \/ Shutdown
  BY <1>3 DEF Audit, Shutdown
<1>4. CASE UNCHANGED vars
  BY <1>4 DEF vars
<1>5. QED BY <1>1, <1>2, <1>3, <1>4 DEF Next

LEMMA InitAudit == Init => AuditInv
<1> SUFFICES ASSUME Init PROVE AuditInv
  OBVIOUS
<1>1. buffer = <<>> /\ table = <<>> /\ batches = {} /\ dropped = {} /\ recorded = 0
  BY DEF Init, AuditInit
<1>2. ToSet(<<>>) = {} /\ Distinct(<<>>) /\ <<>> \in Seq(Nat) /\ Batched = {}
      /\ 1 .. 0 = {}
  BY <1>1 DEF ToSet, Distinct, Batched
<1>3. QED BY <1>1, <1>2 DEF AuditInv

LEMMA AuditStep == AuditInv /\ [Next]_vars => AuditInv'
<1> SUFFICES ASSUME AuditInv, [Next]_vars PROVE AuditInv'
  OBVIOUS
<1>1. CASE UNCHANGED auditVars
  BY <1>1 DEF auditVars, AuditInv, Batched
<1>2. QED BY <1>1, AuditSteps, RecordKeeps, FlushKeeps, InsertKeeps

\* For any size of the buffer and any number of entries: however flushes overlap,
\* fail, and run into the shutdown, no entry is written twice or forgotten.
THEOREM EveryEntryKeptOnce == Spec => []KeptOnce
BY InitAudit, AuditStep, AuditInvKeeps, PTL DEF Spec

----------------------------------------------------------------------------
(* Types.                                                                  *)

LEMMA SeqWithin ==
    ASSUME NEW S, NEW s \in Seq(Nat), ToSet(s) \subseteq S
    PROVE  s \in Seq(S)
<1>1. Len(s) \in Nat /\ DOMAIN s = 1 .. Len(s) /\ s = [i \in 1 .. Len(s) |-> s[i]]
  OBVIOUS
<1>2. \A i \in 1 .. Len(s) : s[i] \in S
  BY <1>1 DEF ToSet
<1>3. s \in [1 .. Len(s) -> S]
  BY <1>1, <1>2
<1>4. QED BY <1>1, <1>3, SeqDef

\* What the watchers of the pool keep besides the breaker and the log.
WorldTypeOK ==
    /\ daemon \in {"down", "syncing", "synced"} /\ db \in {"up", "down"}
    /\ at \in [Callers -> {"idle", "daemon", "lost", "db"}]
    /\ seen \in [daemon : {"unknown", "offline", "behind", "synced"}, postgres : BOOLEAN]
    /\ process \in {"running", "stopping", "closed", "exited"}
    /\ flips \in 0 .. MaxFlips
    /\ recorded <= MaxEntries

LEMMA TypesFollow == BreakerInv /\ AuditInv /\ WorldTypeOK => TypeOK
<1> SUFFICES ASSUME BreakerInv, AuditInv, WorldTypeOK PROVE TypeOK
  OBVIOUS
<1>1. recorded \in 0 .. MaxEntries /\ 1 .. recorded \subseteq Entries
  BY AuditAssumption DEF AuditInv, WorldTypeOK, Entries
<1>2. /\ ToSet(buffer) \subseteq Entries /\ ToSet(table) \subseteq Entries
      /\ dropped \subseteq Entries /\ Batched \subseteq Entries
  BY <1>1 DEF AuditInv
<1>3. buffer \in Seq(Entries) /\ table \in Seq(Entries)
  <2>1. buffer \in Seq(Nat) /\ table \in Seq(Nat)
    BY DEF AuditInv
  <2>2. buffer \in Seq(Entries)
    BY <1>2, <2>1, SeqWithin
  <2>3. table \in Seq(Entries)
    BY <1>2, <2>1, SeqWithin
  <2>4. QED BY <2>2, <2>3
<1>4. batches \subseteq Seq(Entries)
  <2> SUFFICES ASSUME NEW b \in batches PROVE b \in Seq(Entries)
    OBVIOUS
  <2>1. b \in Seq(Nat) /\ ToSet(b) \subseteq Entries
    BY <1>2 DEF AuditInv, Batched
  <2>2. QED BY <2>1, SeqWithin
<1>5. AuditTypeOK
  BY <1>1, <1>2, <1>3, <1>4 DEF AuditTypeOK
<1>6. QED BY <1>5 DEF BreakerInv, WorldTypeOK, TypeOK

LEMMA InitWorld == Init => WorldTypeOK
<1> SUFFICES ASSUME Init PROVE WorldTypeOK
  OBVIOUS
<1>1. seen \in [daemon : {"unknown", "offline", "behind", "synced"}, postgres : BOOLEAN]
  BY DEF Init, Unknown
<1>2. flips \in 0 .. MaxFlips /\ recorded <= MaxEntries
  BY OperationsAssumption, AuditAssumption DEF Init, AuditInit
<1>3. at \in [Callers -> {"idle", "daemon", "lost", "db"}]
  BY DEF Init
<1>4. QED BY <1>1, <1>2, <1>3 DEF Init, WorldTypeOK

\* What the steps of a caller do to the world.
LEMMA CallerMoves ==
    ASSUME WorldTypeOK, NEW c \in Callers, Ask(c) \/ CallStep(c)
    PROVE  /\ UNCHANGED <<world, auditVars>>
           /\ at' \in [Callers -> {"idle", "daemon", "lost", "db"}]
           /\ seen' \in [daemon : {"unknown", "offline", "behind", "synced"},
                         postgres : BOOLEAN]
<1>1. /\ at \in [Callers -> {"idle", "daemon", "lost", "db"}]
      /\ seen \in [daemon : {"unknown", "offline", "behind", "synced"}, postgres : BOOLEAN]
  BY DEF WorldTypeOK
<1>2. UNCHANGED <<world, auditVars>>
  BY DEF Ask, CallStep, Answered, Refused, Unreachable, Destroyed, AskDatabase, Store
<1>3. \/ at' = at \/ at' = [at EXCEPT ![c] = "db"] \/ at' = [at EXCEPT ![c] = "idle"]
      \/ at' = [at EXCEPT ![c] = IF daemon = "down" THEN "lost" ELSE "daemon"]
  BY DEF Ask, CallStep, Answered, Refused, Unreachable, Destroyed, AskDatabase, Store,
         Online, Offline, Collect
<1>4. \/ seen' = seen
      \/ seen' = [seen EXCEPT !.daemon = IF daemon = "synced" THEN "synced" ELSE "behind"]
      \/ seen' = [seen EXCEPT !.daemon = "offline"]
      \/ seen' = [seen EXCEPT !.postgres = db = "up" /\ process # "closed"]
  BY DEF Ask, CallStep, Answered, Refused, Unreachable, Destroyed, AskDatabase, Store,
         Online, Offline, Collect
<1>5. at' \in [Callers -> {"idle", "daemon", "lost", "db"}]
  BY <1>1, <1>3
<1>6. seen' \in [daemon : {"unknown", "offline", "behind", "synced"}, postgres : BOOLEAN]
  <2>1. (db = "up" /\ process # "closed") \in BOOLEAN
    BY Zenon
  <2>2. QED BY <1>1, <1>4, <2>1
<1>7. QED BY <1>2, <1>5, <1>6

\* Record alone counts entries.
LEMMA RecordedBounded ==
    ASSUME AuditInv, recorded <= MaxEntries, [Next]_vars
    PROVE  recorded' <= MaxEntries
<1>1. CASE UNCHANGED auditVars \/ Flush \/ \E b \in batches : \E works : Insert(b, works)
  BY <1>1 DEF auditVars, Flush, Insert
<1>2. CASE Record
  BY <1>2, AuditAssumption DEF Record, AuditInv
<1>3. QED BY <1>1, <1>2, AuditSteps

LEMMA WorldStep == AuditInv /\ WorldTypeOK /\ [Next]_vars => WorldTypeOK'
<1> SUFFICES ASSUME AuditInv, WorldTypeOK, [Next]_vars PROVE WorldTypeOK'
  OBVIOUS
<1>1. recorded' <= MaxEntries
  BY RecordedBounded DEF WorldTypeOK
<1>2. ASSUME NEW c \in Callers, Ask(c) \/ CallStep(c) PROVE WorldTypeOK'
  BY <1>1, <1>2, CallerMoves DEF world, WorldTypeOK
<1>3. CASE Cooldown \/ Audit
  BY <1>1, <1>3 DEF Cooldown, Audit, world, WorldTypeOK
<1>4. CASE Shutdown \/ Close
  BY <1>1, <1>4 DEF Shutdown, Close, WorldTypeOK
<1>5. CASE Flip
  <2>1. flips' \in 0 .. MaxFlips
    BY <1>5, OperationsAssumption DEF Flip, WorldTypeOK
  <2>2. daemon' \in {"down", "syncing", "synced"} /\ db' \in {"up", "down"}
    BY <1>5 DEF Flip, WorldTypeOK
  <2>3. at' \in [Callers -> {"idle", "daemon", "lost", "db"}]
    BY <1>5 DEF Flip, WorldTypeOK
  <2>4. UNCHANGED <<seen, process>>
    BY <1>5 DEF Flip
  <2>5. QED BY <1>1, <2>1, <2>2, <2>3, <2>4 DEF WorldTypeOK
<1>6. CASE UNCHANGED vars
  BY <1>1, <1>6 DEF vars, WorldTypeOK
<1>7. QED BY <1>2, <1>3, <1>4, <1>5, <1>6 DEF Next

\* The types of the breaker, the log and the monitor, for any number of callers.
THEOREM OperationsTyped == Spec => []TypeOK
<1> DEFINE Inv == BreakerInv /\ AuditInv /\ WorldTypeOK
<1>1. Init => Inv
  BY InitBreaker, InitAudit, InitWorld
<1>2. Inv /\ [Next]_vars => Inv'
  BY BreakerStep, AuditStep, WorldStep
<1>3. Inv => TypeOK
  BY TypesFollow
<1>4. QED BY <1>1, <1>2, <1>3, PTL DEF Spec
=============================================================================

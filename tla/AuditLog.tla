------------------------------- MODULE AuditLog -------------------------------
(***************************************************************************)
(* The audit log (auditLog.js): entries are buffered, a flush takes the    *)
(* whole buffer and writes the entries one after the other, and several    *)
(* flushes may be under way.  Entries are numbered as they are recorded.   *)
(***************************************************************************)
EXTENDS Integers, SequencesExt

CONSTANTS
    BufferLimit,   \* 50
    MaxEntries     \* bound: entries of a behaviour

ASSUME AuditAssumption == BufferLimit \in Nat \ {0} /\ MaxEntries \in Nat

VARIABLES
    buffer,    \* entries not yet taken by a flush
    batches,   \* what the flushes under way have still to write
    table,     \* audit_log, in the order of the inserts
    dropped,   \* entries whose insert failed
    recorded

auditVars == <<buffer, batches, table, dropped, recorded>>

Entries == 1 .. MaxEntries

AuditTypeOK ==
    /\ buffer \in Seq(Entries) /\ batches \subseteq Seq(Entries)
    /\ table \in Seq(Entries) /\ dropped \subseteq Entries
    /\ recorded \in 0 .. MaxEntries

AuditInit ==
    /\ buffer = <<>> /\ batches = {} /\ table = <<>> /\ dropped = {} /\ recorded = 0
-----------------------------------------------------------------------------
\* Wrong on purpose: the buffer is emptied only by the next record.
TakesCopy(b) == batches' = batches \cup {b} /\ buffer' = b

\* _flush up to its first await.
Takes(b) == batches' = batches \cup {b} /\ buffer' = <<>>

\* _record: the entry that fills the buffer flushes it.
Record ==
    /\ recorded < MaxEntries
    /\ recorded' = recorded + 1
    /\ LET b == Append(buffer, recorded + 1)
       IN  IF Len(b) >= BufferLimit THEN Takes(b)
           ELSE buffer' = b /\ UNCHANGED batches
    /\ UNCHANGED <<table, dropped>>

Flush ==
    /\ buffer # <<>>
    /\ Takes(buffer)
    /\ UNCHANGED <<table, dropped, recorded>>

\* The rest of a flush, insert by insert; a failed one is logged and skipped.
Insert(b, works) ==
    /\ IF works THEN table' = Append(table, Head(b)) /\ UNCHANGED dropped
       ELSE dropped' = dropped \cup {Head(b)} /\ UNCHANGED table
    /\ batches' = (batches \ {b}) \cup (IF Len(b) > 1 THEN {Tail(b)} ELSE {})
    /\ UNCHANGED <<buffer, recorded>>
-----------------------------------------------------------------------------
Places(e) == Cardinality({b \in batches : e \in ToSet(b)})
             + Cardinality({i \in DOMAIN table : table[i] = e})
             + Cardinality({i \in DOMAIN buffer : buffer[i] = e})
             + (IF e \in dropped THEN 1 ELSE 0)

\* However the flushes overlap, every entry recorded is in one place: waiting, in
\* one flush, in the table once, or dropped by a failed insert (auditLog.js 176-205).
KeptOnce == \A e \in 1 .. recorded : Places(e) = 1
=============================================================================

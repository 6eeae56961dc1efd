----------------------------- MODULE Settlement -----------------------------
(***************************************************************************)
(* What the payout engine promises, without its cycles, tables and crashes:*)
(* the wallet pays an address for a block at most once, and the books call *)
(* a payment settled only when the wallet has made it.                     *)
(***************************************************************************)
EXTENDS Sequences

CONSTANTS Blocks, Addrs, Owed(_)

VARIABLES history,   \* transactions made, each for one block
          settled    \* <<block, address>> pairs the books show as sent

Paid(h) == UNION {{<<h[i].blk, a>> : a \in h[i].addrs} : i \in DOMAIN h}

Init == history = <<>> /\ settled = {}

\* One transaction pays some addresses of a block that are owed and not yet paid.
Pay ==
    \E b \in Blocks, S \in SUBSET Addrs :
        /\ S # {}
        /\ S \subseteq Owed(b)
        /\ \A a \in S : <<b, a>> \notin Paid(history)
        /\ history' = Append(history, [blk |-> b, addrs |-> S])
        /\ UNCHANGED settled

\* The books catch up with the wallet, in one entry or many, and never go back.
Settle ==
    /\ settled \subseteq settled'
    /\ settled' \subseteq Paid(history)
    /\ UNCHANGED history

Next == Pay \/ Settle

Spec == Init /\ [][Next]_<<history, settled>>
=============================================================================

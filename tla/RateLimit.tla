----------------------------- MODULE RateLimit -----------------------------
(* What HoneyPork promises wherever it limits a rate: for each key, no two *)
(* grants are less than Window apart.  The Telegram cooldown (Notifier)    *)
(* and the IDS alert suppression (ScanDetector) both implement it.  There  *)
(* is no clock here: a grant carries the time the implementation read.     *)
EXTENDS Integers, Sequences

\* Window is a natural number and Time a set of natural numbers.
CONSTANTS Keys,     \* what is limited: a dedupe key, or a kind and a source
          Window,   \* least distance between two grants of a key
          Time      \* the readings of the clock

VARIABLE granted    \* granted[k]: the times at which k was granted, in order

TypeOK == granted \in [Keys -> Seq(Time)]

Init == granted = [k \in Keys |-> <<>>]

Free(k, t) == \A i \in 1..Len(granted[k]) : t - granted[k][i] >= Window

\* One step may grant several keys: one packet can raise two IDS alerts.
Next == \E K \in SUBSET Keys : \E at \in [K -> Time] :
          /\ \A k \in K : Free(k, at[k])
          /\ granted' = [k \in Keys |-> IF k \in K THEN Append(granted[k], at[k])
                                                  ELSE granted[k]]

Spec == Init /\ [][Next]_granted

(* Any two grants of one key are at least Window apart, and so is the      *)
(* traffic a limited source can cause.                                     *)
Spaced == \A k \in Keys : \A i, j \in 1..Len(granted[k]) :
            i < j => granted[k][j] - granted[k][i] >= Window
=============================================================================

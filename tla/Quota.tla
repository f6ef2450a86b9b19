------------------------------- MODULE Quota -------------------------------
(***************************************************************************)
(* What a fixed-window rate limiter promises: every counter admits at most *)
(* the limit of a key in a window, until the counter is lost.              *)
(***************************************************************************)
EXTENDS Naturals

CONSTANTS Counter, Key, Window,
          Limit     \* Limit[k]: what key k may have in a window

VARIABLE used       \* used[c][b]: admitted by counter c in bucket b

Bucket  == Key \X Window
Nothing == [b \in Bucket |-> 0]

TypeOK == used \in [Counter -> [Bucket -> Nat]]

Init == used = [c \in Counter |-> Nothing]

Admit(c, b) ==
  /\ used[c][b] < Limit[b[1]]
  /\ used' = [used EXCEPT ![c][b] = @ + 1]

\* The process that holds the counter is restarted.
Forget(c) == used' = [used EXCEPT ![c] = Nothing]

Next == \E c \in Counter : Forget(c) \/ \E b \in Bucket : Admit(c, b)

Spec == Init /\ [][Next]_used

\* No key is admitted more often than its limit says by one counter (over_limit).
WithinLimit == \A c \in Counter, b \in Bucket : used[c][b] <= Limit[b[1]]
=============================================================================

--------------------------- MODULE GuidanceLedger ---------------------------
(***************************************************************************)
(* What a user who sends guidance to a running turn is promised.  A piece  *)
(* of guidance that was accepted has exactly one outcome: the turn applies *)
(* it, the user takes it back, or the turn hands it back when it ends.     *)
(***************************************************************************)
CONSTANTS Turn, Item

VARIABLES
    fate,   \* what the user has been told about each item in each turn
    over    \* the turns that ended while the user was listening

Outcome == {"applied", "unapplied", "cancelled"}

Init ==
    /\ fate = [t \in Turn |-> [i \in Item |-> "unseen"]]
    /\ over = {}

Settle(t, i, from, outcome) ==
    /\ fate[t][i] \in from
    /\ fate' = [fate EXCEPT ![t][i] = outcome]
    /\ UNCHANGED over

Accept(t, i) == t \notin over /\ Settle(t, i, {"unseen"}, "accepted")

(* Guidance that was not accepted yet may be cancelled: it never will be. *)
Cancel(t, i) == Settle(t, i, {"unseen", "accepted"}, "cancelled")

Apply(t, i) == t \notin over /\ Settle(t, i, {"accepted"}, "applied")

Return(t, i) == t \notin over /\ Settle(t, i, {"accepted"}, "unapplied")

End(t) ==
    /\ \A i \in Item : fate[t][i] # "accepted"
    /\ over' = over \union {t}
    /\ UNCHANGED fate

Next ==
    \E t \in Turn :
        \/ End(t)
        \/ \E i \in Item : Accept(t, i) \/ Cancel(t, i) \/ Apply(t, i) \/ Return(t, i)

Spec == Init /\ [][Next]_<<fate, over>>
=============================================================================

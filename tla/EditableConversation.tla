------------------------- MODULE EditableConversation -------------------------
(***************************************************************************)
(* What a user may rely on when the last message of a conversation is      *)
(* edited (src/web/server/replaceLastTurn.ts with                          *)
(* src/gateway/client/InProcessGateway.ts).  The conversation is the one   *)
(* that survives a crash.  An edit takes the place of the last turn all at *)
(* once; until the user is told of it, it may be undone, just as wholly.   *)
(***************************************************************************)
EXTENDS SequencesExt

CONSTANTS Turn, NoConversation

VARIABLES
    conversation,  \* the turns that survive a crash
    former,        \* the conversation before an edit that may still be undone
    told           \* the turns that the user was told are accepted

Init == conversation = <<>> /\ former = NoConversation /\ told = {}

Say(t) ==
    /\ former = NoConversation
    /\ t \notin Range(conversation)
    /\ conversation' = Append(conversation, t)
    /\ UNCHANGED <<former, told>>

Replace(t) ==
    /\ former = NoConversation
    /\ conversation # <<>> /\ t \notin Range(conversation)
    /\ former' = conversation
    /\ conversation' = Append(Front(conversation), t)
    /\ UNCHANGED told

(* The edit can no longer be undone. *)
Settle ==
    /\ former # NoConversation
    /\ former' = NoConversation
    /\ UNCHANGED <<conversation, told>>

Undo ==
    /\ former # NoConversation
    /\ conversation' = former
    /\ former' = NoConversation
    /\ UNCHANGED told

Tell(t) ==
    /\ former = NoConversation
    /\ t \in Range(conversation)
    /\ told' = told \union {t}
    /\ UNCHANGED <<conversation, former>>

Next == Settle \/ Undo \/ \E t \in Turn : Say(t) \/ Replace(t) \/ Tell(t)

Spec == Init /\ [][Next]_<<conversation, former, told>>
=============================================================================

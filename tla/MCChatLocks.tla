----------------------------- MODULE MCChatLocks -----------------------------
(* Instances of ChatLocks: the chats on the shared draft are interchangeable. *)
EXTENDS ChatLocks, TLC

CONSTANTS i, d1, d2

MCIsolated == {i}

MCDrafting == {d1, d2}

MCSymmetry == Permutations(MCDrafting)

\* What of a state bears on the steps and properties from it.  A staged or undone
\* change never becomes pending again, so its owner and content do not, nor that
\* it was shown; what was undone bears on no content.
MCView ==
  LET gone   == {k \in DOMAIN changes : changes[k].state \in {"staged", "undone"}}
      undone == {k \in DOMAIN changes : changes[k].state = "undone"}
  IN  <<[k \in DOMAIN changes |->
           IF k \in gone THEN changes[k].state
           ELSE [changes[k] EXCEPT !.content = @ \ undone]],
        main \ undone, lock, rowTx,
        [c \in Chats |-> [pc     |-> txn[c].pc,
                          adopts |-> txn[c].adopts \ gone,
                          seen   |-> IF c \in Drafting /\ txn[c].pc # "idle"
                                     THEN Seen(c)[c] ELSE 0]],
        seen,
        [c \in Drafting |-> (known[c] \cup missed[c]) \ gone],
        [b \in Branches |-> IF stage[b] = NoStage THEN NoStage ELSE stage[b] \ gone],
        closed>>

===============================================================================

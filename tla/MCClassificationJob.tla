------------------------ MODULE MCClassificationJob ------------------------
(* Two questions: nothing is known of the first, the second lacks a           *)
(* difficulty.                                                               *)
EXTENDS ClassificationJob

CONSTANTS history, sports, a1

Easy(c) == [category |-> c, difficulty |-> "easy"]

MCLabels == {Easy(sports)}

\* Nothing is known of the first question; the second lacks a difficulty.
MCBanks == {[q \in Questions |-> [category   |-> IF q = 1 THEN NoLabel ELSE history,
                                  difficulty |-> NoLabel]]}

\* Both are there: one that comes is one that left before.
MCListings == {[q \in Questions |-> "listed"]}

Order(mode, dry) == [mode |-> mode, dry |-> dry]

MCOrders == {Order("unclassified_only", FALSE), Order("reclassify_all", FALSE),
             Order("reclassify_all", TRUE)}
=============================================================================

---------------------------- MODULE MCRpMatching ----------------------------
(***************************************************************************)
(* An instance of RpMatching for TLC: two messages and two commands, with  *)
(* letters and other code points at the boundaries of the encodings, of    *)
(* the folds and of the ranges (test_helpers.cpp has some of them).        *)
(***************************************************************************)
EXTENDS RpMatching, TLC

CONSTANTS ann, bob, oleg, nobody

MCUsers == {ann, bob, oleg}
MCName == [u \in MCUsers |-> <<u>>]

\* Of the code points below, those that the AI does not get to see: controls,
\* combining marks, zero-width and bidi characters.  Others lie beside them.
MCUnwanted == {9, 13, 31, 127, 128, 159, 768, 879, 1155, 8203, 8207, 8238, 65279, 119155, 917999}

\* Letters of the triggers with their capitals: Yo, Dzhe, A, Pe, Er, Ya and Z, and
\* a letter and a symbol without capitals.
Capital == (1025 :> 1105) @@ (1039 :> 1119) @@ (1040 :> 1072) @@ (1055 :> 1087)
             @@ (1056 :> 1088) @@ (1071 :> 1103) @@ (90 :> 122)
MCLower(p) == IF p \in DOMAIN Capital THEN Capital[p] ELSE p

Hug == <<"{mention1}", "hugs", "{mention2}">>
Dance == <<"{mention}", "dances">>
Who == <<"{mention2}">>
hug == <<1105, 1119, 1072, 1087, 1088, 1103>>
HUG == <<1025, 1039, 1040, 1055, 1056, 1071>>
zip == <<122, 128993>>
ZIP == <<90, 128993>>

Message(sender, points, kind, user, reply) ==
  [sender |-> sender, points |-> points, word |-> [kind |-> kind, user |-> user],
   reply |-> reply]

\* After the trigger, the code points at the boundaries.
MCMessages ==
  {Message(ann, hug \o <<9, 31, 127, 126, 128, 159, 160>>, "mention", bob, oleg),
   Message(ann, HUG \o <<13, 10, 768, 879, 880, 767, 1155, 1078>>, "mention", nobody, bob),
   Message(bob, HUG \o <<32, 2047, 2048, 8202, 8203, 8207, 8208, 8238>>, "number", oleg, ann),
   Message(bob, zip, "number", nobody, ann),
   Message(oleg, ZIP \o <<10, 65279, 65500, 65536, 119155, 128993, 205743, 917999, 1114109>>,
           "none", nobody, bob),
   Message(oleg, hug \o zip, "none", nobody, nobody)}

MCEdits ==
  {[action |-> "add", points |-> ZIP, response |-> Dance],
   [action |-> "remove", points |-> HUG, response |-> <<>>],
   [action |-> "edit", points |-> hug, response |-> Who]}

MCDefaults == {[points |-> hug, response |-> Hug]}
MCSlots == 1..2

\* The texts are those for which the theorem on ImplementsReactions holds.
ASSUME KnownTexts == KnownLetters /\ Trimmed /\ PlainNames
=============================================================================

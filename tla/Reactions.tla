------------------------------ MODULE Reactions ------------------------------
(***************************************************************************)
(* What the RP commands of a chat promise its users (PROJECT.md 140-149):  *)
(* a message that starts with a stored trigger, in whatever case, is       *)
(* answered with the response that is stored at that moment, about a user  *)
(* the message points at.                                                  *)
(***************************************************************************)
EXTENDS Integers, Sequences, SequencesExt

CONSTANTS
  Messages,  \* what users may write: sender, code points, second word, reply
  Edits,     \* what owners may ask for: action, code points of the trigger, response
  Slots,     \* the messages of one behaviour
  NoUser,    \* a message without a reply, a word that names nobody
  NoMessage,
  Name,      \* the name of each user, as pieces of text
  Lower(_)   \* the lower case of each letter

VARIABLES
  stored,    \* the responses by trigger, as users write it in lower case
  heard,     \* the message of each slot
  reaction   \* what came of it

rvars == <<stored, heard, reaction>>

Waiting == [is |-> "waiting", text |-> <<>>]
Silent == [is |-> "silent", text |-> <<>>]
Failed == [is |-> "failed", text |-> <<>>]

\* The first word of a text, in lower case.
Word(points) ==
  LET spaces == {i \in DOMAIN points : points[i] \in (9..13) \union {32}}
      word == SubSeq(points, 1, IF spaces = {} THEN Len(points) ELSE Min(spaces) - 1)
  IN  [i \in DOMAIN word |-> Lower(word[i])]
WordOf ==
  [p \in {m.points : m \in Messages} \union {e.points : e \in Edits} |-> Word(p)]

\* The users a message may be about: a number settles it, a name that is unknown
\* leaves it to the reply, whose author may be unknown as well.
Pointed(m) ==
  IF m.word.kind = "number" THEN {m.word.user}
  ELSE {m.reply, NoUser} \union (IF m.word.kind = "mention" THEN {m.word.user} ELSE {})

\* A response with its placeholders filled in, all at once.
Filled(text, from, about) ==
  FlattenSeq([i \in DOMAIN text |->
    CASE text[i] \in {"{mention}", "{mention1}"} -> Name[from]
      [] text[i] = "{mention2}" -> IF about = NoUser THEN <<>> ELSE Name[about]
      [] OTHER -> <<text[i]>>])

\* What a response comes to: one of which nothing is left is not sent.
Sent(text) == IF text = <<>> THEN Silent ELSE [is |-> "said", text |-> text]

RInit ==
  /\ heard = [k \in Slots |-> NoMessage]
  /\ reaction = [k \in Slots |-> Waiting]

Hear(k, m) ==
  /\ heard[k] = NoMessage
  /\ heard' = [heard EXCEPT ![k] = m]
  /\ UNCHANGED <<stored, reaction>>

React(k) ==
  LET m == heard[k] IN
  /\ m # NoMessage
  /\ reaction[k] = Waiting
  /\ \/ reaction' = [reaction EXCEPT ![k] = Failed]
     \/ /\ WordOf[m.points] \notin DOMAIN stored
        /\ reaction' = [reaction EXCEPT ![k] = Silent]
     \/ /\ WordOf[m.points] \in DOMAIN stored
        /\ \E about \in Pointed(m) :
             reaction' = [reaction EXCEPT ![k] =
               Sent(Filled(stored[WordOf[m.points]], m.sender, about))]
  /\ UNCHANGED <<stored, heard>>

Change(e) ==
  LET w == WordOf[e.points]
      others == DOMAIN stored \ {w}
  IN
  /\ (w \in DOMAIN stored) = (e.action # "add")
  /\ stored' = [v \in IF e.action = "remove" THEN others ELSE others \union {w} |->
                  IF v = w THEN e.response ELSE stored[v]]
  /\ UNCHANGED <<heard, reaction>>

RNext ==
  \/ \E k \in Slots : React(k) \/ \E m \in Messages : Hear(k, m)
  \/ \E e \in Edits : Change(e)

RSpec == RInit /\ [][RNext]_rvars

\* Every message comes to something.
Heeded == \A k \in Slots : heard[k] # NoMessage ~> reaction[k] # Waiting
=============================================================================

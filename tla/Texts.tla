-------------------------------- MODULE Texts --------------------------------
(***************************************************************************)
(* What the services do to texts, as sequences of bytes: the UTF-8 codec   *)
(* and the filter of core/src/utils/helpers.cpp, and how the RP service    *)
(* finds, folds and fills (rp_service.cpp, command_matcher.h,              *)
(* variable_substitutor.h).                                                *)
(***************************************************************************)
EXTENDS Integers, Sequences, SequencesExt

Invalid == -1

\* The length that a lead byte announces and the bits it holds.
Lead(b) ==
  CASE b < 128       -> [len |-> 1, bits |-> b]
    [] b \div 32 = 6  -> [len |-> 2, bits |-> b % 32]
    [] b \div 16 = 14 -> [len |-> 3, bits |-> b % 16]
    [] b \div 8 = 30  -> [len |-> 4, bits |-> b % 8]
    [] OTHER          -> [len |-> 0, bits |-> 0]

IsContinuation(b) == b \div 64 = 2

\* The code point that a lead and the continuation bytes after s[i] stand for.
PointAt(s, i, lead) ==
  LET low(k) == s[i + k] % 64
  IN  CASE lead.len = 1 -> lead.bits
        [] lead.len = 2 -> 64 * lead.bits + low(1)
        [] lead.len = 3 -> 4096 * lead.bits + 64 * low(1) + low(2)
        [] OTHER -> 262144 * lead.bits + 4096 * low(1) + 64 * low(2) + low(3)

\* decodeUtf8Point: the code point at s[i] and where the next one starts.
DecodeUtf8Point(s, i) ==
  LET lead == Lead(s[i])
      last == i + (lead.len - 1)
      bad == {j \in (i + 1)..last : ~IsContinuation(s[j])}
  IN  IF lead.len = 0 THEN [point |-> Invalid, next |-> i + 1]
      ELSE IF last > Len(s) THEN [point |-> Invalid, next |-> Len(s) + 1]
      ELSE IF bad # {} THEN [point |-> Invalid, next |-> Min(bad)]
      ELSE [point |-> PointAt(s, i, lead), next |-> last + 1]

\* Mutant of EncodeUtf8Point: the four-byte form is missing.
EncodeThreeBytes(p) ==
  IF p < 128 THEN <<p>>
  ELSE IF p < 2048 THEN <<192 + (p \div 64), 128 + (p % 64)>>
  ELSE <<224 + ((p \div 4096) % 16), 128 + ((p \div 64) % 64), 128 + (p % 64)>>

\* encodeUtf8Point
EncodeUtf8Point(p) ==
  IF p < 128 THEN <<p>>
  ELSE IF p < 2048 THEN <<192 + (p \div 64), 128 + (p % 64)>>
  ELSE IF p < 65536 THEN <<224 + (p \div 4096), 128 + ((p \div 64) % 64), 128 + (p % 64)>>
  ELSE <<240 + (p \div 262144), 128 + ((p \div 4096) % 64),
         128 + ((p \div 64) % 64), 128 + (p % 64)>>

\* kZalgoRanges and kBreakingRanges.
ZalgoRanges == {<<768, 879>>, <<1155, 1161>>, <<1425, 1479>>, <<1552, 1562>>, <<1611, 1631>>,
  <<1648, 1648>>, <<1750, 1773>>, <<1840, 1866>>, <<2027, 2035>>, <<4957, 4959>>,
  <<6832, 6911>>, <<7616, 7679>>, <<8400, 8432>>, <<65056, 65071>>}
BreakingRanges == {<<8203, 8207>>, <<8232, 8238>>, <<8288, 8292>>, <<8294, 8303>>,
  <<65024, 65039>>, <<65279, 65279>>, <<65529, 65531>>, <<119155, 119162>>,
  <<917504, 917631>>, <<917760, 917999>>}

\* isControlChar: newlines are kept.
IsControlChar(p) == p # 10 /\ (p < 32 \/ p = 127 \/ p \in 128..159)
IsZalgoOrBreaking(p) ==
  IsControlChar(p) \/ \E r \in ZalgoRanges \union BreakingRanges : p \in r[1]..r[2]

\* What a loop over a text puts out: at i it writes out[i] and goes on at next[i].
Scan(out, next) ==
  LET from[i \in 1..(Len(out) + 1)] ==
        IF i > Len(out) THEN <<>> ELSE out[i] \o from[next[i]]
  IN  from[1]

\* sanitizeForAi
Kept(p) == IF p = Invalid \/ IsZalgoOrBreaking(p) THEN <<>> ELSE EncodeUtf8Point(p)
SanitizeForAi(s) ==
  LET at == [i \in DOMAIN s |-> DecodeUtf8Point(s, i)]
  IN  Scan([i \in DOMAIN s |-> Kept(at[i].point)], [i \in DOMAIN s |-> at[i].next])

-----------------------------------------------------------------------------
IsSpace(b) == b = 32 \/ b \in 9..13

\* extractTrigger, and the first part of splitCommand.
FirstWord(s) ==
  LET starts == {i \in 1..Len(s) : ~IsSpace(s[i])}
      ends == {i \in 1..Len(s) : IsSpace(s[i]) /\ i > Min(starts)}
  IN  IF starts = {} THEN <<>>
      ELSE SubSeq(s, Min(starts), IF ends = {} THEN Len(s) ELSE Min(ends) - 1)

Trim(s) ==
  LET kept == {i \in 1..Len(s) : ~IsSpace(s[i])}
  IN  IF kept = {} THEN <<>> ELSE SubSeq(s, Min(kept), Max(kept))

\* Mutant of LowerCase: the letters beyond 0x42F are left out.
LowerCaseHalf(p) == IF p \in 1040..1055 THEN p + 32 ELSE p

\* The fold of one two-byte code point in toLower.
LowerCase(p) ==
  CASE p \in 1024..1039 -> p + 80
    [] p \in 1040..1071 -> p + 32
    [] OTHER            -> p

\* toLower: a two-byte character is written with a lead of 0xD0 or more, which is
\* its own lead for Cyrillic and later letters only; longer ones pass byte by byte.
LowerPair(b, c) ==
  LET p == LowerCase((b % 32) * 64 + (c % 64))
  IN  <<208 + ((p \div 64) % 16), 128 + (p % 64)>>
LowerByte(b) == <<IF b \in 65..90 THEN b + 32 ELSE b>>

ToLower(s) ==
  LET pair(i) == i < Len(s) /\ s[i] \div 32 = 6
  IN  Scan([i \in DOMAIN s |-> IF pair(i) THEN LowerPair(s[i], s[i + 1]) ELSE LowerByte(s[i])],
           [i \in DOMAIN s |-> IF pair(i) THEN i + 2 ELSE i + 1])

NormalizeTrigger(s) == ToLower(Trim(s))

\* isValidTrigger: the limit counts bytes.
IsValidTrigger(s, limit) ==
  s # <<>> /\ Len(s) <= limit /\ \A i \in 1..Len(s) : ~IsSpace(s[i])

-----------------------------------------------------------------------------
\* replaceAll on a text whose pieces are words and placeholders: what has been
\* put in is not searched again by the same call, but is by the next one.
PutIn(text, from, to) ==
  FlattenSeq([i \in DOMAIN text |-> IF text[i] = from THEN to ELSE <<text[i]>>])

\* substituteVariables
SubstituteVariables(text, mention, mention2) ==
  PutIn(PutIn(PutIn(text, "{mention1}", mention), "{mention}", mention),
             "{mention2}", mention2)
=============================================================================

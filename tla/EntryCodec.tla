----------------------------- MODULE EntryCodec -----------------------------
(***************************************************************************)
(* Contract entries on the wire (shared/src/contract.rs): a base58 key and *)
(* segments after it, with what the daemon's probe found.  Text is a       *)
(* sequence of bytes, <<>> where the code has None or "".  A wire entry is *)
(* kept split at its `|`: that no text can hold one is what the percent    *)
(* encoding of titles is for.                                              *)
(***************************************************************************)
EXTENDS Integers, Sequences, SequencesExt

CONSTANT NoHash         \* an entry without a code hash

Space == 32  Percent == 37  Plus == 43  Bar == 124

None == <<>>

-----------------------------------------------------------------------------
(* str::trim, str::to_lowercase (for ASCII) and the order of str.          *)
Trim(text) ==
    LET solid == {i \in DOMAIN text : text[i] # Space}
    IN  IF solid = {} THEN None ELSE SubSeq(text, Min(solid), Max(solid))

Lower(text) == [i \in DOMAIN text |-> IF text[i] \in 65 .. 90 THEN text[i] + 32 ELSE text[i]]

TextBefore(s, t) ==
    \E i \in 1 .. Len(t) :
        /\ i <= Len(s) + 1
        /\ SubSeq(s, 1, i - 1) = SubSeq(t, 1, i - 1)
        /\ i <= Len(s) => s[i] < t[i]

(* UTF-8, as String::from_utf8 has it: how many bytes a character takes    *)
(* that starts with b, and which of them may come second.                  *)
CharWidth(b) ==
    CASE b < 128 -> 1
      [] b \in 194 .. 223 -> 2
      [] b \in 224 .. 239 -> 3
      [] b \in 240 .. 244 -> 4
      [] OTHER -> 0

Seconds(b) ==
    CASE b = 224 -> 160 .. 191
      [] b = 237 -> 128 .. 159
      [] b = 240 -> 144 .. 191
      [] b = 244 -> 128 .. 143
      [] OTHER -> 128 .. 191

CharAt(bytes, i) ==
    /\ i \in DOMAIN bytes /\ CharWidth(bytes[i]) > 0
    /\ \A j \in 1 .. CharWidth(bytes[i]) - 1 :
          /\ i + j \in DOMAIN bytes
          /\ bytes[i + j] \in IF j = 1 THEN Seconds(bytes[i]) ELSE 128 .. 191

(* Every byte is of some character.                                        *)
IsUtf8(bytes) ==
    \A i \in DOMAIN bytes : \E j \in 0 .. 3 : CharAt(bytes, i - j) /\ j < CharWidth(bytes[i - j])

(* String::from_utf8(..).unwrap_or_default() *)
FromUtf8(bytes) == IF IsUtf8(bytes) THEN bytes ELSE None

-----------------------------------------------------------------------------
Unreserved == (48 .. 57) \cup (65 .. 90) \cup (97 .. 122) \cup {45, 46, 95, 126}

HexDigit(n) == IF n < 10 THEN 48 + n ELSE 55 + n

(* hex_val, -1 where it is None. *)
HexValue(b) ==
    CASE b \in 48 .. 57 -> b - 48
      [] b \in 97 .. 102 -> b - 87
      [] b \in 65 .. 70 -> b - 55
      [] OTHER -> -1

PctByte(b) ==
    IF b \in Unreserved THEN <<b>>
    ELSE IF b = Space THEN <<Plus>>
    ELSE <<Percent, HexDigit(b \div 16), HexDigit(b % 16)>>

PctEncode(text) == FlattenSeq([i \in DOMAIN text |-> PctByte(text[i])])

(* Mutated: an escape at the end of the title is taken for plain text. *)
AtEscapeShort(s, i) ==
    /\ s[i] = Percent /\ i + 2 < Len(s)
    /\ HexValue(s[i + 1]) >= 0 /\ HexValue(s[i + 2]) >= 0

AtEscape(s, i) ==
    /\ s[i] = Percent /\ i + 2 <= Len(s)
    /\ HexValue(s[i + 1]) >= 0 /\ HexValue(s[i + 2]) >= 0

(* One byte of pct_decode's loop; `next` is the first byte not yet read.   *)
PctStep(s, i, d) ==
    IF i < d.next THEN d
    ELSE IF AtEscape(s, i)
    THEN [out |-> Append(d.out, 16 * HexValue(s[i + 1]) + HexValue(s[i + 2])), next |-> i + 3]
    ELSE [out |-> Append(d.out, IF s[i] = Plus THEN Space ELSE s[i]), next |-> i + 1]

PctDecode(s) ==
    LET upTo[n \in 0 .. Len(s)] ==
            IF n = 0 THEN [out |-> <<>>, next |-> 1] ELSE PctStep(s, n, upTo[n - 1])
    IN  FromUtf8(upTo[Len(s)].out)

-----------------------------------------------------------------------------
Segment(tag, text, hash) == [tag |-> tag, text |-> text, hash |-> hash]

(* encode_contract_entry: a title travels only with the webapp verdict.    *)
Encode(r) ==
    LET code == IF r.hash = NoHash THEN <<>> ELSE <<Segment("c", None, r.hash)>>
        name == IF Trim(r.title) = None THEN <<>>
                ELSE <<Segment("t", PctEncode(Trim(r.title)), NoHash)>>
        kind == CASE r.web = "yes" -> <<Segment("w", None, NoHash)>> \o name
                  [] r.web = "no" -> <<Segment("d", None, NoHash)>>
                  [] OTHER -> <<>>
    IN  [key |-> r.key, segments |-> code \o kind]

(* One segment: it overwrites what an earlier one of its kind said; one    *)
(* that is unknown or has no text says nothing.                            *)
ReadSegment(r, s) ==
    CASE s.tag = "w" -> [r EXCEPT !.web = "yes"]
      [] s.tag = "d" -> [r EXCEPT !.web = "no"]
      [] s.tag = "t" /\ PctDecode(s.text) # None -> [r EXCEPT !.title = PctDecode(s.text)]
      [] s.tag = "c" -> [r EXCEPT !.hash = s.hash]
      [] OTHER -> r

(* decode_contract_entry. *)
Decode(raw) ==
    LET upTo[n \in 0 .. Len(raw.segments)] ==
            IF n = 0 THEN [key |-> raw.key, web |-> "none", title |-> None, hash |-> NoHash]
            ELSE ReadSegment(upTo[n - 1], raw.segments[n])
    IN  upTo[Len(raw.segments)]

(* What is left of a report by a trip over the wire. *)
Delivered(r) == [r EXCEPT !.title = IF r.web = "yes" THEN Trim(r.title) ELSE None]
=============================================================================

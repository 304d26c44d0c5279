------------------------------ MODULE Redaction ------------------------------
(***************************************************************************)
(* What leaves the LAN of a line of a switch's configuration               *)
(* (discovery/device_config.py, _redact_config and _backstop_line).  All   *)
(* the vendor patterns look for secrets in the same text; what they claim  *)
(* is merged and replaced by tokens, from the right.  Then a sweep goes    *)
(* over what is left of the line, and masks the first credential-shaped    *)
(* word after each keyword of the secret family.                           *)
(*                                                                         *)
(* A line is a sequence of words of the kinds the code tells apart; `of'   *)
(* are the places of the printed line a word stands for.                   *)
(***************************************************************************)
EXTENDS Naturals, SequencesExt

CONSTANTS
    LineLength,   \* bound: words of a line
    MaxSpans      \* bound: spans the patterns claim

ASSUME RedactionBounds == LineLength \in Nat /\ MaxSpans \in Nat

\* A keyword, a credential, an address, a single-case word long enough to look like a
\* credential, one of the words of AAA grammar, and anything else.
WordKinds == {"keyword", "blob", "quad", "longword", "grammar", "text"}
Places == 1..LineLength
Spans == {s \in Places \X Places : s[1] =< s[2]}

VARIABLES
    printed,   \* the line as the switch printed it
    claims,    \* spans of it the patterns matched
    words,     \* the line so far
    spans,     \* claimed spans not yet merged
    merged,    \* merged spans not yet replaced
    pos        \* where the sweep goes on; 0 before it starts

redactVars == <<printed, claims, words, spans, merged, pos>>

BySpan(s, t) == s[1] < t[1] \/ (s[1] = t[1] /\ s[2] < t[2])
\* Mutant of Further: the later span decides where the merged one ends.
LaterEnds(m, s) ==
    IF m # <<>> /\ s[1] =< Last(m)[2] THEN Append(Front(m), <<Last(m)[1], s[2]>>) ELSE Append(m, s)
Further(m, s) ==
    IF m # <<>> /\ s[1] =< Last(m)[2]
    THEN Append(Front(m), <<Last(m)[1], Max({s[2], Last(m)[2]})>>)
    ELSE Append(m, s)

RedactInit ==
    /\ printed \in [Places -> WordKinds]
    /\ claims \in UNION {kSubset(k, Spans) : k \in 0..MaxSpans}
    /\ words = [i \in Places |-> [kind |-> printed[i], of |-> {i}]]
    /\ spans = claims /\ merged = <<>> /\ pos = 0

Masked(i, j, kind) ==
    SubSeq(words, 1, i - 1) \o <<[kind |-> kind, of |-> UNION {words[k].of : k \in i..j}]>>
        \o SubSeq(words, j + 1, Len(words))

\* In their order, each into the one before where they overlap.
MergeSpan ==
    /\ \E s \in spans :
          /\ \A t \in spans \ {s} : BySpan(s, t)
          /\ merged' = Further(merged, s)
          /\ spans' = spans \ {s}
    /\ UNCHANGED <<printed, claims, words, pos>>

\* From the right, so that the places to its left still mean what they meant.
MaskSpan ==
    /\ pos = 0 /\ spans = {} /\ merged # <<>>
    /\ words' = Masked(Last(merged)[1], Last(merged)[2], "token")
    /\ merged' = Front(merged)
    /\ UNCHANGED <<printed, claims, spans, pos>>
StartSweep ==
    /\ pos = 0 /\ spans = {} /\ merged = <<>>
    /\ pos' = 1
    /\ UNCHANGED <<printed, claims, words, spans, merged>>

\* Shaped like a credential, and stepped over all the same: the grammar of AAA, and to
\* the right of a token an address or a plain word.
Shaped(i) == words[i].kind \in {"blob", "quad", "longword", "grammar"}
SteppedOver(i) ==
    \/ words[i].kind = "grammar"
    \/ words[i].kind \in {"quad", "longword"} /\ \E k \in 1..(i - 1) : words[k].kind = "token"

Keywords == {k \in pos..Len(words) : words[k].kind = "keyword"}
Tails(k) == {i \in (k + 1)..Len(words) : Shaped(i) /\ ~SteppedOver(i)}

\* The next keyword, and the first tail after it; none of either ends the sweep.
Sweep ==
    /\ pos > 0 /\ Keywords # {} /\ Tails(Min(Keywords)) # {}
    /\ LET i == Min(Tails(Min(Keywords))) IN
          /\ words' = Masked(i, i, "suspect")
          /\ pos' = i + 1
    /\ UNCHANGED <<printed, claims, spans, merged>>

RedactNext == MergeSpan \/ MaskSpan \/ StartSweep \/ Sweep
RedactSpec == RedactInit /\ [][RedactNext]_redactVars
-----------------------------------------------------------------------------
RedactTypeOK ==
    /\ printed \in [Places -> WordKinds] /\ claims \subseteq Spans
    /\ \A i \in DOMAIN words :
          /\ words[i].kind \in WordKinds \cup {"token", "suspect"}
          /\ words[i].of # {} /\ words[i].of \subseteq Places
    /\ spans \subseteq claims /\ \A i \in DOMAIN merged : merged[i] \in Spans
    /\ pos \in 0..(LineLength + 1)

Hidden == UNION {words[i].of : i \in {k \in DOMAIN words : words[k].kind \in {"token", "suspect"}}}
Swept == pos > 0 /\ (Keywords = {} \/ Tails(Min(Keywords)) = {})

\* Nothing a pattern claimed leaves, no keyword keeps the credential that follows it,
\* and the rest of the line is still there, once and in its order.
RedactionExact ==
    /\ RedactTypeOK
    /\ Swept =>
       /\ \A s \in claims : s[1]..s[2] \subseteq Hidden
       /\ \A k \in DOMAIN words :
             words[k].kind = "keyword" =>
                \A i \in Tails(k) : \E h \in (k + 1)..i : words[h].kind = "suspect"
       /\ \A i \in DOMAIN words : words[i].kind = "suspect" =>
             \E k \in 1..(i - 1) : words[k].kind = "keyword"
       /\ UNION {words[i].of : i \in DOMAIN words} = Places
       /\ \A i, j \in DOMAIN words : i < j => \A p \in words[i].of, q \in words[j].of : p < q
=============================================================================

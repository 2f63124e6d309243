----------------------------- MODULE TextFilter -----------------------------
(***************************************************************************)
(* ContentFilter::check with the empty blocklist that the node gives it:   *)
(* a text with many capitals needs review, one that is mostly a single     *)
(* repeated character is blocked, in this order. No review follows: the    *)
(* callers log the result. The text is typed one character at a time.      *)
(***************************************************************************)
EXTENDS Integers, Sequences, FiniteSets

CONSTANTS
    Upper, Lower, Other, \* characters
    ByteWidth,           \* ByteWidth[ch]: length in UTF-8
    MinText,             \* 20 in the code
    MaxText              \* bound: length of a text

VARIABLE text

Characters == Upper \cup Lower \cup Other

\* str::len counts bytes.
ByteLen(t) ==
    LET F[i \in 0 .. Len(t)] == IF i = 0 THEN 0 ELSE F[i - 1] + ByteWidth[t[i]]
    IN  F[Len(t)]

\* More than eight in ten letters are capitals.
ExcessiveCaps(t) ==
    LET letters == {i \in DOMAIN t : t[i] \in Upper \cup Lower}
        capitals == {i \in DOMAIN t : t[i] \in Upper}
    IN  /\ ByteLen(t) >= MinText
        /\ letters # {}
        /\ 10 * Cardinality(capitals) > 8 * Cardinality(letters)

\* Mutant: a run that ends the text is compared only when it ends.
MutMaxRun(t) ==
    LET F[i \in 1 .. Len(t)] ==
          IF i = 1 THEN [run |-> 1, max |-> 1]
          ELSE IF t[i] = t[i - 1] THEN [run |-> F[i - 1].run + 1, max |-> F[i - 1].max]
          ELSE [run |-> 1, max |-> IF F[i - 1].run > F[i - 1].max THEN F[i - 1].run
                                   ELSE F[i - 1].max]
    IN  IF t = <<>> THEN 1 ELSE F[Len(t)].max

\* The scan over pairs of neighbours.
MaxRun(t) ==
    LET F[i \in 1 .. Len(t)] ==
          IF i = 1 THEN [run |-> 1, max |-> 1]
          ELSE LET run == IF t[i] = t[i - 1] THEN F[i - 1].run + 1 ELSE 1
               IN  [run |-> run, max |-> IF run > F[i - 1].max THEN run ELSE F[i - 1].max]
    IN  IF t = <<>> THEN 1 ELSE F[Len(t)].max

RepeatedChars(t) == Len(t) >= MinText /\ MaxRun(t) > Len(t) \div 2

Check(t) ==
    CASE ExcessiveCaps(t) -> "review"
      [] ~ExcessiveCaps(t) /\ RepeatedChars(t) -> "block"
      [] OTHER -> "allow"

\* PostService::create and the ingest loop refuse what is blocked. What needs review
\* is logged and let through.
Admitted(t) == Check(t) # "block"

TextInit == text = <<>>

TextNext ==
    /\ Len(text) < MaxText
    /\ \E ch \in Characters : text' = Append(text, ch)

----------------------------------------------------------------------------
\* The scan of check_repeated_chars finds every run, the last one included, and
\* nothing else keeps a text out: a text is refused exactly when it is not short
\* and more than half of it is one character repeated, except that a text in
\* capitals gets through, repeated or not, for the look at capitals comes first
\* and what it finds is only logged.
RunsAreStopped ==
    LET long == \E i, j \in DOMAIN text :
                  /\ i <= j /\ \A k \in i .. j : text[k] = text[i]
                  /\ j - i + 1 > Len(text) \div 2
    IN  Admitted(text) <=> ((Len(text) >= MinText /\ long) => ExcessiveCaps(text))
=============================================================================

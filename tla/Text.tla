-------------------------------- MODULE Text --------------------------------
(***************************************************************************)
(* Text as a sequence of tokens, and the searches of                       *)
(* src/src/utils/utils.c in it.  A token is a piece of text that the code  *)
(* never divides: a separator, a word, or one of the long pieces below.    *)
(* The length of any other token is that of its spelling.                  *)
(***************************************************************************)
EXTENDS Integers, SequencesExt, FiniteSetsExt

\* "x63": sixty-three letters; "x2K": 2,048; "x4K": 4,096
Width(w) == CASE w = "x63" -> 63 [] w = "x2K" -> 2048 [] w = "x4K" -> 4096 [] OTHER -> Len(w)
TextLen(s) == FoldLeft(LAMBDA n, w : n + Width(w), 0, s)

\* Every token has a length.
HasWidths(s) == \A k \in DOMAIN s : Width(s[k]) \in Nat

\* A text that a buffer for n characters can take
Fits(s, n) == TextLen(s) \in 0 .. n

\* strchr: where c first stands in s, or 0
IndexOf(s, c) == SelectInSeq(s, LAMBDA w : w = c)

\* fill_string_char: what stands before the first c (all of s if there is none, as
\* the callers then search for the end), and what stands behind it
Before(s, c) == IF IndexOf(s, c) = 0 THEN s ELSE SubSeq(s, 1, IndexOf(s, c) - 1)
After(s, c) == SubSeq(s, Len(Before(s, c)) + 2, Len(s))

\* strstr, of fill_string_str: where the tokens of t first stand in s, or 0
Find(s, t) ==
    LET at == {k \in 1 .. Len(s) - Len(t) + 1 : SubSeq(s, k, k + Len(t) - 1) = t}
    IN  IF at = {} THEN 0 ELSE Min(at)

\* str_skip_spaces
SkipSpaces(s) == LET k == SelectInSeq(s, LAMBDA w : w # " ")
                 IN  IF k = 0 THEN <<>> ELSE SubSeq(s, k, Len(s))

\* A search that fails, or whose result does not fit
NotFound == <<"not found">>
=============================================================================

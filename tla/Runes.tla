------------------------------- MODULE Runes --------------------------------
(***************************************************************************)
(* UTF-8 as re2/util/rune.cc writes and reads it.                          *)
(***************************************************************************)
EXTENDS Integers, Sequences

Tx == 128          \* begins a continuation byte
T2 == 192          \* begins a sequence of two, three, four bytes
T3 == 224
T4 == 240
T5 == 248          \* begins nothing
Rune1 == 127       \* the last rune of one, two, three bytes
Rune2 == 2047
Rune3 == 65535
Runemax == 1114111
Runeerror == 65533

Tail6(c, k) == Tx + ((c \div (64 ^ k)) % 64)

\* runetochar: the bytes of a rune; what is out of range becomes an error rune.
runetochar(r) ==
  LET c == IF r > Runemax THEN Runeerror ELSE r
  IN  CASE c <= Rune1 -> <<c>>
        [] c \in Rune1 + 1 .. Rune2 -> <<T2 + (c \div 64), Tail6(c, 0)>>
        [] c \in Rune2 + 1 .. Rune3 -> <<T3 + (c \div 4096), Tail6(c, 1), Tail6(c, 0)>>
        [] c > Rune3 -> <<T4 + (c \div 262144), Tail6(c, 2), Tail6(c, 1), Tail6(c, 0)>>

IsTail(s, k) == k <= Len(s) /\ s[k] \in Tx .. T2 - 1
Bits(s, k) == s[k] % 64

Decoded(rune, n) == [rune |-> rune, n |-> n]

\* A sequence may not be longer than the rune needs.
Needing(least, l, n) == IF l <= least THEN Decoded(Runeerror, 1) ELSE Decoded(l, n)

\* chartorune: the first rune of s and the bytes it takes.  It does not look
\* at what runetochar would refuse: values beyond Runemax come out as they are.
chartorune(s) ==
  LET c == s[1] IN
  IF c < Tx THEN Decoded(c, 1)
  ELSE IF c \in T2 .. T3 - 1 /\ IsTail(s, 2)
    THEN Needing(Rune1, (c % 32) * 64 + Bits(s, 2), 2)
  ELSE IF c \in T3 .. T4 - 1 /\ IsTail(s, 2) /\ IsTail(s, 3)
    THEN Needing(Rune2, (c % 16) * 4096 + Bits(s, 2) * 64 + Bits(s, 3), 3)
  ELSE IF c \in T4 .. T5 - 1 /\ IsTail(s, 2) /\ IsTail(s, 3) /\ IsTail(s, 4)
    THEN Needing(Rune3, (c % 8) * 262144 + Bits(s, 2) * 4096 + Bits(s, 3) * 64 + Bits(s, 4), 4)
  ELSE Decoded(Runeerror, 1)

\* fullrune: is the first rune of s all there, as far as its first byte tells?
fullrune(s) ==
  /\ s # << >>
  /\ \/ s[1] < Tx
     \/ s[1] < T3 /\ Len(s) > 1
     \/ s[1] < T4 /\ Len(s) > 2
     \/ Len(s) > 3
=============================================================================

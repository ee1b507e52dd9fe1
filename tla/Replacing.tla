----------------------------- MODULE Replacing ------------------------------
(***************************************************************************)
(* RE2::Replace, GlobalReplace and Extract (re2/re2/re2.cc).  Their calls  *)
(* of RE2::Match find what module Answers says, which RE2Match is proved to   *)
(* do.                                                                     *)
(***************************************************************************)
EXTENDS Answers, Runes

(***************************************************************************)
(* Rewrite strings (re2/re2/re2.cc): what \0 .. \9 in them stand for, which*)
(* of them are sound, and how many submatches they need.                   *)
(***************************************************************************)
Backslash == 92
IsDigit(c) == c \in 48 .. 57

\* A token is a byte, or \ with what follows it, if anything does.  One begins
\* everywhere but behind a backslash that begins one.
TokenStarts(s) ==
  LET begins[k \in 0 .. Len(s)] ==
        k > 0 /\ (k = 1 \/ ~(begins[k - 1] /\ s[k - 1] = Backslash))
  IN  {k \in 1 .. Len(s) : begins[k]}
TokenAt(s, k) == SubSeq(s, k, IF s[k] = Backslash /\ k < Len(s) THEN k + 1 ELSE k)
Tokens(s) == {TokenAt(s, k) : k \in TokenStarts(s)}

IsPlain(token) == token[1] # Backslash
IsEscaped(token) == token = <<Backslash, Backslash>>
IsGroup(token) == token[1] = Backslash /\ Len(token) = 2 /\ IsDigit(token[2])
Group(token) == token[2] - 48

\* The largest group a string names, and none if that is 0 or there is none.
MaxSubmatch(rewrite) ==
  LET groups == {0} \cup {Group(t) : t \in {u \in Tokens(rewrite) : IsGroup(u)}}
  IN  CHOOSE n \in groups : \A m \in groups : m <= n

\* A rewrite string that Rewrite understands, for a regexp with ncap groups.
CheckRewriteString(rewrite, ncap) ==
  /\ \A t \in Tokens(rewrite) : IsPlain(t) \/ IsEscaped(t) \/ IsGroup(t)
  /\ MaxSubmatch(rewrite) <= ncap

Understood(token, vec) ==
  IsPlain(token) \/ IsEscaped(token) \/ (IsGroup(token) /\ Group(token) < Len(vec))
Substituted(token, vec) ==
  IF IsGroup(token) THEN vec[Group(token) + 1]
  ELSE IF IsEscaped(token) THEN <<Backslash>> ELSE token

\* Some strings, one behind the other.
Joined(pieces) ==
  LET joined[k \in 0 .. Len(pieces)] == IF k = 0 THEN << >> ELSE joined[k - 1] \o pieces[k]
  IN  joined[Len(pieces)]

\* Rewrite: out is added to up to a token that is not understood.
Rewrite(out, rewrite, vec) ==
  LET starts == TokenStarts(rewrite)
      good   == {k \in starts : \A j \in starts : j <= k => Understood(TokenAt(rewrite, j), vec)}
      added  == [k \in 1 .. Len(rewrite) |->
                   IF k \in good THEN Substituted(TokenAt(rewrite, k), vec) ELSE << >>]
  IN  [ok |-> good = starts, out |-> out \o Joined(added)]

-----------------------------------------------------------------------------
CONSTANTS Objects,    \* RE2 objects: regexp, captures, utf8, longest
          Strings,    \* what str and text are at first
          Rewrites,   \* the rewrite strings
          VecSize     \* kVecSize

\* The beginnings of characters, where bytes that do not belong to one count
\* as characters.
CharSize(x, text, q) ==
  LET r == chartorune(SubSeq(text, q + 1, Len(text)))
  IN  IF x.utf8 /\ r.rune <= Runemax THEN r.n ELSE 1
CharStarts(x, text) ==
  LET start[n \in 0 .. Len(text)] ==
        IF n = 0 THEN 0
        ELSE start[n - 1] + IF start[n - 1] < Len(text) THEN CharSize(x, text, start[n - 1]) ELSE 0
  IN  {start[n] : n \in 0 .. Len(text)}

ASSUME ReplacingAssumption ==
  /\ VecSize \in Nat /\ VecSize >= 10     \* as many as a rewrite string can ask for
  /\ \A x \in Objects : x.captures \in 0 .. NCaps - 1 /\ x.utf8 \in BOOLEAN
  /\ \A t \in Strings \cup Rewrites : t \in Seq(Nat)

\* A regexp matches within the text, and so does each of its groups.
ASSUME GroupsAssumption ==
  \A x \in Objects, t \in Strings : \A q \in 0 .. Len(t) :
    LET ways == WaysOf(x.regexp, t, Len(t), q) IN
    /\ ways \in Seq([p : q .. Len(t), caps : AnyCaps])
    /\ \A n \in DOMAIN ways, k \in 1 .. NCaps - 1 :
         LET b == ways[n].caps[2 * k]
             e == ways[n].caps[2 * k + 1]
         IN  (b = -1 /\ e = -1) \/ (0 <= b /\ b <= e /\ e <= Len(t))

VARIABLES
  object, str, rewrite, \* the arguments; str is changed in the end
  doing,                \* "call", "global" or "done"
  fun,                  \* the function called
  p, lastend,           \* GlobalReplace: bytes done with, and the last match's end
  out, count,           \* what it has written, and how often it has replaced
  result,               \* what the function returns
  text0, replaced       \* history: what str was, and the matches replaced

replacevars ==
  <<object, str, rewrite, doing, fun, p, lastend, out, count, result, text0, replaced>>

None == -1            \* a NULL pointer into str

ReplaceInit ==
  /\ object \in Objects /\ str \in Strings /\ rewrite \in Rewrites
  /\ doing = "call" /\ fun = "none" /\ p = 0 /\ lastend = None
  /\ out = << >> /\ count = 0 /\ result = 0
  /\ text0 = str /\ replaced = << >>

-----------------------------------------------------------------------------
nvec == 1 + MaxSubmatch(rewrite)
EnoughGroups == nvec <= 1 + object.captures /\ nvec <= VecSize

\* Match, unanchored, from position q on; the submatches it fills in.
Search(text, q, anchored) ==
  [text |-> text, b |-> q, e |-> Len(text), anchored |-> anchored,
   kind |-> IF object.longest THEN "longest" ELSE "first"]
Match(q) == Answer(object.regexp, Search(str, q, FALSE))
Slice(text, b, e) == SubSeq(text, b + 1, e)
Vec(text, m) == [k \in 1 .. nvec |-> Slice(text, m[2 * k - 2], m[2 * k - 1])]
Rewritten(to, m) == Rewrite(to, rewrite, Vec(str, m))

Return(answer) == result' = answer /\ doing' = "done"
Unchanging(name) ==
  /\ doing = "call" /\ fun' = name
  /\ UNCHANGED <<object, rewrite, p, lastend, count, text0, replaced>>

\* Every function first refuses a rewrite string that names too many groups.
Refuse ==
  /\ Unchanging("refused") /\ ~EnoughGroups
  /\ Return(0) /\ UNCHANGED <<str, out>>

Replace ==
  /\ Unchanging("replace") /\ EnoughGroups
  /\ LET m == Match(0)
         s == Rewritten(<< >>, m)
     IN  IF m = NoAnswer THEN Return(0) /\ UNCHANGED str
         ELSE IF ~s.ok THEN Return(0) /\ UNCHANGED str
         ELSE Return(1) /\ str' = Slice(str, 0, m[0]) \o s.out \o Slice(str, m[1], Len(str))
  /\ UNCHANGED out

Extract ==
  /\ Unchanging("extract") /\ EnoughGroups
  /\ LET m == Match(0)
         s == Rewritten(<< >>, m)
     IN  IF m = NoAnswer THEN Return(0) /\ UNCHANGED out
         ELSE Return(IF s.ok THEN 1 ELSE 0) /\ out' = s.out
  /\ UNCHANGED str

-----------------------------------------------------------------------------
(***************************************************************************)
(* GlobalReplace.                                                          *)
(***************************************************************************)
GlobalReplace ==
  /\ Unchanging("global") /\ EnoughGroups
  /\ doing' = "global" /\ UNCHANGED <<str, out, result>>

InLoop == doing = "global" /\ p <= Len(str) /\ Match(p) # NoAnswer
Rest == Slice(str, p, Len(str))

\* Mutant of Advance: a byte, whatever the encoding.
AdvanceOneByte == 1

\* How far to go on behind an empty match: a character, if there is one, or
\* a byte.
Advance ==
  LET r == chartorune(Rest) IN
  IF ~object.utf8 THEN 1
  ELSE IF ~fullrune(Rest) THEN 1
  ELSE IF r.rune > Runemax THEN 1 ELSE r.n

\* An empty match where the last match ended does not count.
EmptyAgain(m) == m[0] = m[1] /\ m[0] = lastend

SkipAhead ==
  /\ InLoop
  /\ EmptyAgain(Match(p))
  /\ out' = out \o Slice(str, p, IF p < Len(str) THEN p + Advance ELSE p)
  /\ p' = p + IF p < Len(str) THEN Advance ELSE 1
  /\ UNCHANGED <<object, str, rewrite, doing, fun, lastend, count, result, text0, replaced>>

\* What Rewrite returns is not looked at.
ReplaceOne ==
  /\ InLoop
  /\ ~EmptyAgain(Match(p))
  /\ LET m == Match(p) IN
       /\ out' = Rewritten(out \o Slice(str, p, m[0]), m).out
       /\ p' = m[1] /\ lastend' = m[1] /\ count' = count + 1
       /\ replaced' = Append(replaced, m)
  /\ UNCHANGED <<object, str, rewrite, doing, fun, result, text0>>

Finish ==
  /\ doing = "global" /\ ~InLoop
  /\ str' = IF count = 0 THEN str ELSE out \o Rest
  /\ Return(count)
  /\ UNCHANGED <<object, rewrite, fun, p, lastend, out, count, text0, replaced>>

ReplaceNext ==
  Refuse \/ Replace \/ Extract \/ GlobalReplace \/ SkipAhead \/ ReplaceOne \/ Finish

ReplaceSpec == ReplaceInit /\ [][ReplaceNext]_replacevars

-----------------------------------------------------------------------------
(***************************************************************************)
(* Properties.                                                             *)
(***************************************************************************)
\* A match that begins just there.
MatchAt(text, q) == Answer(object.regexp, Search(text, q, TRUE))

\* Where the k-th match ends, and the positions between it and the next one.
EndOf(matches, k) == IF k = 0 THEN 0 ELSE matches[k][1]
Gap(text, matches, k) ==
  EndOf(matches, k) .. (IF k = Len(matches) THEN Len(text) ELSE matches[k + 1][0] - 1)

\* What is passed over behind the k-th match: an empty match there, and the
\* character that follows.
PassedOver(text, matches, k) ==
  LET q == EndOf(matches, k)
      m == MatchAt(text, q)
  IN  IF k = 0 \/ m = NoAnswer THEN {}
      ELSE IF m[1] # q THEN {}
      ELSE q .. IF q < Len(text) THEN q + CharSize(object, text, q) - 1 ELSE q

\* A regexp that takes no character of this text apart, as one with \B or \C
\* may: a match that begins with a character ends with one, and if there is a
\* match within a character there is also one where that begins.
KeepsCharacters(x, text) ==
  LET starts == CharStarts(x, text) IN
  \A q \in 0 .. Len(text) :
    LET ways == WaysOf(x.regexp, text, Len(text), q) IN
    /\ q \in starts => \A n \in DOMAIN ways : ways[n].p \in starts
    /\ q \notin starts /\ ways # << >> =>
         \E b \in starts : /\ b < q /\ \A k \in b + 1 .. q : k \notin starts
                           /\ WaysOf(x.regexp, text, Len(text), b) # << >>

\* The matches are successive: each begins at or behind the end of the one
\* before and not in what was passed over, nothing else between two of them
\* begins a match, and no character is taken apart if the regexp takes none.
Successive(text, matches) ==
  LET starts == CharStarts(object, text) IN
  /\ \A k \in DOMAIN matches :
       /\ matches[k] = MatchAt(text, matches[k][0]) /\ matches[k] # NoAnswer
       /\ EndOf(matches, k - 1) <= matches[k][0]
       /\ matches[k][0] \notin PassedOver(text, matches, k - 1)
       /\ KeepsCharacters(object, text) => matches[k][0] \in starts /\ matches[k][1] \in starts
  /\ \A k \in 0 .. Len(matches) : \A q \in Gap(text, matches, k) \ PassedOver(text, matches, k) :
       MatchAt(text, q) = NoAnswer

\* text with each of the matches rewritten and everything else as it was, as
\* far as the last match and then all of it.
WovenTo(text, matches) ==
  Joined([k \in 1 .. Len(matches) |->
            Slice(text, EndOf(matches, k - 1), matches[k][0])
              \o Rewrite(<< >>, rewrite, Vec(text, matches[k])).out])
Woven(text, matches) ==
  WovenTo(text, matches) \o Slice(text, EndOf(matches, Len(matches)), Len(text))

\* GlobalReplace replaces successive matches and nothing else, Replace the
\* first of them, which Extract writes, and with a rewrite string that
\* CheckRewriteString accepts they succeed whenever there is a match
\* (re2.cc:405-515, 945-1039).
ReplacedInTurn ==
  doing = "done" =>
    LET first   == Answer(object.regexp, Search(text0, 0, FALSE))
        checked == CheckRewriteString(rewrite, object.captures)
    IN  /\ fun = "global" => /\ Successive(text0, replaced) /\ result = Len(replaced)
                             /\ str = Woven(text0, replaced)
        /\ fun = "replace" /\ result = 1 => first # NoAnswer /\ str = Woven(text0, <<first>>)
        /\ fun = "extract" /\ result = 1 =>
             /\ first # NoAnswer /\ str = text0
             /\ out = Rewrite(<< >>, rewrite, Vec(text0, first)).out
        /\ fun = "refused" => ~checked
        /\ checked => (result > 0 <=> first # NoAnswer)
        /\ result = 0 => str = text0
=============================================================================

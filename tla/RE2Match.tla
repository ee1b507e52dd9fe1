------------------------------ MODULE RE2Match ------------------------------
(***************************************************************************)
(* What an RE2 object of re2/re2/re2.cc does: RE2::PossibleMatchRange, the *)
(* strings between which every string lies that the object matches whole,  *)
(* and RE2::Match, one search.  Match strips a required prefix, lets the   *)
(* DFAs say whether and where there is a match, and asks one of the other  *)
(* engines for the submatches, within the place found or, if a DFA gave up *)
(* or was passed over, in the whole text.                                  *)
(*                                                                         *)
(* The engines stand here as what their own models show them to do: they   *)
(* answer as module Answers says, and a DFA may give up at any time.       *)
(***************************************************************************)
EXTENDS Programs, Answers

CONSTANTS RE2s,                  \* the RE2 objects
          RE2Calls,              \* the calls of Match
          ProgramRange(_, _),    \* Prog::PossibleMatchRange, which DFAStates has
          LeastBehind(_),    \* and the least string after all with a prefix
          OnePassTextMax,        \* 4096: up to here one-pass is good enough
          TinyTextMax,           \* 8: up to here it even outruns the DFA
          MaxOnePassCapture,     \* kMaxOnePassCapture, the whole match included
          MaxBitStateBitmapSize, \* kMaxBitStateBitmapSize
          MaxBitStateInsts       \* 512: larger programs get no list_heads_

AnchorKind == {"UNANCHORED", "ANCHOR_START", "ANCHOR_BOTH"}

ASSUME RE2sAssumption ==
  \A x \in RE2s : /\ x.prefix.bytes \in Seq(Byte) /\ x.longest \in BOOLEAN
                  /\ x.anchorStart \in BOOLEAN /\ x.anchorEnd \in BOOLEAN
                  /\ x.captures \in Nat /\ x.captures < NCaps

ASSUME RE2CallsAssumption ==
  \A c \in RE2Calls :
    /\ c.text \in Seq(Byte) /\ c.startpos \in Nat /\ c.endpos \in Nat
    /\ c.anchor \in AnchorKind /\ c.nsubmatch \in Nat

\* Is the required prefix of x at the beginning of text?
Same(x, c, b) == IF x.prefix.fold THEN ToLower(c) = b ELSE c = b
PrefixAt(x, text) == \A k \in DOMAIN x.prefix.bytes : Same(x, text[k], x.prefix.bytes[k])

(***************************************************************************)
(* What Match takes for granted of the ways in which the regexp of an      *)
(* object x and its suffix, the regexp without its prefix, match in        *)
(* text[1 .. e] from q on.                                                 *)
(***************************************************************************)
\* Groups that the regexp does not have are not set.
WaysTyped(x, re, text, e, q) ==
  LET ways == WaysOf(re, text, e, q) IN
  /\ ways \in Seq([p : q .. e, caps : AnyCaps])
  /\ \A n \in DOMAIN ways, k \in 2 * (1 + x.captures) .. 2 * NCaps - 1 : ways[n].caps[k] = -1

\* A way takes no notice of the text behind its end, except for the
\* empty-width conditions, which see all of it.
FirstThatEnds(ways, r) ==
  LET there == {n \in DOMAIN ways : ways[n].p = r}
  IN  IF there = {} THEN NoAnswer ELSE ways[Least(there)].caps
WaysCut(x, text, e, q) ==
  \A r \in q .. e : FirstThatEnds(WaysOf(x.suffix, text, e, q), r)
                    = FirstThatEnds(WaysOf(x.suffix, text, r, q), r)

\* The prefix is what the regexp begins with, at the beginning of the text.
WaysPrefixed(x, text, e, q) ==
  LET n == Len(x.prefix.bytes) IN
  WaysOf(x.regexp, text, e, q) =
    IF n = 0 THEN WaysOf(x.suffix, text, e, q)
    ELSE IF q = 0 /\ n <= e /\ PrefixAt(x, text) THEN WaysOf(x.suffix, text, e, n)
    ELSE << >>

\* The anchors are those of the text.
WaysAnchored(x, text, e, q) ==
  LET ways == WaysOf(x.suffix, text, e, q) IN
  /\ x.anchorStart /\ q > 0 => ways = << >>
  /\ x.anchorEnd => \A n \in DOMAIN ways : ways[n].p = Len(text)

ASSUME WaysAssumption ==
  \A x \in RE2s, text \in {c.text : c \in RE2Calls} :
    \A e \in 0 .. Len(text) : \A q \in 0 .. e :
      /\ WaysTyped(x, x.suffix, text, e, q) /\ WaysCut(x, text, e, q)
      /\ WaysPrefixed(x, text, e, q) /\ WaysAnchored(x, text, e, q)

-----------------------------------------------------------------------------
(***************************************************************************)
(* RE2::PossibleMatchRange.                                                *)
(***************************************************************************)
ToUpper(c) == IF FirstLower <= c /\ c <= LastLower THEN c - CaseShift ELSE c

NoRange == [ok |-> FALSE]
PossibleRange(min, max) == [ok |-> TRUE, min |-> min, max |-> max]

\* The program's range, after n bytes of the prefix.
Extended(low, high, range) ==
  CASE range.ok -> PossibleRange(low \o range.min, high \o range.max)
    [] ~range.ok /\ high # << >> -> PossibleRange(low, LeastBehind(high))
    [] OTHER -> NoRange

PossibleMatchRange(object, program, maxlen) ==
  LET size == Len(object.prefix.bytes)
      n    == IF size <= maxlen THEN size ELSE maxlen
      high == SubSeq(object.prefix.bytes, 1, n)
      low  == IF object.prefix.fold THEN [k \in DOMAIN high |-> ToUpper(high[k])] ELSE high
  IN  Extended(low, high, IF maxlen = n THEN NoRange ELSE ProgramRange(program, maxlen - n))

-----------------------------------------------------------------------------
VARIABLES
  re, query,   \* the object, and the call
  onepass,    \* is_one_pass_
  stage,         \* "match", "locate", "reverse", "submatch" or "done"
  sub,        \* subtext: its begin and end
  anchor,     \* re_anchor, as far as Match has narrowed it
  place,      \* where the DFAs found the match, NoPlace before that
  skipped,    \* skipped_test
  asked,      \* the engine asked for submatches, and what it was asked
  ret,        \* what Match returns
  submatch    \* its submatches: register 2n begins the n-th, 2n + 1 ends it

mvars == <<re, query, onepass, stage, sub, anchor, place, skipped, asked, ret, submatch>>

size == Len(query.text)
Place(b, e) == [b |-> b, e |-> e]
NoPlace == Place(-1, -1)
NotAsked == [engine |-> "none"]
NoSubmatch == [k \in 0 .. 2 * NCaps - 1 |-> -1]

ncap == IF query.nsubmatch <= 1 + re.captures THEN query.nsubmatch ELSE 1 + re.captures

\* matchp is NULL when the caller does not ask for the place.
PlaceWanted == query.nsubmatch > 0

\* The kind of match asked for, until a full match is.
KindAsked == IF re.longest THEN "longest" ELSE "first"

MInit ==
  /\ re \in RE2s /\ query \in RE2Calls /\ onepass \in BOOLEAN
  /\ stage = "match" /\ sub = NoPlace /\ anchor = query.anchor
  /\ place = NoPlace /\ skipped = FALSE /\ asked = NotAsked
  /\ ret = FALSE /\ submatch = NoSubmatch

Return(answer) == ret' = answer /\ stage' = "done"

-----------------------------------------------------------------------------
(***************************************************************************)
(* The engines.                                                            *)
(***************************************************************************)
\* A search of text b .. e in the context of the whole text.
SubSearch(b, e, anchored, kind) ==
  [text |-> query.text, b |-> b, e |-> e, anchored |-> anchored, kind |-> kind]

\* The forward DFA tells where the match ends.
Ends(anchored, kind) ==
  LET found == Answer(re.suffix, SubSearch(sub.b, sub.e, anchored, kind))
  IN  IF found = NoAnswer THEN {} ELSE {found[1]}

\* The DFA of the reversed program tells where the longest match begins that
\* ends at e.
Begins(e) ==
  LET ways(q) == WaysOf(re.suffix, query.text, e, q)
      all     == {q \in sub.b .. e : \E n \in DOMAIN ways(q) : ways(q)[n].p = e}
  IN  IF all = {} THEN {} ELSE {Least(all)}

-----------------------------------------------------------------------------
(***************************************************************************)
(* Before the engines.                                                     *)
(***************************************************************************)
GoodPositions == query.startpos <= query.endpos /\ query.endpos <= size

AnchorsMet == /\ re.anchorStart => query.startpos = 0
              /\ re.anchorEnd => query.endpos = size

Prefix == re.prefix.bytes

HasPrefix ==
  Prefix # << >> =>
    /\ query.startpos = 0
    /\ Len(Prefix) <= query.endpos - query.startpos
    /\ PrefixAt(re, query.text)

MayMatch == GoodPositions /\ AnchorsMet /\ HasPrefix

Decline ==
  /\ stage = "match"
  /\ ~MayMatch
  /\ Return(FALSE)
  /\ UNCHANGED <<re, query, onepass, sub, anchor, place, skipped, asked, submatch>>

Narrowed ==
  IF (re.anchorStart /\ re.anchorEnd) \/ query.anchor = "ANCHOR_BOTH" THEN "ANCHOR_BOTH"
  ELSE IF re.anchorStart \/ Prefix # << >> THEN "ANCHOR_START"
  ELSE query.anchor

Enter ==
  /\ stage = "match"
  /\ MayMatch
  /\ sub' = Place(query.startpos + Len(Prefix), query.endpos)
  /\ anchor' = Narrowed
  /\ stage' = "locate"
  /\ UNCHANGED <<re, query, onepass, place, skipped, asked, ret, submatch>>

-----------------------------------------------------------------------------
(***************************************************************************)
(* The DFAs find the exact place, or filter out a text without a match.    *)
(***************************************************************************)
Locating(where) == stage = where /\ UNCHANGED <<re, query, onepass, sub, anchor, asked, submatch>>

\* Mutant: the failure of a DFA is taken for an exact place.
FallBackInPlace == stage' = "submatch" /\ place' = sub /\ UNCHANGED <<skipped, ret>>

\* A DFA ran out of memory, or there is no reversed program.
FallBack == skipped' = TRUE /\ stage' = "submatch" /\ UNCHANGED <<place, ret>>

Miss == Return(FALSE) /\ UNCHANGED <<place, skipped>>

Unanchored == Locating("locate") /\ anchor = "UNANCHORED"

\* The match must end with the text: only its begin is to be found.
BeginFromEnd ==
  /\ Unanchored /\ re.anchorEnd
  /\ \/ FallBack
     \/ Begins(sub.e) = {} /\ Miss
     \/ \E q \in Begins(sub.e) :
          IF PlaceWanted THEN /\ place' = Place(q, sub.e) /\ stage' = "submatch"
                              /\ UNCHANGED <<skipped, ret>>
          ELSE Return(TRUE) /\ UNCHANGED <<place, skipped>>

\* Mutant: the match is taken to begin with the text.
EndForwardOnly ==
  /\ Unanchored /\ ~re.anchorEnd
  /\ \/ FallBack
     \/ Ends(FALSE, KindAsked) = {} /\ Miss
     \/ \E e \in Ends(FALSE, KindAsked) :
          IF PlaceWanted THEN /\ place' = Place(sub.b, e) /\ stage' = "submatch"
                              /\ UNCHANGED <<skipped, ret>>
          ELSE Return(TRUE) /\ UNCHANGED <<place, skipped>>

EndForward ==
  /\ Unanchored /\ ~re.anchorEnd
  /\ \/ FallBack
     \/ Ends(FALSE, KindAsked) = {} /\ Miss
     \/ \E e \in Ends(FALSE, KindAsked) :
          IF PlaceWanted THEN /\ place' = Place(sub.b, e) /\ stage' = "reverse"
                              /\ UNCHANGED <<skipped, ret>>
          ELSE Return(TRUE) /\ UNCHANGED <<place, skipped>>

BeginBackward ==
  /\ Locating("reverse")
  /\ \/ FallBack
     \/ Begins(place.e) = {} /\ Miss
     \/ \E q \in Begins(place.e) : /\ place' = Place(q, place.e) /\ stage' = "submatch"
                                   /\ UNCHANGED <<skipped, ret>>

CanOnePass == onepass /\ ncap <= MaxOnePassCapture
CanBitState == re.insts <= MaxBitStateInsts
BitStateTextMax == MaxBitStateBitmapSize \div re.lists

\* The other engines are fast enough for a short text.
DFANotWorthIt ==
  \/ CanOnePass /\ size <= OnePassTextMax /\ (ncap > 1 \/ size <= TinyTextMax)
  \/ CanBitState /\ size <= BitStateTextMax /\ ncap > 1

AnchoredKind == IF anchor = "ANCHOR_BOTH" THEN "full" ELSE KindAsked

Skip ==
  /\ Locating("locate") /\ anchor # "UNANCHORED"
  /\ DFANotWorthIt
  /\ FallBack

EndAnchored ==
  /\ Locating("locate") /\ anchor # "UNANCHORED"
  /\ ~DFANotWorthIt
  /\ \/ FallBack
     \/ Ends(TRUE, AnchoredKind) = {} /\ Miss
     \/ \E e \in Ends(TRUE, AnchoredKind) :
          /\ place' = Place(sub.b, e) /\ stage' = "submatch"
          /\ UNCHANGED <<skipped, ret>>

-----------------------------------------------------------------------------
(***************************************************************************)
(* Submatches.                                                             *)
(***************************************************************************)
\* The registers from a whole match and its submatches: the prefix belongs
\* to the match, and what the caller did not ask for is unset.
Filled(regs) ==
  [k \in DOMAIN NoSubmatch |->
     IF k >= 2 * ncap THEN -1
     ELSE IF k = 0 THEN regs[0] - Len(Prefix) ELSE regs[k]]

\* The place is all that was asked for.
ReturnPlace ==
  /\ stage = "submatch" /\ ~skipped /\ ncap <= 1
  /\ Return(TRUE)
  /\ submatch' = IF ncap = 0 THEN NoSubmatch
                 ELSE Filled([NoSubmatch EXCEPT ![0] = place.b, ![1] = place.e])
  /\ UNCHANGED <<re, query, onepass, sub, anchor, place, skipped, asked>>

\* What the engine is asked: a full match of the place found, or everything.
Within ==
  IF skipped THEN SubSearch(sub.b, sub.e, anchor # "UNANCHORED",
                         IF anchor = "UNANCHORED" THEN KindAsked ELSE AnchoredKind)
  ELSE SubSearch(place.b, place.e, TRUE, "full")

Engine ==
  IF CanOnePass /\ Within.anchored THEN "onepass"
  ELSE IF CanBitState /\ Within.e - Within.b <= BitStateTextMax THEN "bitstate"
  ELSE "nfa"

AskEngine ==
  LET found == Answer(re.suffix, Within) IN
  /\ stage = "submatch" /\ (skipped \/ ncap > 1)
  /\ asked' = [engine |-> Engine, size |-> Within.e - Within.b,
               anchored |-> Within.anchored]
  /\ Return(found # NoAnswer)
  /\ submatch' = IF found = NoAnswer THEN submatch ELSE Filled(found)
  /\ UNCHANGED <<re, query, onepass, sub, anchor, place, skipped>>

MDone == stage = "done" /\ UNCHANGED mvars

MNext == \/ Decline \/ Enter \/ BeginFromEnd \/ EndForward \/ BeginBackward
         \/ Skip \/ EndAnchored \/ ReturnPlace \/ AskEngine \/ MDone

MSpec == MInit /\ [][MNext]_mvars

-----------------------------------------------------------------------------
(***************************************************************************)
(* Properties.                                                             *)
(***************************************************************************)
Requested ==
  [text |-> query.text, b |-> query.startpos, e |-> query.endpos,
   anchored |-> query.anchor # "UNANCHORED",
   kind |-> IF query.anchor = "ANCHOR_BOTH" THEN "full" ELSE KindAsked]

\* Whichever engines answered, were passed over or gave up, Match returns
\* the leftmost preferred (or longest) match of the whole regexp and as many
\* of its submatches as were asked for (RE2::Match in re2.h).
MatchCorrect ==
  stage = "done" =>
    LET want == IF GoodPositions THEN Answer(re.regexp, Requested) ELSE NoAnswer IN
    /\ ret = (want # NoAnswer)
    /\ ret => \A k \in DOMAIN submatch :
                submatch[k] = IF k < 2 * query.nsubmatch THEN want[k] ELSE -1

\* Once a DFA has found a match no engine contradicts it: Match never logs
\* an "inconsistency" (re2.cc:784, 852, 859, 865).
EnginesAgree == stage = "done" /\ place # NoPlace /\ ~skipped => ret
=============================================================================

----------------------------- MODULE PerlEngine -----------------------------
(***************************************************************************)
(* The binding to Perl (re2_xs.cc): Perl compiles a pattern through        *)
(* RE2_comp and matches a text against it, again and again with /g, through*)
(* RE2_exec.  Perl itself is modelled as far as it calls the engine; what  *)
(* RE2::Match finds is what module Answers says.                           *)
(***************************************************************************)
EXTENDS Answers, FiniteSetsExt

CONSTANTS Patterns,   \* what qr// is given, its flags and pragmas among it
          Subjects    \* the texts

\* What the binding takes for granted: a regexp has no more groups than there
\* are registers, it matches within the text, and the two ends of a group are
\* set together.
ASSUME PatternsAssumption ==
  \A x \in Patterns : /\ x.captures \in 0 .. NCaps - 1
                       /\ x.extended \in BOOLEAN /\ x.accepted \in BOOLEAN /\ x.longest \in BOOLEAN
ASSUME SubjectsAssumption == \A t \in Subjects : t \in Seq(Nat)
ASSUME FindsAssumption ==
  \A x \in Patterns, t \in Subjects : \A q \in 0 .. Len(t) :
    LET ways == WaysOf(x.regexp, t, Len(t), q) IN
    /\ ways \in Seq([p : q .. Len(t), caps : AnyCaps])
    /\ \A n \in DOMAIN ways, k \in 1 .. NCaps - 1 :
         ways[n].caps[2 * k] = -1 <=> ways[n].caps[2 * k + 1] = -1

VARIABLES
  pattern, strict,    \* the pattern, and re::engine::RE2::strict
  subject,            \* strbeg .. strend
  finds,              \* what RE2::Match finds in it, from each position on
  stage,              \* "comp", "ready", "perl", "croak", "crash" or "ended"
  nparens,            \* of the regexp that was compiled, -1 before that
  offs, lastparen,    \* where its groups matched last
  pos, zerolen,       \* Perl's pos($text), and whether it follows an empty match
  found               \* history: what Perl read after each match of its loop

perlvars == <<pattern, strict, subject, finds, stage, nparens, offs, lastparen, pos, zerolen, found>>

NoOffs == [start |-> -1, end |-> -1]

\* A search of the whole text t from position q on.
PerlSearch(x, t, q, anchored) ==
  [text |-> t, b |-> q, e |-> Len(t), anchored |-> anchored,
   kind |-> IF x.longest THEN "longest" ELSE "first"]

\* Mutant of FindsIn: RE2::Match gets the text from stringarg on, as if it
\* began there.
FindsInRest(x, t) ==
  [q \in 0 .. Len(t) |->
     LET m == Answer(x.regexp, PerlSearch(x, SubSeq(t, q + 1, Len(t)), 0, FALSE))
     IN  [n \in DOMAIN m |-> IF m[n] = -1 THEN -1 ELSE m[n] + q]]

\* RE2::Match of strbeg .. strend, unanchored, from each position on.
FindsIn(x, t) == [q \in 0 .. Len(t) |-> Answer(x.regexp, PerlSearch(x, t, q, FALSE))]

PerlInit ==
  /\ pattern \in Patterns /\ strict \in BOOLEAN /\ subject \in Subjects
  /\ finds = FindsIn(pattern, subject)
  /\ stage = "comp" /\ nparens = -1 /\ offs = << >> /\ lastparen = 0
  /\ pos = 0 /\ zerolen = FALSE /\ found = << >>

-----------------------------------------------------------------------------
(***************************************************************************)
(* RE2_comp.                                                               *)
(***************************************************************************)
perl_only == pattern.extended
Failed == perl_only \/ ~pattern.accepted

Compiling(to) ==
  stage = "comp" /\ stage' = to /\ UNCHANGED <<pattern, strict, subject, finds, lastparen, pos, zerolen, found>>

Comp ==
  /\ Compiling("ready") /\ ~Failed
  /\ nparens' = pattern.captures
  /\ offs' = [n \in 0 .. pattern.captures |-> [start |-> 0, end |-> 0]]   \* Newxz

FallBack == Compiling("perl") /\ Failed /\ ~strict /\ UNCHANGED <<nparens, offs>>

Croak == Compiling("croak") /\ Failed /\ strict /\ ~perl_only /\ UNCHANGED <<nparens, offs>>

\* There is no RE2 object to ask for its error: a null pointer is followed.
CroakOverExtended ==
  Compiling("crash") /\ Failed /\ strict /\ perl_only /\ UNCHANGED <<nparens, offs>>

-----------------------------------------------------------------------------
(***************************************************************************)
(* RE2_exec.                                                               *)
(***************************************************************************)
\* The groups of m as Perl sees them.
OffsOf(m) ==
  [n \in 0 .. nparens |-> IF m[2 * n] = -1 THEN NoOffs
                          ELSE [start |-> m[2 * n], end |-> m[2 * n + 1]]]

LastParen(m) == Max({n \in 0 .. nparens : m[2 * n] # -1})

\* A search from stringarg, which is not behind strend; the match ought to end
\* at minend or behind it, which is not looked at.
FoundFrom(stringarg, minend) == finds[stringarg]

SetOffs(m) == offs' = OffsOf(m) /\ lastparen' = LastParen(m)
KeepOffs == UNCHANGED <<offs, lastparen>>

-----------------------------------------------------------------------------
(***************************************************************************)
(* Perl.                                                                   *)
(***************************************************************************)
Reading == [offs |-> offs, lastparen |-> lastparen]

\* An empty match that is found once more says nothing new.
Noted(reading) ==
  found' = IF found # << >> /\ found[Len(found)] = reading THEN found ELSE Append(found, reading)

\* One round of while ($text =~ /.../g): the match is to begin at pos, and to
\* end behind it if the last match was empty.
GlobalMatch ==
  /\ stage = "ready"
  /\ LET m == FoundFrom(pos, pos + IF zerolen THEN 1 ELSE 0) IN
       IF m = NoAnswer
         THEN KeepOffs /\ pos' = 0 /\ zerolen' = FALSE /\ stage' = "ended" /\ UNCHANGED found
       ELSE /\ SetOffs(m) /\ Noted(Reading')
            /\ pos' = m[1] /\ zerolen' = (m[0] = m[1]) /\ UNCHANGED stage
  /\ UNCHANGED <<pattern, strict, subject, finds, nparens>>

\* A search outside of the loop; the next one begins at the front again.
Anew ==
  /\ stage \in {"ready", "ended"} /\ stage' = "ready"
  /\ pos' = 0 /\ zerolen' = FALSE /\ found' = << >>
  /\ UNCHANGED <<pattern, strict, nparens>>

\* $text =~ /.../ without /g, on a text just assigned.
PerlMatch ==
  /\ Anew
  /\ subject' \in Subjects /\ finds' = FindsIn(pattern, subject')
  /\ LET m == finds'[0] IN
       IF m = NoAnswer THEN KeepOffs ELSE SetOffs(m)

\* stringarg > strend, which the engine is ready for: no match, and of the
\* last one only the groups are kept.
ExecBehind ==
  /\ Anew
  /\ offs' = [offs EXCEPT ![0] = NoOffs]
  /\ UNCHANGED <<subject, finds, lastparen>>

PerlLoopNext == Comp \/ FallBack \/ Croak \/ CroakOverExtended \/ GlobalMatch
PerlNext == PerlLoopNext \/ PerlMatch \/ ExecBehind

PerlSpec == PerlInit /\ [][PerlNext]_perlvars

-----------------------------------------------------------------------------
\* What x matches just at q, seen in the whole text.
BeginsThere(x, t, q) == Answer(x.regexp, PerlSearch(x, t, q, TRUE))

EndRead(readings, k) == IF k = 0 THEN 0 ELSE readings[k].offs[0].end

\* The groups that Perl reads as $&, $1, ... and $+ are those of the match m.
ReadsAsIn(x, reading, m) ==
  /\ \A n \in 0 .. x.captures :
       reading.offs[n].start = m[2 * n] /\ reading.offs[n].end = m[2 * n + 1]
  /\ reading.lastparen \in 0 .. x.captures /\ m[2 * reading.lastparen] # -1
  /\ \A n \in reading.lastparen + 1 .. x.captures : m[2 * n] = -1

\* Each match begins at or behind the end of the one before, where none could
\* have begun earlier.
ReadInTurn(x, t, last, reading) ==
  LET b == reading.offs[0].start IN
  /\ last <= b /\ BeginsThere(x, t, b) # NoAnswer /\ ReadsAsIn(x, reading, BeginsThere(x, t, b))
  /\ \A q \in last .. b - 1 : BeginsThere(x, t, q) = NoAnswer

\* while ($text =~ /.../g) goes over the successive matches of the text as a
\* whole, with what stands before each of them seen by \b and \A; Perl reads
\* their groups and none that an earlier match left, and the loop ends only
\* where there is no match left (t/08.pos.t:15-25, re2_xs.cc:237-277).
LoopInTurn ==
  /\ \A k \in DOMAIN found : ReadInTurn(pattern, subject, EndRead(found, k - 1), found[k])
  /\ stage = "ended" =>
       \A q \in EndRead(found, Len(found)) .. Len(subject) : BeginsThere(pattern, subject, q) = NoAnswer

\* "This module replaces perl's regex engine in a given lexical scope with RE2"
\* (lib/re/engine/RE2.pm:70): a loop over all matches of a text, as in
\* t/08.pos.t:15, comes to an end.
GlobalMatchEnds == <>(stage \notin {"comp", "ready"})
=============================================================================

------------------------------- MODULE Globs --------------------------------
(***************************************************************************)
(* strings::globMatch(): iterative matching that goes back to the last     *)
(* star only.  A pattern and a text are sequences of characters.  A star   *)
(* in the text that meets one in the pattern is taken for a character of   *)
(* both, so that * does not match *a.                                      *)
(***************************************************************************)
EXTENDS Naturals, Sequences

\* starPattern = 0 stands for npos.
AtStart == [p |-> 1, t |-> 1, starPattern |-> 0, starText |-> 1]

\* The loop was left with false.
NoMatch == [p |-> 0, t |-> 0, starPattern |-> 0, starText |-> 0]

\* Mutant: after a mismatch the text is not rewound.
BugBackToStar(at) == [at EXCEPT !.p = at.starPattern + 1, !.t = at.t + 1]

BackToStar(at) == [at EXCEPT !.p = at.starPattern + 1, !.t = at.starText + 1, !.starText = @ + 1]

\* One turn of the loop over the text.
GlobStep(pattern, text, at) ==
  LET fits(characters) == at.p <= Len(pattern) /\ pattern[at.p] \in characters
  IN IF fits({"?", text[at.t]}) THEN [at EXCEPT !.p = @ + 1, !.t = @ + 1]
     ELSE IF fits({"*"}) THEN [at EXCEPT !.starPattern = at.p, !.p = @ + 1, !.starText = at.t]
     ELSE IF at.starPattern # 0 THEN BackToStar(at)
     ELSE NoMatch

\* Where the loop may be: behind the last star, at or behind the place that the
\* star was tried for.
Positions(pattern, text) ==
  {at \in [p : 1..(Len(pattern) + 1), t : 1..(Len(text) + 1),
           starPattern : 0..Len(pattern), starText : 1..(Len(text) + 1)] :
     at.starPattern < at.p /\ at.starText <= at.t}

GlobMatch(pattern, text) ==
  LET from[at \in Positions(pattern, text)] ==
        IF at.t > Len(text) THEN \A i \in at.p..Len(pattern) : pattern[i] = "*"
        ELSE GlobStep(pattern, text, at) # NoMatch /\ from[GlobStep(pattern, text, at)]
  IN from[AtStart]

\* What a glob means: each star stands for some part of the text.
Means(pattern, text) ==
  LET from[p \in 1..(Len(pattern) + 1)] ==
        [t \in 1..(Len(text) + 1) |->
           IF p > Len(pattern) THEN t > Len(text)
           ELSE IF pattern[p] = "*" THEN \E n \in t..(Len(text) + 1) : from[p + 1][n]
           ELSE t <= Len(text) /\ pattern[p] \in {"?", text[t]} /\ from[p + 1][t + 1]]
  IN from[1][1]
=============================================================================

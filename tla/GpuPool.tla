------------------------------- MODULE GpuPool -------------------------------
(***************************************************************************)
(* What the daemon promises, with no clock, no owners and no lock: a pool  *)
(* of cards and one line of members waiting for them.  Members leave for   *)
(* whatever reason (released, expired, canceled, given up), a newcomer     *)
(* joins at the end of the line, and then the front of the line is served, *)
(* in order, as far as the free cards go: all that a member wants, or      *)
(* nothing.                                                                *)
(***************************************************************************)
EXTENDS Integers, Sequences, FiniteSets

CONSTANTS Card, Member, Wants, None

VARIABLES
    line,       \* the members that wait, in order
    want,       \* what each member wants: [cards, count], one of them None
    held        \* the cards of each member that was served

vars == <<line, want, held>>

Waiting == {line[i] : i \in DOMAIN line}
Members == Waiting \cup DOMAIN held
Used(h) == UNION {h[x] : x \in DOMAIN h}

Fits(w, S) == IF w.cards # None THEN S = w.cards ELSE Cardinality(S) = w.count
Servable(w, free) == \E S \in SUBSET free : Fits(w, S)

Init == line = <<>> /\ want = <<>> /\ held = <<>>

\* The line without those of gone.
Staying(gone) ==
    LET stay[i \in 0..Len(line)] ==
            IF i = 0 THEN <<>>
            ELSE IF line[i] \in gone THEN stay[i - 1]
            ELSE Append(stay[i - 1], line[i])
    IN  stay[Len(line)]

\* Mutant of LineAfter: newcomers go first.
LineAfterJumping(gone, arrival) == arrival \o Staying(gone)

\* Those of gone leave, those of arrival join at the end.
LineAfter(gone, arrival) == Staying(gone) \o arrival

\* The first n of the line after the change are served with cards nobody
\* keeps, and the one that is then first cannot be.
Serve(gone, arrival, w, n) ==
    LET after == LineAfter(gone, arrival)
        served == {after[i] : i \in 1..n}
        kept == [x \in DOMAIN held \ gone |-> held[x]]
        free == Card \ Used(kept)
    IN  /\ line' = SubSeq(after, n + 1, Len(after))
        /\ want' = [x \in (Members \ gone) \cup {arrival[i] : i \in DOMAIN arrival}
                      |-> IF x \in Members THEN want[x] ELSE w]
        /\ \E given \in [served -> SUBSET free] :
              /\ \A x \in served : Fits(want'[x], given[x])
              /\ \A x, y \in served : x # y => given[x] \cap given[y] = {}
              /\ held' = [x \in DOMAIN kept \cup served |->
                            IF x \in served THEN given[x] ELSE kept[x]]
        /\ line' # <<>> => ~Servable(want'[Head(line')], Card \ Used(held'))

\* Nobody joins, or a newcomer who wants w.
Step(gone) ==
    \/ \E n \in 0..Len(LineAfter(gone, <<>>)) : Serve(gone, <<>>, None, n)
    \/ \E x \in Member \ Members, w \in Wants :
          \E n \in 0..Len(LineAfter(gone, <<x>>)) : Serve(gone, <<x>>, w, n)

Next == \E gone \in SUBSET Members : Step(gone)

Spec == Init /\ [][Next]_vars

\* Every member that was served leaves in the end: its command ends, it is
\* canceled, or its lease expires.
Leave(x) == \E gone \in SUBSET Members : x \in gone /\ x \in DOMAIN held /\ Step(gone)
FairSpec == Spec /\ \A x \in Member : WF_vars(Leave(x))

-----------------------------------------------------------------------------
\* No starvation: whoever waits is served or leaves, however many come later
\* and whatever they want.
NoStarvation == \A x \in Member : x \in Waiting ~> x \notin Waiting
=============================================================================

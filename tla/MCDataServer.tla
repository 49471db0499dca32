---------------------------- MODULE MCDataServer ----------------------------
(***************************************************************************)
(* Instances of DataServer with two streams, around a midnight.            *)
(***************************************************************************)
EXTENDS DataServer, TLC

CONSTANTS s1, s2, mon, tue, first, last

TwoStreams == {s1, s2}
TwoDays == {mon, tue}
TwoHours == {first, last}

\* The last hour of Monday and the first of Tuesday.  A check that begins in the one
\* and ends in the other reads the first hour of Monday.
Midnight == {<<mon, last>>, <<tue, first>>}

\* Plans that remove a stream and move the other to another slot.  s2 is planned on
\* both sides of midnight and in neither of the hours a check may misread.
TwoPlans == { s1 :> {<<mon, first>>, <<mon, last>>} @@ s2 :> Midnight,
              s1 :> {<<tue, first>>} }
=============================================================================

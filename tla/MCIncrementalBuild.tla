------------------------- MODULE MCIncrementalBuild -------------------------
(* A program p made from a source s and a generated file g.                *)
EXTENDS IncrementalBuild, TLC

MCExplicit == "p" :> <<"s", "g">> @@ "g" :> <<"r">>
MCContents == "s" :> << <<"s1">>, <<"s2">>, <<"s3">> >> @@ "h" :> << <<"h1">>, <<"h2">> >>
                @@ "r" :> << <<"r1">>, <<"r2">> >>
\* The second versions of s and of r include the header h.
MCIncludes == <<"s2">> :> {"h"} @@ <<"r2">> :> {"h"}
                @@ [c \in {<<"s1">>, <<"s3">>, <<"r1">>, <<"h1">>, <<"h2">>} |-> {}]

Plain(decider) == [decider |-> decider, drift |-> FALSE, cache |-> FALSE, midway |-> FALSE,
                   kills |-> FALSE, stops |-> FALSE, reverts |-> FALSE, until |-> 3]
Deciders == {"content", "timestamp-match", "timestamp-newer", "MD5-timestamp"}

\* Runs that are killed, fail or are interrupted, and with signatures of the
\* content edits at any moment: but every edit brings something new.
Rough == {[Plain(d) EXCEPT !.kills = TRUE, !.stops = TRUE, !.midway = (d = "content")] :
             d \in Deciders \ {"timestamp-newer"}}

\* Files that go back and forth: but every run comes to its end.
Smooth == {[Plain(d) EXCEPT !.reverts = TRUE, !.drift = TRUE, !.until = 4] : d \in Deciders}

\* Signatures of old files beside runs that are killed; beside runs that fail or
\* are interrupted, where no signature counts: Stopping is what fails.
Aging == {[Plain(d) EXCEPT !.drift = TRUE, !.kills = TRUE, !.midway = (d = "content")] :
             d \in {"content", "MD5-timestamp"}}
           \cup {[Plain("timestamp-match") EXCEPT !.drift = TRUE, !.kills = TRUE, !.stops = TRUE]}

\* A shared cache, with either.
Shared == {[Plain("content") EXCEPT !.cache = TRUE, !.kills = TRUE, !.stops = TRUE],
           [Plain("content") EXCEPT !.cache = TRUE, !.reverts = TRUE, !.drift = TRUE]}

FlagSymmetry == Permutations(Flags)
MCOptionSets == Rough \cup Smooth \cup Aging \cup Shared

\* What the run leaves out, since Fresh fails (see the README); CsigIsContent is
\* the reason.
Stopping     == {[Plain("content") EXCEPT !.drift = TRUE, !.stops = TRUE]}
=============================================================================

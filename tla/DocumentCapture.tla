-------------------------- MODULE DocumentCapture --------------------------
(* ResponseCapture with what UsageExtraction finds in the documents of the *)
(* answers.                                                                *)
EXTENDS ResponseCapture, UsageExtraction

\* What documents may report that another reading of them would not.
Unsettled ==
    UNION {PayloadsOf(d[1], d[2]) :
              d \in {e \in Values \X Providers : ~ReadsTheSame(e[1], e[2])}}

\* recursiveUsage ranges over Go maps, whose order changes from call to call
\* (stream.go:315): the documents of an answer report the same counts whatever the order,
\* and the same model unless two of a document's objects name different ones, so that a
\* client that gets the same answer again is not billed differently for it.
MapOrderIsHarmless == \A i \in DOMAIN answer : answer[i].payload \notin Unsettled
=============================================================================

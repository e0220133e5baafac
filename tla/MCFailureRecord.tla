--------------------------- MODULE MCFailureRecord ---------------------------
(* Three exceptions; groups of up to three, with an object in them that is *)
(* no exception; configurations in which each limit is the one that cuts.  *)
EXTENDS FailureRecord, TLC
CONSTANTS e1, e2, e3

MCSymmetry == Permutations({e2, e3})

MCGroups == {Unreadable, <<e1>>, <<e2>>, <<e3>>, <<e2, e3>>, <<e3, e2>>,
             <<Nothing, e2, e3>>, <<Nothing, e3, e2>>}

(* Limits that cut nothing.                                                *)
Roomy == [exceptionDepth |-> 4, exceptionChildren |-> 2, maxFrames |-> 3,
          fingerprintFrames |-> 2, maxCrumbs |-> 3, maxDepth |-> 10, maxItems |-> 20,
          traceback |-> 3, crumbs |-> 3]

MCSituations ==
    {Roomy,
     [Roomy EXCEPT !.exceptionDepth = 2, !.exceptionChildren = 1, !.traceback = 5, !.crumbs = 4],
     [Roomy EXCEPT !.exceptionDepth = 1, !.exceptionChildren = 3, !.maxDepth = 3, !.crumbs = 0],
     [Roomy EXCEPT !.maxDepth = 4, !.exceptionChildren = 3, !.traceback = 0],
     [Roomy EXCEPT !.maxItems = 9, !.maxFrames = 12, !.maxCrumbs = 11, !.traceback = 10, !.crumbs = 11],
     [Roomy EXCEPT !.maxItems = 5, !.maxDepth = 5, !.maxFrames = 6, !.traceback = 6],
     [Roomy EXCEPT !.maxItems = 2, !.maxDepth = 2]}
=============================================================================

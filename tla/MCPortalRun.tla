----------------------------- MODULE MCPortalRun -----------------------------
(***************************************************************************)
(* PortalRun over four postings, b without an id and d without a title:    *)
(* one run that pages through either portal while its list changes, and    *)
(* runs and embed loops that find an empty list, for the limiter.          *)
(***************************************************************************)
EXTENDS PortalRun

CONSTANTS r1, r2, l1, l2, a, b, c, d

Paging(portal, comesUp) ==
  [callers |-> {r1}, portal |-> portal, lists |-> <<a, b, c>>,
   comesUp |-> comesUp]
Calling(callers) ==
  [callers |-> callers, portal |-> "linkedin", lists |-> <<>>,
   comesUp |-> {}]

MCScenarios ==
  {Paging("jobindex", {d}), Paging("linkedin", {}),
   Calling({r1, r2}), Calling({r1, l1, l2})}
=============================================================================

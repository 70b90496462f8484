--------------------------- MODULE MCFeedDispatch ---------------------------
(***************************************************************************)
(* Sources and requests for checking FeedDispatch with TLC.                *)
(***************************************************************************)
EXTENDS FeedDispatch

CONSTANTS a, b, p1, p2

TwoSources == <<a, b>>
\* A pull that names one source twice, which its validation lets through.
PullLists  == {<<a, a>>}
=============================================================================

--------------------------- MODULE MCXdgToplevel ---------------------------
\* A toplevel with a bounded number of requests and resizes, MaxMade of both.
EXTENDS XdgToplevel

CONSTANTS MaxRequests, MaxResizes, MaxMade

VARIABLE
    made   \* bounds: how many requests, and begins of a resize, were made

MCMotions == {-1, 1}

Total == made.requests + made.resizes

MCInit == Init /\ made = [requests |-> 0, resizes |-> 0]

MCNext ==
    \/ /\ Request
       /\ made.requests < MaxRequests /\ Total < MaxMade
       /\ made' = [made EXCEPT !.requests = @ + 1]
    \/ /\ Resizing
       /\ IF resize'.active
          THEN /\ made.resizes < MaxResizes /\ Total < MaxMade
               /\ made' = [made EXCEPT !.resizes = @ + 1]
          ELSE UNCHANGED made
    \/ Configuring /\ UNCHANGED made

MCSpec == /\ MCInit /\ [][MCNext]_<<vars, made>>
          /\ WF_<<vars, made>>(SendConfigure /\ UNCHANGED made)
          /\ WF_<<vars, made>>(Answer /\ UNCHANGED made)
=============================================================================
